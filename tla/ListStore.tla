----------------------------- MODULE ListStore -----------------------------
(***************************************************************************)
(* The list commands of one logical database (pkg/commands list_commands   *)
(* and database.go) run by concurrent connections.                         *)
(*                                                                         *)
(* A handler is a sequence of lock sections: it looks the list up under    *)
(* db.Mu, works on it under the list's own l.mu, and unlinks an emptied    *)
(* list under db.Mu again.  Nothing holds the three together, so every     *)
(* section is an action of its own here and connections interleave between *)
(* them.  Pointers are modelled as such: heap[k] is the sequence of List   *)
(* objects ever created for key k, Lists[k] the index of the one db.Lists  *)
(* points to (Absent for none) and ref[c] the one a handler holds, which   *)
(* may have been unlinked since.                                           *)
(*                                                                         *)
(* Elements are numbered in the order their pushes are issued, so an       *)
(* element names the push it came from.  Keys here carry no TTL, so the    *)
(* expireIfNeeded call that opens each lookup returns at once; TTLs are    *)
(* the subject of their own module.                                        *)
(***************************************************************************)
EXTENDS ListOps, FiniteSets

CONSTANTS
  Clients,     \* connections, one command at a time each
  Keys,        \* keys of the database
  Commands,    \* the commands the connections issue
  Batches,     \* how many elements one push may carry
  KeyLists,    \* the key lists a blocking pop may be given
  Deadlines,   \* TRUE for blocking pops with a timeout, FALSE for those without
  MaxItems,    \* bound: elements pushed in one behaviour
  MaxCallbacks \* bound: timer callbacks waiting for listMu at once

Pushes    == {"LPUSH", "RPUSH"}
Pops      == {"LPOP", "RPOP"}
Blocking  == {"BLPOP", "BRPOP"}
AllCommands == Pushes \cup Pops \cup Blocking \cup {"LREM", "DEL"}

ASSUME ConstantsAssumption ==
  /\ Commands \subseteq AllCommands
  /\ Batches \subseteq Nat \ {0}
  /\ KeyLists \subseteq Seq(Keys) \ {<< >>}
  /\ Deadlines \subseteq BOOLEAN
  /\ MaxItems \in Nat
  /\ MaxCallbacks \in Nat \ {0}

Items  == 1 .. MaxItems
Absent == 0

VARIABLES
  Lists,     \* db.Lists: key -> index into heap[key], or Absent
  heap,      \* every List object created for a key: its l.items
  pc,        \* the lock section each connection's handler comes to next
  call,      \* the command it runs and its arguments
  ki,        \* the key argument the handler is working on
  ref,       \* the *List the handler holds
  clock,     \* now against the deadline: "before", "at" or "after"
  armed,     \* time.AfterFunc timer set and neither fired nor stopped
  callbacks, \* fired timer callbacks that have yet to take listMu
  issued,    \* number of elements pushed so far
  popped,    \* elements a pop took out
  acked,     \* elements whose push was acknowledged
  ahead,     \* the elements in the list when an element's push was issued
  unseen     \* what the lists held when a connection parked

storeVars == <<Lists, heap>>
callVars  == <<call, ki, ref>>
waitVars  == <<clock, armed, callbacks>>
ghostVars == <<popped, acked, ahead, unseen>>
vars == <<storeVars, pc, callVars, waitVars, issued, ghostVars>>

Steps == {"idle", "create", "push", "signal", "find", "pop", "len", "unlink",
          "deadline", "wait", "parked", "woken", "delete"}

Frames == [cmd : AllCommands \cup {"none"}, keys : Seq(Keys),
           vals : Seq(Items), timed : BOOLEAN]

Frame(name, ks, vs, hasDeadline) ==
  [cmd |-> name, keys |-> ks, vals |-> vs, timed |-> hasDeadline]

NoCall == Frame("none", << >>, << >>, FALSE)

\* The key c is working on, and the items of the list it holds.
Key(c)  == call[c].keys[ki[c]]
Held(c) == heap[Key(c)][ref[c]]

Elements(s) == {s[i] : i \in 1 .. Len(s)}

\* The elements a lookup of k would find.
Reachable(k) == IF Lists[k] = Absent THEN {} ELSE Elements(heap[k][Lists[k]])

\* A handler at step p of call f, on its i-th key with the list r in hand, in
\* heap h: it works on one of its keys and never on a nil list.
WellFormed(p, f, i, r, h) ==
  /\ p = "idle" => f = NoCall /\ i = 1
  /\ p # "idle" => i \in 1 .. Len(f.keys)
  /\ p \in {"push", "pop", "len"} => r \in 1 .. Len(h[f.keys[i]])
  /\ p \in {"create", "push"} \/ f.cmd = "LREM" => f.vals # << >>

\* The type invariant; it includes that no pointer dangles, neither one in
\* db.Lists nor one a handler works with (a nil *List would panic).
TypeOK ==
  /\ heap \in [Keys -> Seq(Seq(Items))]
  /\ Lists \in [Keys -> Nat]
  /\ \A k \in Keys : Lists[k] <= Len(heap[k])
  /\ pc \in [Clients -> Steps]
  /\ call \in [Clients -> Frames]
  /\ ki \in [Clients -> Nat]
  /\ ref \in [Clients -> Nat]
  /\ clock \in [Clients -> {"before", "at", "after"}]
  /\ armed \in [Clients -> BOOLEAN]
  /\ callbacks \in 0 .. MaxCallbacks
  /\ issued \in 0 .. MaxItems
  /\ popped \subseteq Items
  /\ acked \subseteq Items
  /\ ahead \in [Items -> SUBSET Items]
  /\ unseen \in [Clients -> SUBSET Items]
  /\ \A c \in Clients : WellFormed(pc[c], call[c], ki[c], ref[c], heap)

Init ==
  /\ Lists = [k \in Keys |-> Absent]
  /\ heap = [k \in Keys |-> << >>]
  /\ pc = [c \in Clients |-> "idle"]
  /\ call = [c \in Clients |-> NoCall]
  /\ ki = [c \in Clients |-> 1]
  /\ ref = [c \in Clients |-> Absent]
  /\ clock = [c \in Clients |-> "before"]
  /\ armed = [c \in Clients |-> FALSE]
  /\ callbacks = 0
  /\ issued = 0
  /\ popped = {}
  /\ acked = {}
  /\ ahead = [i \in Items |-> {}]
  /\ unseen = [c \in Clients |-> {}]

-----------------------------------------------------------------------------
(* Commands arriving: argument parsing is done, the handler's loop starts. *)

Start(c, frame, step) ==
  /\ pc[c] = "idle"
  /\ frame.cmd \in Commands
  /\ pc' = [pc EXCEPT ![c] = step]
  /\ call' = [call EXCEPT ![c] = frame]
  /\ clock' = [clock EXCEPT ![c] = "before"]
  /\ UNCHANGED <<storeVars, ki, ref, armed, callbacks, popped, acked, unseen>>

\* The values of a push: the next n elements.
NextItems(n) == [i \in 1 .. n |-> issued + i]

IssuePush(c) ==
  \E name \in Pushes, k \in Keys, n \in Batches :
    /\ issued + n <= MaxItems
    /\ Start(c, Frame(name, <<k>>, NextItems(n), FALSE), "create")
    /\ issued' = issued + n
    /\ ahead' = [i \in Items |-> IF i \in Elements(NextItems(n)) THEN Reachable(k)
                                                              ELSE ahead[i]]

IssuePop(c) ==
  \E name \in Pops, k \in Keys :
    /\ Start(c, Frame(name, <<k>>, << >>, FALSE), "find")
    /\ UNCHANGED <<issued, ahead>>

IssueBlockingPop(c) ==
  \E name \in Blocking, ks \in KeyLists, hasDeadline \in Deadlines :
    /\ Start(c, Frame(name, ks, << >>, hasDeadline), "find")
    /\ UNCHANGED <<issued, ahead>>

IssueLRem(c) ==
  \E k \in Keys, value \in 1 .. issued :
    /\ Start(c, Frame("LREM", <<k>>, <<value>>, FALSE), "find")
    /\ UNCHANGED <<issued, ahead>>

IssueDel(c) ==
  \E ks \in KeyLists :
    /\ Start(c, Frame("DEL", ks, << >>, FALSE), "delete")
    /\ UNCHANGED <<issued, ahead>>

-----------------------------------------------------------------------------
(* Shared control of the handlers.                                         *)

Goto(c, step) == pc' = [pc EXCEPT ![c] = step]

\* The handler returns its reply; its locals are gone.
Return(c) ==
  /\ Goto(c, "idle")
  /\ call' = [call EXCEPT ![c] = NoCall]
  /\ ki' = [ki EXCEPT ![c] = 1]
  /\ ref' = [ref EXCEPT ![c] = Absent]

\* No list, or an empty one: a blocking pop tries its next key, the other
\* commands reply at once (Null, or 0 for LREM).
Miss(c) ==
  IF call[c].cmd \in Blocking
    THEN IF ki[c] < Len(call[c].keys)
           THEN Goto(c, "find") /\ ki' = [ki EXCEPT ![c] = @ + 1] /\ UNCHANGED <<call, ref>>
           ELSE Goto(c, "deadline") /\ UNCHANGED callVars
    ELSE Return(c)

\* listCond.Broadcast() under listMu: every parked connection is made ready.
Broadcast(steps) ==
  [d \in Clients |-> IF steps[d] = "parked" THEN "woken" ELSE steps[d]]

-----------------------------------------------------------------------------
(* LPUSH and RPUSH.                                                        *)

\* Mutant: the key is entered in db.Lists without a list.
CreateNil(c) ==
  LET k == Key(c) IN
  /\ pc[c] = "create"
  /\ Lists' = [Lists EXCEPT ![k] = Len(heap[k]) + 1]
  /\ ref' = [ref EXCEPT ![c] = Len(heap[k]) + 1]
  /\ Goto(c, "push")
  /\ UNCHANGED <<heap, call, ki, waitVars, issued, ghostVars>>

\* db.GetOrCreateList under db.Mu.
GetOrCreateList(c) ==
  LET k == Key(c) IN
  /\ pc[c] = "create"
  /\ IF Lists[k] # Absent
       THEN ref' = [ref EXCEPT ![c] = Lists[k]] /\ UNCHANGED storeVars
       ELSE /\ heap' = [heap EXCEPT ![k] = Append(@, << >>)]
            /\ Lists' = [Lists EXCEPT ![k] = Len(heap[k]) + 1]
            /\ ref' = [ref EXCEPT ![c] = Len(heap[k]) + 1]
  /\ Goto(c, "push")
  /\ UNCHANGED <<call, ki, waitVars, issued, ghostVars>>

\* Mutant: the push puts its list (back) under the key.
PushRelinks(c) ==
  /\ pc[c] = "push"
  /\ heap' = [heap EXCEPT ![Key(c)][ref[c]] = RPush(@, call[c].vals)]
  /\ Lists' = [Lists EXCEPT ![Key(c)] = ref[c]]
  /\ Goto(c, "signal")
  /\ UNCHANGED <<callVars, waitVars, issued, ghostVars>>

\* list.LPush / list.RPush under l.mu, on the list looked up before.
Push(c) ==
  /\ pc[c] = "push"
  /\ heap' = [heap EXCEPT ![Key(c)][ref[c]] =
                IF call[c].cmd = "LPUSH" THEN LPush(@, call[c].vals)
                                         ELSE RPush(@, call[c].vals)]
  /\ Goto(c, "signal")
  /\ UNCHANGED <<Lists, callVars, waitVars, issued, ghostVars>>

\* Mutant: listCond.Signal() instead of Broadcast().
SignalOne(c) ==
  /\ pc[c] = "signal"
  /\ \/ \E d \in Clients : pc[d] = "parked" /\ pc' = [pc EXCEPT ![c] = "idle", ![d] = "woken"]
     \/ (\A d \in Clients : pc[d] # "parked") /\ pc' = [pc EXCEPT ![c] = "idle"]
  /\ call' = [call EXCEPT ![c] = NoCall]
  /\ ki' = [ki EXCEPT ![c] = 1]
  /\ ref' = [ref EXCEPT ![c] = Absent]
  /\ acked' = acked \cup Elements(call[c].vals)
  /\ UNCHANGED <<storeVars, waitVars, issued, popped, ahead, unseen>>

\* db.signalListPush, then the reply with the new length.
SignalListPush(c) ==
  /\ pc[c] = "signal"
  /\ pc' = Broadcast([pc EXCEPT ![c] = "idle"])
  /\ call' = [call EXCEPT ![c] = NoCall]
  /\ ki' = [ki EXCEPT ![c] = 1]
  /\ ref' = [ref EXCEPT ![c] = Absent]
  /\ acked' = acked \cup Elements(call[c].vals)
  /\ UNCHANGED <<storeVars, waitVars, issued, popped, ahead, unseen>>

-----------------------------------------------------------------------------
(* LPOP, RPOP, LREM and one pass of BLPOP/BRPOP over its keys.             *)

\* db.GetList under db.Mu.
GetList(c) ==
  LET k == Key(c) IN
  /\ pc[c] = "find"
  /\ IF Lists[k] = Absent
       THEN Miss(c)
       ELSE ref' = [ref EXCEPT ![c] = Lists[k]] /\ Goto(c, "pop") /\ UNCHANGED <<call, ki>>
  /\ UNCHANGED <<storeVars, waitVars, issued, ghostVars>>

\* list.LPop / list.RPop under l.mu.
Pop(c) ==
  LET pop == IF call[c].cmd \in {"LPOP", "BLPOP"} THEN LPop(Held(c)) ELSE RPop(Held(c)) IN
  /\ pc[c] = "pop"
  /\ call[c].cmd # "LREM"
  /\ IF Held(c) = << >>
       THEN Miss(c) /\ UNCHANGED <<heap, popped>>
       ELSE /\ heap' = [heap EXCEPT ![Key(c)][ref[c]] = pop.rest]
            /\ popped' = popped \cup {pop.value}
            /\ Goto(c, "len")
            /\ UNCHANGED callVars
  /\ UNCHANGED <<Lists, waitVars, issued, acked, ahead, unseen>>

\* list.LRem under l.mu; elements are distinct, so every count removes the one
\* occurrence there may be, but for the smallest int, which removes nothing.
Rem(c) ==
  LET value == call[c].vals[1] IN
  /\ pc[c] = "pop"
  /\ call[c].cmd = "LREM"
  /\ \/ UNCHANGED heap   \* not there, or that count
     \/ \E i \in 1 .. Len(Held(c)) :
          /\ Held(c)[i] = value
          /\ heap' = [heap EXCEPT ![Key(c)][ref[c]] = RemoveAt(@, i)]
  /\ Goto(c, "len")
  /\ UNCHANGED <<Lists, callVars, waitVars, issued, ghostVars>>

\* Mutant: an emptied list stays under its key.
CheckLenSkipped(c) ==
  /\ pc[c] = "len"
  /\ Return(c)
  /\ UNCHANGED <<storeVars, waitVars, issued, ghostVars>>

\* The second look at the list, list.LLen() under l.mu.
CheckLen(c) ==
  /\ pc[c] = "len"
  /\ IF Held(c) = << >> THEN Goto(c, "unlink") /\ UNCHANGED callVars
                        ELSE Return(c)
  /\ UNCHANGED <<storeVars, waitVars, issued, ghostVars>>

\* delete(db.Lists, key) under db.Mu, whatever list is there by now.
Unlink(c) ==
  /\ pc[c] = "unlink"
  /\ Lists' = [Lists EXCEPT ![Key(c)] = Absent]
  /\ Return(c)
  /\ UNCHANGED <<heap, waitVars, issued, ghostVars>>

\* db.DeleteKey under db.Mu, for one of DEL's keys after the other.
DeleteKey(c) ==
  /\ pc[c] = "delete"
  /\ Lists' = [Lists EXCEPT ![Key(c)] = Absent]
  /\ IF ki[c] < Len(call[c].keys)
       THEN ki' = [ki EXCEPT ![c] = @ + 1] /\ UNCHANGED <<pc, call, ref>>
       ELSE Return(c)
  /\ UNCHANGED <<heap, waitVars, issued, ghostVars>>

-----------------------------------------------------------------------------
(* BLPOP and BRPOP between two passes: the deadline and the wait.          *)

\* time.Now().After(deadline) is strict: a pop at its deadline goes on.
CheckDeadline(c) ==
  /\ pc[c] = "deadline"
  /\ IF call[c].timed /\ clock[c] = "after"
       THEN Return(c)
       ELSE Goto(c, "wait") /\ UNCHANGED callVars
  /\ UNCHANGED <<storeVars, waitVars, issued, ghostVars>>

\* The next pass of the loop starts from the first key.
Restart(c) ==
  /\ Goto(c, "find")
  /\ ki' = [ki EXCEPT ![c] = 1]
  /\ ref' = [ref EXCEPT ![c] = Absent]
  /\ UNCHANGED call

\* Mutant: no timer is set for the deadline.
WaitWithoutTimer(c) ==
  /\ pc[c] = "wait"
  /\ Goto(c, "parked")
  /\ unseen' = [unseen EXCEPT ![c] = UNION {Reachable(k) : k \in Keys}]
  /\ UNCHANGED <<storeVars, callVars, waitVars, issued, popped, acked, ahead>>

\* waitForListSignal up to listCond.Wait(), which gives listMu back and
\* parks in one step: a broadcast comes before the whole of it or after.
WaitForListSignal(c) ==
  /\ pc[c] = "wait"
  /\ IF call[c].timed /\ clock[c] # "before"
       THEN Restart(c) /\ UNCHANGED <<armed, unseen>>
       ELSE /\ Goto(c, "parked")
            /\ armed' = [armed EXCEPT ![c] = call[c].timed]
            /\ unseen' = [unseen EXCEPT ![c] = UNION {Reachable(k) : k \in Keys}]
            /\ UNCHANGED callVars
  /\ UNCHANGED <<storeVars, clock, callbacks, issued, popped, acked, ahead>>

\* Wait() returns, timer.Stop(), and the loop goes round.
WaitReturns(c) ==
  /\ pc[c] = "woken"
  /\ Restart(c)
  /\ armed' = [armed EXCEPT ![c] = FALSE]
  /\ unseen' = [unseen EXCEPT ![c] = {}]
  /\ UNCHANGED <<storeVars, clock, callbacks, issued, popped, acked, ahead>>

\* Time passes for a pop with a deadline.
Advance(c) ==
  /\ call[c].timed
  /\ \/ clock[c] = "before" /\ clock' = [clock EXCEPT ![c] = "at"]
     \/ clock[c] = "at"     /\ clock' = [clock EXCEPT ![c] = "after"]
  /\ UNCHANGED <<storeVars, pc, callVars, armed, callbacks, issued, ghostVars>>

\* The timer runs out: its callback starts in a goroutine of its own, which
\* timer.Stop() no longer stops.
TimerFires(c) ==
  /\ armed[c]
  /\ clock[c] # "before"
  /\ callbacks < MaxCallbacks
  /\ armed' = [armed EXCEPT ![c] = FALSE]
  /\ callbacks' = callbacks + 1
  /\ UNCHANGED <<storeVars, pc, callVars, clock, issued, ghostVars>>

\* The callback gets listMu and broadcasts.
TimerCallback ==
  /\ callbacks > 0
  /\ callbacks' = callbacks - 1
  /\ pc' = Broadcast(pc)
  /\ UNCHANGED <<storeVars, callVars, clock, armed, issued, ghostVars>>

-----------------------------------------------------------------------------
Issue(c) ==
  \/ IssuePush(c)
  \/ IssuePop(c)
  \/ IssueBlockingPop(c)
  \/ IssueLRem(c)
  \/ IssueDel(c)

Step(c) ==
  \/ GetOrCreateList(c)
  \/ Push(c)
  \/ SignalListPush(c)
  \/ GetList(c)
  \/ Pop(c)
  \/ Rem(c)
  \/ CheckLen(c)
  \/ Unlink(c)
  \/ DeleteKey(c)
  \/ CheckDeadline(c)
  \/ WaitForListSignal(c)
  \/ WaitReturns(c)

Next ==
  \/ \E c \in Clients : Issue(c) \/ Step(c) \/ Advance(c) \/ TimerFires(c)
  \/ TimerCallback

Spec == Init /\ [][Next]_vars

\* Goroutines are scheduled and mutexes handed over eventually, deadlines
\* pass and timers run; nobody has to send a command.
Fairness ==
  /\ \A c \in Clients : WF_vars(Step(c)) /\ WF_vars(Advance(c)) /\ WF_vars(TimerFires(c))
  /\ WF_vars(TimerCallback)

FairSpec == Spec /\ Fairness

-----------------------------------------------------------------------------
(* What the list commands guarantee.                                       *)

\* A handler at step p of call f is about to push into list object l of key k,
\* has yet to look at its length, or is about to unlink k (it saw it empty).
Owns(p, f, i, r, k, l) ==
  /\ p # "idle"
  /\ f.keys[i] = k
  /\ \/ p \in {"push", "len"} /\ r = l
     \/ p = "unlink"

\* No empty list is left behind under a key: whenever the list a lookup of k
\* finds is empty, some handler still in progress will push into it or unlink
\* it (lpop, rpop, blockingPop and lrem delete the key of a list they emptied;
\* GetOrCreateList leaves an empty list between two of lpush's sections).
EmptyListHasOwner ==
  \A k \in Keys :
    Lists[k] # Absent /\ heap[k][Lists[k]] = << >>
      => \E c \in Clients : Owns(pc[c], call[c], ki[c], ref[c], k, Lists[k])

\* A blocked pop misses no push that comes after it parked: while it is
\* parked, every element in the lists of its keys was already there when it
\* parked or belongs to a push that has yet to broadcast (waitForListSignal
\* gives listMu back and parks in one step; signalListPush takes listMu).
NoPushMissedWhileParked ==
  \A c \in Clients : pc[c] = "parked" =>
    \A k \in Elements(call[c].keys) : \A i \in Reachable(k) \ unseen[c] :
      \E d \in Clients : pc[d] = "signal" /\ i \in Elements(call[d].vals)

\* An element is in one list at one place, or was handed to a pop, never both:
\* no two pops (blocking or not, racing on one list) return the same element.
NoElementTwice ==
  \A k1, k2 \in Keys : \A l1 \in DOMAIN heap[k1], l2 \in DOMAIN heap[k2] :
    \A i1 \in DOMAIN heap[k1][l1], i2 \in DOMAIN heap[k2][l2] :
      /\ heap[k1][l1][i1] \notin popped
      /\ heap[k1][l1][i1] = heap[k2][l2][i2] => <<k1, l1, i1>> = <<k2, l2, i2>>

\* With RPUSH and head pops only: an element is not overtaken. Once a pop has
\* taken an element, those that were in the list before its push was issued
\* are no longer in the list (List.RPush appends, List.LPop takes the head,
\* and a key whose list was replaced never gets its old list back).
NotOvertaken ==
  \A i \in popped : \A k \in Keys : ahead[i] \cap Reachable(k) = {}

\* A list object that was unlinked from its key never comes back: a handler
\* that kept a pointer to it cannot make its elements visible again.
UnlinkedStaysUnlinked ==
  [][\A k \in Keys : Lists'[k] \in {Absent, Lists[k]} \/ Lists'[k] > Len(heap[k])]_vars

\* Every command but a BLPOP/BRPOP with timeout 0 is answered: a pop with a
\* deadline by its timer's broadcast at the latest ("exactly at the deadline,
\* via a timer-driven broadcast").
CommandsReturn ==
  \A c \in Clients :
    pc[c] # "idle" /\ (call[c].cmd \in Blocking => call[c].timed) ~> pc[c] = "idle"

-----------------------------------------------------------------------------
(* What the documentation says and the code does not do.                   *)

\* "thread-safe" lists: an acknowledged element is in its list until some pop
\* returns it (stated for behaviours without DEL and LREM).
NoLostPush ==
  \A i \in acked \ popped : \E k \in Keys : i \in Reachable(k)

\* "Blocked clients wake the instant a matching LPUSH/RPUSH happens": no pop
\* stays parked for ever while one of its lists has an element.
BlockedPopWakes ==
  \A c \in Clients :
    LET Starving == pc[c] = "parked" /\ \E k \in Elements(call[c].keys) : Reachable(k) # {}
    IN  Starving ~> ~Starving
=============================================================================
