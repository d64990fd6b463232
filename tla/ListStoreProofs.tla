-------------------------- MODULE ListStoreProofs --------------------------
(***************************************************************************)
(* Theorems about ListStore, for any number of connections, keys and       *)
(* elements: its types and who holds an empty list; then where an element  *)
(* can be, which lists a key can get, what a parked pop can miss, and in   *)
(* which order elements are popped.                                        *)
(***************************************************************************)
EXTENDS ListStore, SequenceTheorems, TLAPS

-----------------------------------------------------------------------------
(* The List methods on sequences.                                          *)

\* LPush and RPush keep the type, add exactly the pushed elements and leave
\* a nonempty list.
LEMMA PushFacts ==
  ASSUME NEW S, NEW s \in Seq(S), NEW v \in Seq(S)
  PROVE  /\ LPush(s, v) \in Seq(S) /\ RPush(s, v) \in Seq(S)
         /\ Elements(LPush(s, v)) \subseteq Elements(s) \cup Elements(v)
         /\ Elements(RPush(s, v)) \subseteq Elements(s) \cup Elements(v)
         /\ v # << >> => LPush(s, v) # << >> /\ RPush(s, v) # << >>
<1> DEFINE r == Reverse(v)
<1>1. /\ r \in Seq(S) /\ Len(r) = Len(v)
      /\ \A i \in 1 .. Len(v) : r[i] = v[(Len(v) - i) + 1]
  BY DEF Reverse
<1>2. Elements(r) \subseteq Elements(v)
  BY <1>1 DEF Elements
<1> HIDE DEF r
<1>3. \A t \in Seq(S), u \in Seq(S) :
        /\ t \o u \in Seq(S)
        /\ Elements(t \o u) \subseteq Elements(t) \cup Elements(u)
        /\ t # << >> \/ u # << >> => t \o u # << >>
  <2> TAKE t \in Seq(S), u \in Seq(S)
  <2>1. /\ t \o u \in Seq(S) /\ Len(t \o u) = Len(t) + Len(u)
        /\ \A i \in 1 .. Len(t) + Len(u) :
             (t \o u)[i] = IF i <= Len(t) THEN t[i] ELSE u[i - Len(t)]
    BY ConcatProperties
  <2>2. Elements(t \o u) \subseteq Elements(t) \cup Elements(u)
    BY <2>1 DEF Elements
  <2>3. t # << >> \/ u # << >> => t \o u # << >>
    BY <2>1
  <2> QED BY <2>1, <2>2, <2>3
<1>4. v # << >> => r # << >>
  BY <1>1
<1> QED BY <1>1, <1>2, <1>3, <1>4 DEF LPush, RPush, r

\* LPop and RPop return an element of the list and leave the others.
LEMMA PopFacts ==
  ASSUME NEW S, NEW s \in Seq(S), s # << >>
  PROVE  /\ LPop(s).value \in S /\ RPop(s).value \in S
         /\ LPop(s).rest \in Seq(S) /\ RPop(s).rest \in Seq(S)
         /\ Elements(LPop(s).rest) \subseteq Elements(s)
         /\ Elements(RPop(s).rest) \subseteq Elements(s)
  BY HeadTailProperties DEF LPop, RPop, Last, Front, Elements

\* Taking one element out leaves the others.
LEMMA RemoveAtFacts ==
  ASSUME NEW S, NEW s \in Seq(S), NEW i \in 1 .. Len(s)
  PROVE  /\ RemoveAt(s, i) \in Seq(S)
         /\ Elements(RemoveAt(s, i)) \subseteq Elements(s)
<1> DEFINE a == SubSeq(s, 1, i - 1)
           b == SubSeq(s, i + 1, Len(s))
<1>1. /\ a \in Seq(S) /\ Len(a) = i - 1 /\ \A j \in 1 .. i - 1 : a[j] = s[j]
  BY SubSeqProperties
<1>2. /\ b \in Seq(S) /\ Len(b) = Len(s) - i
      /\ \A j \in 1 .. Len(s) - i : b[j] = s[i + j]
  BY SubSeqProperties
<1> HIDE DEF a, b
<1>3. /\ a \o b \in Seq(S) /\ Len(a \o b) = Len(a) + Len(b)
      /\ \A j \in 1 .. Len(a) + Len(b) :
           (a \o b)[j] = IF j <= Len(a) THEN a[j] ELSE b[j - Len(a)]
  BY <1>1, <1>2, ConcatProperties
<1>4. ASSUME NEW j \in 1 .. Len(a) + Len(b)
      PROVE  \E m \in 1 .. Len(s) : (a \o b)[j] = s[m]
  <2>1. CASE j <= Len(a)
    BY <2>1, <1>1, <1>3
  <2>2. CASE j > Len(a)
    <3>1. j - Len(a) \in 1 .. Len(s) - i
      BY <2>2, <1>1, <1>2
    <3>2. (a \o b)[j] = s[i + (j - Len(a))] /\ i + (j - Len(a)) \in 1 .. Len(s)
      BY <3>1, <2>2, <1>1, <1>2, <1>3
    <3> QED BY <3>2
  <2> QED BY <2>1, <2>2, <1>1, <1>2
<1>5. Elements(a \o b) \subseteq Elements(s)
  BY <1>3, <1>4 DEF Elements
<1> QED BY <1>3, <1>5 DEF RemoveAt, a, b

-----------------------------------------------------------------------------
(* Updates of the heap.                                                    *)

Heaps == [Keys -> Seq(Seq(Items))]

\* A new list is empty and comes after the others of its key.
LEMMA NewList ==
  ASSUME NEW lists \in Seq(Seq(Items))
  PROVE  /\ Append(lists, << >>) \in Seq(Seq(Items))
         /\ Len(Append(lists, << >>)) = Len(lists) + 1
         /\ \A i \in 1 .. Len(lists) : Append(lists, << >>)[i] = lists[i]
         /\ Append(lists, << >>)[Len(lists) + 1] = << >>
<1>1. << >> \in Seq(Items)
  OBVIOUS
<1> QED BY <1>1, AppendProperties

-----------------------------------------------------------------------------
(* Type correctness.                                                       *)

\* The type invariant in two parts: the variables' types and the handlers.
Types ==
  /\ heap \in Heaps
  /\ Lists \in [Keys -> Nat]
  /\ pc \in [Clients -> Steps]
  /\ call \in [Clients -> Frames]
  /\ ki \in [Clients -> Nat]
  /\ ref \in [Clients -> Nat]

Waiting ==
  /\ clock \in [Clients -> {"before", "at", "after"}]
  /\ armed \in [Clients -> BOOLEAN]
  /\ callbacks \in 0 .. MaxCallbacks

Ghosts ==
  /\ issued \in 0 .. MaxItems
  /\ popped \subseteq Items
  /\ acked \subseteq Items
  /\ ahead \in [Items -> SUBSET Items]
  /\ unseen \in [Clients -> SUBSET Items]

Linked   == \A k \in Keys : Lists[k] <= Len(heap[k])
Handlers == \A c \in Clients : WellFormed(pc[c], call[c], ki[c], ref[c], heap)

\* The type invariant of the runs is the conjunction of the parts proved here.
LEMMA TypeOKParts == TypeOK <=> Types /\ Waiting /\ Ghosts /\ Linked /\ Handlers
  BY DEF TypeOK, Types, Waiting, Ghosts, Linked, Handlers, Heaps

\* A handler that stays where it is, or is only woken, stays well formed as
\* long as no List object disappears; one that returned is well formed.
LEMMA WellFormedKept ==
  ASSUME NEW p, NEW f \in Frames, NEW i \in Nat, NEW r \in Nat,
         NEW h \in Heaps, NEW g \in Heaps, WellFormed(p, f, i, r, h),
         \A j \in Keys : Len(h[j]) <= Len(g[j])
  PROVE  /\ WellFormed(p, f, i, r, g)
         /\ p = "parked" => WellFormed("woken", f, i, r, g)
<1>1. i \in 1 .. Len(f.keys) => f.keys[i] \in Keys
  BY DEF Frames
<1>2. i \in 1 .. Len(f.keys) =>
        Len(h[f.keys[i]]) \in Nat /\ Len(g[f.keys[i]]) \in Nat
  BY <1>1 DEF Heaps
<1> QED BY <1>1, <1>2 DEF WellFormed

\* A connection whose command returned holds no list and no key.
LEMMA ReturnedWellFormed ==
  ASSUME NEW r, NEW h
  PROVE  WellFormed("idle", NoCall, 1, r, h)
  BY DEF WellFormed, NoCall, Frame

\* The elements of typed sequences, and the ones lookups find, are elements.
LEMMA ElementsTyped ==
  /\ \A S : \A q \in Seq(S) : Elements(q) \subseteq S
  /\ Types /\ Linked => \A k \in Keys : Reachable(k) \subseteq Items
<1>1. \A S : \A q \in Seq(S) : Elements(q) \subseteq S
  BY DEF Elements
<1>2. ASSUME Types, Linked, NEW k \in Keys PROVE Reachable(k) \subseteq Items
  <2>1. CASE Lists[k] = Absent
    BY <2>1 DEF Reachable
  <2>2. CASE Lists[k] # Absent
    <3>1. Lists[k] \in 1 .. Len(heap[k])
      BY <1>2, <2>2 DEF Types, Linked, Heaps, Absent
    <3>2. heap[k][Lists[k]] \in Seq(Items)
      BY <1>2, <3>1 DEF Types, Heaps
    <3> QED BY <3>2, <1>1 DEF Reachable
  <2> QED BY <2>1, <2>2
<1> QED BY <1>1, <1>2

\* The key a handler works on, and the list it holds, exist.
LEMMA HeldTyped ==
  ASSUME Types, Handlers, NEW c \in Clients, pc[c] # "idle"
  PROVE  /\ Key(c) \in Keys
         /\ call[c] \in Frames /\ call[c].vals \in Seq(Items)
         /\ call[c].keys \in Seq(Keys) /\ ki[c] \in 1 .. Len(call[c].keys)
         /\ pc[c] \in {"push", "pop", "len"} =>
              /\ ref[c] \in 1 .. Len(heap[Key(c)])
              /\ Held(c) \in Seq(Items)
<1>1. /\ call[c] \in Frames /\ call[c].keys \in Seq(Keys) /\ call[c].vals \in Seq(Items)
      /\ ki[c] \in 1 .. Len(call[c].keys)
  BY DEF Types, Frames, WellFormed, Handlers
<1>2. Key(c) \in Keys
  BY <1>1 DEF Key
<1>3. heap[Key(c)] \in Seq(Seq(Items))
  BY <1>2 DEF Types, Heaps
<1> QED BY <1>1, <1>2, <1>3 DEF WellFormed, Held, Handlers, Key

\* After a step of c (or of a timer callback, c not a connection): the other
\* handlers are where they were or were woken.
LEMMA HandlersKept ==
  ASSUME Types, Types', Handlers, NEW c,
         \A j \in Keys : Len(heap[j]) <= Len(heap'[j]),
         \A d \in Clients \ {c} :
           /\ pc'[d] # pc[d] => pc'[d] = "woken" /\ pc[d] = "parked"
           /\ call'[d] = call[d] /\ ki'[d] = ki[d] /\ ref'[d] = ref[d],
         c \in Clients => WellFormed(pc'[c], call'[c], ki'[c], ref'[c], heap')
  PROVE  Handlers'
<1> SUFFICES ASSUME NEW d \in Clients
             PROVE  WellFormed(pc'[d], call'[d], ki'[d], ref'[d], heap')
  BY DEF Handlers
<1>1. CASE d = c
  BY <1>1
<1>2. CASE d # c
  <2>1. /\ WellFormed(pc[d], call[d], ki[d], ref[d], heap)
        /\ call[d] \in Frames /\ ki[d] \in Nat /\ ref[d] \in Nat
        /\ heap \in Heaps /\ heap' \in Heaps
    BY DEF Handlers, Types
  <2>2. /\ WellFormed(pc[d], call[d], ki[d], ref[d], heap')
        /\ pc[d] = "parked" => WellFormed("woken", call[d], ki[d], ref[d], heap')
    BY <2>1, WellFormedKept
  <2> QED BY <1>2, <2>2
<1> QED BY <1>1, <1>2

\* The case of an unchanged heap.
LEMMA SameHeap ==
  ASSUME Types, heap' = heap
  PROVE  \A j \in Keys : Len(heap[j]) <= Len(heap'[j])
  BY DEF Types, Heaps

\* A command that arrives leaves a well-formed handler.
LEMMA StartKeepsTypes ==
  ASSUME Types, Waiting, Linked, Handlers,
         NEW c \in Clients, NEW frame \in Frames, NEW step \in Steps,
         frame.keys # << >>, step \in {"create", "find", "delete"},
         step = "create" \/ frame.cmd = "LREM" => frame.vals # << >>,
         Start(c, frame, step)
  PROVE  Types' /\ Waiting' /\ Linked' /\ Handlers'
<1>1. Types'
  BY DEF Types, Start, storeVars, Heaps
<1>2. Waiting' /\ Linked'
  BY DEF Waiting, Linked, Start, storeVars, Types
<1>3. Handlers'
  <2>1. Len(frame.keys) \in Nat \ {0}
    BY DEF Frames
  <2>2. ki'[c] = 1 /\ call'[c] = frame /\ pc'[c] = step
    BY DEF Start, Handlers, WellFormed, Types
  <2>3. WellFormed(pc'[c], call'[c], ki'[c], ref'[c], heap')
    BY <2>1, <2>2 DEF WellFormed
  <2>4. heap' = heap
    BY DEF Start, storeVars
  <2>5. \A d \in Clients \ {c} :
          /\ pc'[d] # pc[d] => pc'[d] = "woken" /\ pc[d] = "parked"
          /\ call'[d] = call[d] /\ ki'[d] = ki[d] /\ ref'[d] = ref[d]
    BY DEF Start, Types
  <2>6. \A j \in Keys : Len(heap[j]) <= Len(heap'[j])
    BY <2>4, SameHeap
  <2> QED BY <1>1, <2>3, <2>5, <2>6, HandlersKept
<1> QED BY <1>1, <1>2, <1>3

\* The type invariant as the conjunction of its parts.
TypeInv == Types /\ Waiting /\ Ghosts /\ Linked /\ Handlers

\* The arrival of any command keeps the type invariant.
LEMMA IssueKeepsTypes ==
  ASSUME TypeInv, NEW c \in Clients, Issue(c)
  PROVE  TypeInv'
<1> Types /\ Waiting /\ Ghosts /\ Linked /\ Handlers
  BY DEF TypeInv
<1>a. /\ Batches \subseteq Nat \ {0} /\ KeyLists \subseteq Seq(Keys) \ {<< >>}
      /\ Deadlines \subseteq BOOLEAN /\ MaxItems \in Nat
  BY ConstantsAssumption
<1>b. /\ << >> \in Seq(Items) /\ FALSE \in BOOLEAN
      /\ \A k \in Keys : <<k>> \in Seq(Keys) \ {<< >>}
  OBVIOUS
<1>1. ASSUME NEW name \in AllCommands, NEW ks \in Seq(Keys) \ {<< >>},
             NEW vs \in Seq(Items), NEW t \in BOOLEAN, NEW step \in {"create", "find", "delete"},
             step = "create" \/ name = "LREM" => vs # << >>,
             Start(c, Frame(name, ks, vs, t), step)
      PROVE  Types' /\ Waiting' /\ Linked' /\ Handlers'
  <2> DEFINE f == Frame(name, ks, vs, t)
  <2>1. f \in Frames /\ f.keys = ks /\ f.vals = vs /\ f.cmd = name
    BY DEF Frame, Frames
  <2>2. Start(c, f, step)
    BY <1>1
  <2> HIDE DEF f
  <2> QED BY <1>1, <2>1, <2>2, StartKeepsTypes DEF Steps
<1>2. ASSUME NEW f, NEW step, Start(c, f, step), UNCHANGED <<issued, ahead>>
      PROVE  Ghosts'
  BY <1>2 DEF Ghosts, Start
<1>3. CASE IssuePush(c)
  <2>1. PICK name \in Pushes, k \in Keys, n \in Batches :
        /\ issued + n <= MaxItems
        /\ Start(c, Frame(name, <<k>>, NextItems(n), FALSE), "create")
        /\ issued' = issued + n
        /\ ahead' = [i \in Items |-> IF i \in Elements(NextItems(n)) THEN Reachable(k)
                                                                  ELSE ahead[i]]
    BY <1>3 DEF IssuePush
  <2>2. n \in Nat \ {0} /\ issued \in Nat
    BY <1>a DEF Ghosts
  <2>3. \A i \in 1 .. n : issued + i \in Items
    BY <1>a, <2>1, <2>2 DEF Items
  <2>4. NextItems(n) \in Seq(Items) /\ Len(NextItems(n)) = n
    BY <2>2, <2>3 DEF NextItems
  <2>5. NextItems(n) # << >> /\ name \in AllCommands
    BY <2>2, <2>4 DEF AllCommands
  <2>6. Types' /\ Waiting' /\ Linked' /\ Handlers'
    BY <2>1, <2>4, <2>5, <1>1, <1>b
  <2>7. Reachable(k) \subseteq Items
    BY ElementsTyped
  <2>8. Ghosts'
    BY <1>a, <2>1, <2>2, <2>7 DEF Ghosts, Start
  <2> QED BY <2>6, <2>8 DEF TypeInv
<1>4. CASE IssuePop(c)
  <2>1. PICK name \in Pops, k \in Keys :
          /\ Start(c, Frame(name, <<k>>, << >>, FALSE), "find")
          /\ UNCHANGED <<issued, ahead>>
    BY <1>4 DEF IssuePop
  <2>2. name \in AllCommands /\ name # "LREM"
    BY DEF AllCommands, Pops
  <2> QED BY <2>1, <2>2, <1>1, <1>2, <1>b DEF TypeInv
<1>5. CASE IssueBlockingPop(c)
  <2>1. PICK name \in Blocking, ks \in KeyLists, t \in Deadlines :
          /\ Start(c, Frame(name, ks, << >>, t), "find")
          /\ UNCHANGED <<issued, ahead>>
    BY <1>5 DEF IssueBlockingPop
  <2>2. /\ name \in AllCommands /\ name # "LREM" /\ ks \in Seq(Keys) \ {<< >>}
        /\ t \in BOOLEAN
    BY <1>a DEF AllCommands, Blocking
  <2> QED BY <2>1, <2>2, <1>1, <1>2, <1>b DEF TypeInv
<1>6. CASE IssueLRem(c)
  <2>1. PICK k \in Keys, value \in 1 .. issued :
          /\ Start(c, Frame("LREM", <<k>>, <<value>>, FALSE), "find")
          /\ UNCHANGED <<issued, ahead>>
    BY <1>6 DEF IssueLRem
  <2>2. "LREM" \in AllCommands
    BY DEF AllCommands
  <2>3. <<value>> \in Seq(Items) /\ <<value>> # << >>
    BY <1>a DEF Ghosts, Items
  <2> QED BY <2>1, <2>2, <2>3, <1>1, <1>2, <1>b DEF TypeInv
<1>7. CASE IssueDel(c)
  <2>1. PICK ks \in KeyLists :
          /\ Start(c, Frame("DEL", ks, << >>, FALSE), "delete")
          /\ UNCHANGED <<issued, ahead>>
    BY <1>7 DEF IssueDel
  <2>2. "DEL" \in AllCommands /\ ks \in Seq(Keys) \ {<< >>}
    BY <1>a DEF AllCommands
  <2> QED BY <2>1, <2>2, <1>1, <1>2, <1>b DEF TypeInv
<1> QED BY <1>3, <1>4, <1>5, <1>6, <1>7 DEF Issue

\* Control moves of c that leave the store alone: a return, a goto, the next
\* key and the next pass.  Each keeps the types and the handlers, whatever
\* typed heap the rest of the step makes.
LEMMA ControlKeepsTypes ==
  ASSUME Types, Handlers, NEW c \in Clients, pc[c] # "idle", heap' \in Heaps,
         Lists' \in [Keys -> Nat],
         \A j \in Keys : Len(heap[j]) <= Len(heap'[j]),
         \/ Return(c)
         \/ Miss(c)
         \/ Restart(c)
         \/ UNCHANGED callVars /\ \E step \in Steps \ {"idle", "create", "push", "pop"} :
              Goto(c, step) /\ (step = "len" => pc[c] = "pop")
  PROVE  Types' /\ Handlers'
<1>0. /\ ki[c] \in 1 .. Len(call[c].keys) /\ call[c] \in Frames /\ NoCall \in Frames
      /\ Len(call[c].keys) \in Nat /\ Key(c) \in Keys
      /\ heap \in Heaps /\ ref[c] \in Nat
  <2>1. NoCall \in Frames
    BY DEF NoCall, Frame, Frames
  <2>2. heap \in Heaps /\ ref[c] \in Nat
    BY DEF Types
  <2> QED BY <2>1, <2>2, HeldTyped
<1>1. CASE Return(c)
  <2>1. Types'
    BY <1>0, <1>1 DEF Return, Goto, Types, Steps, Absent
  <2>2. WellFormed(pc'[c], call'[c], ki'[c], ref'[c], heap')
    BY <1>1, ReturnedWellFormed DEF Return, Goto, Types
  <2>3. \A d \in Clients \ {c} :
          /\ pc'[d] # pc[d] => pc'[d] = "woken" /\ pc[d] = "parked"
          /\ call'[d] = call[d] /\ ki'[d] = ki[d] /\ ref'[d] = ref[d]
    BY <1>1 DEF Return, Goto, Types
  <2> QED BY <2>1, <2>2, <2>3, HandlersKept
<1>2. ASSUME Goto(c, "find"), call' = call, ref' \in [Clients -> Nat],
             ki' \in [Clients -> Nat], ki'[c] \in 1 .. Len(call[c].keys),
             \A d \in Clients \ {c} : ki'[d] = ki[d] /\ ref'[d] = ref[d]
      PROVE  Types' /\ Handlers'
  <2>1. Types'
    BY <1>0, <1>2 DEF Goto, Types, Steps
  <2>2. WellFormed(pc'[c], call'[c], ki'[c], ref'[c], heap')
    BY <1>0, <1>2 DEF Goto, Types, WellFormed, Handlers
  <2>3. \A d \in Clients \ {c} :
          /\ pc'[d] # pc[d] => pc'[d] = "woken" /\ pc[d] = "parked"
          /\ call'[d] = call[d] /\ ki'[d] = ki[d] /\ ref'[d] = ref[d]
    BY <1>2 DEF Goto, Types
  <2> QED BY <2>1, <2>2, <2>3, HandlersKept
<1>3. ASSUME UNCHANGED callVars, NEW step \in Steps \ {"idle", "create", "push", "pop"},
             Goto(c, step), step = "len" => pc[c] = "pop"
      PROVE  Types' /\ Handlers'
  <2>1. Types'
    BY <1>0, <1>3 DEF Goto, Types, callVars
  <2>2. WellFormed(pc'[c], call'[c], ki'[c], ref'[c], heap')
    <3>1. WellFormed(pc[c], call[c], ki[c], ref[c], heap')
      BY <1>0, WellFormedKept DEF Handlers
    <3> QED BY <1>0, <1>3, <3>1 DEF Goto, Types, callVars, WellFormed
  <2>3. \A d \in Clients \ {c} :
          /\ pc'[d] # pc[d] => pc'[d] = "woken" /\ pc[d] = "parked"
          /\ call'[d] = call[d] /\ ki'[d] = ki[d] /\ ref'[d] = ref[d]
    BY <1>3 DEF Goto, Types, callVars
  <2> QED BY <2>1, <2>2, <2>3, HandlersKept
<1>4. CASE Restart(c)
  <2>1. /\ ki' \in [Clients -> Nat] /\ ki'[c] \in 1 .. Len(call[c].keys)
        /\ ref' \in [Clients -> Nat]
        /\ \A d \in Clients \ {c} : ki'[d] = ki[d] /\ ref'[d] = ref[d]
    BY <1>0, <1>4 DEF Restart, Types, Absent
  <2> QED BY <2>1, <1>2, <1>4 DEF Restart
<1>5. CASE Miss(c)
  <2>1. CASE call[c].cmd \in Blocking /\ ki[c] < Len(call[c].keys)
    <3>1. /\ ki' \in [Clients -> Nat] /\ ki'[c] \in 1 .. Len(call[c].keys)
          /\ ref' \in [Clients -> Nat]
          /\ \A d \in Clients \ {c} : ki'[d] = ki[d] /\ ref'[d] = ref[d]
      BY <1>0, <1>5, <2>1 DEF Miss, Types
    <3> QED BY <3>1, <1>2, <1>5, <2>1 DEF Miss
  <2>2. CASE call[c].cmd \in Blocking /\ ~(ki[c] < Len(call[c].keys))
    <3>1. UNCHANGED callVars /\ Goto(c, "deadline")
      BY <1>5, <2>2 DEF Miss
    <3> QED BY <3>1, <1>3 DEF Steps
  <2>3. CASE call[c].cmd \notin Blocking
    BY <1>5, <2>3, <1>1 DEF Miss
  <2> QED BY <2>1, <2>2, <2>3
<1> QED BY <1>1, <1>3, <1>4, <1>5

\* Every lock section of a handler keeps the type invariant.
LEMMA StepKeepsTypes ==
  ASSUME TypeInv, NEW c \in Clients, Step(c)
  PROVE  TypeInv'
<1> Types /\ Waiting /\ Ghosts /\ Linked /\ Handlers
  BY DEF TypeInv
<1> DEFINE k == Key(c)
<1>a. pc[c] # "idle"
  BY DEF Step, GetOrCreateList, Push, SignalListPush, GetList, Pop, Rem, CheckLen, Unlink,
     DeleteKey, CheckDeadline, WaitForListSignal, WaitReturns
<1>b. /\ k \in Keys /\ call[c] \in Frames /\ call[c].vals \in Seq(Items)
      /\ call[c].keys \in Seq(Keys) /\ ki[c] \in 1 .. Len(call[c].keys)
      /\ heap \in Heaps /\ Lists \in [Keys -> Nat]
      /\ Len(heap[k]) \in Nat
      /\ pc[c] \in {"push", "pop", "len"} =>
           ref[c] \in 1 .. Len(heap[k]) /\ Held(c) \in Seq(Items)
  BY <1>a, HeldTyped DEF Types, Heaps
<1>c. ASSUME heap' = heap, Lists' \in [Keys -> Nat],
             \A j \in Keys : Lists'[j] # Lists[j] => Lists'[j] = 0
      PROVE  Linked' /\ heap' \in Heaps /\ \A j \in Keys : Len(heap[j]) <= Len(heap'[j])
  <2>1. \A j \in Keys : Len(heap[j]) \in Nat
    BY DEF Types, Heaps
  <2>2. heap' \in Heaps /\ \A j \in Keys : Len(heap[j]) <= Len(heap'[j])
    BY <1>c, <2>1, SameHeap DEF Types
  <2>3. ASSUME NEW j \in Keys PROVE Lists'[j] <= Len(heap'[j])
    <3>1. Lists[j] <= Len(heap[j]) /\ Len(heap[j]) \in Nat
      BY <2>1 DEF Linked
    <3>2. Lists'[j] = Lists[j] \/ Lists'[j] = 0
      BY <1>c
    <3> QED BY <1>c, <3>1, <3>2
  <2> QED BY <2>2, <2>3 DEF Linked
<1> HIDE DEF k
<1>1. CASE GetOrCreateList(c)
  <2>1. CASE Lists[k] # Absent
    <3>1. ref' = [ref EXCEPT ![c] = Lists[k]] /\ Lists' = Lists /\ heap' = heap
      BY <1>1, <2>1 DEF GetOrCreateList, storeVars, k
    <3>2. pc' = [pc EXCEPT ![c] = "push"] /\ call' = call /\ ki' = ki
      BY <1>1 DEF GetOrCreateList, Goto
    <3>3. Types' /\ Linked' /\ \A j \in Keys : Len(heap[j]) <= Len(heap'[j])
      BY <1>b, <1>c, <3>1, <3>2 DEF Types, Steps
    <3>4. Lists[k] \in 1 .. Len(heap[k])
      BY <1>b, <2>1 DEF Linked, Types, Absent
    <3>5. WellFormed(pc'[c], call'[c], ki'[c], ref'[c], heap')
      BY <1>1, <1>b, <3>1, <3>2, <3>4 DEF WellFormed, Types, Handlers, GetOrCreateList, Key, k
    <3>6. \A d \in Clients \ {c} :
            /\ pc'[d] # pc[d] => pc'[d] = "woken" /\ pc[d] = "parked"
            /\ call'[d] = call[d] /\ ki'[d] = ki[d] /\ ref'[d] = ref[d]
      BY <3>1, <3>2 DEF Types
    <3>7. Handlers'
      BY <3>3, <3>5, <3>6, HandlersKept
    <3>8. Waiting' /\ Ghosts'
      BY <1>1 DEF GetOrCreateList, waitVars, ghostVars, Waiting, Ghosts
    <3> QED BY <3>3, <3>7, <3>8 DEF TypeInv
  <2>2. CASE Lists[k] = Absent
    <3>1. /\ heap' = [heap EXCEPT ![k] = Append(@, << >>)]
          /\ Lists' = [Lists EXCEPT ![k] = Len(heap[k]) + 1]
          /\ ref' = [ref EXCEPT ![c] = Len(heap[k]) + 1]
      BY <1>1, <2>2 DEF GetOrCreateList, k
    <3>2. pc' = [pc EXCEPT ![c] = "push"] /\ call' = call /\ ki' = ki
      BY <1>1 DEF GetOrCreateList, Goto
    <3>3. /\ heap' \in Heaps
          /\ \A j \in Keys : Len(heap'[j]) = IF j = k THEN Len(heap[j]) + 1 ELSE Len(heap[j])
      BY <1>b, <3>1, NewList DEF Heaps
    <3>4. Types' /\ Linked' /\ \A j \in Keys : Len(heap[j]) <= Len(heap'[j])
      <4>1. Types'
        BY <1>b, <3>1, <3>2, <3>3 DEF Types, Steps
      <4>2. \A j \in Keys : Len(heap[j]) \in Nat
        BY DEF Types, Heaps
      <4> QED BY <1>b, <3>1, <3>3, <4>1, <4>2 DEF Linked, Types
    <3>5. WellFormed(pc'[c], call'[c], ki'[c], ref'[c], heap')
      BY <1>1, <1>b, <3>1, <3>2, <3>3 DEF WellFormed, Types, Handlers, GetOrCreateList, Key, k
    <3>6. \A d \in Clients \ {c} :
            /\ pc'[d] # pc[d] => pc'[d] = "woken" /\ pc[d] = "parked"
            /\ call'[d] = call[d] /\ ki'[d] = ki[d] /\ ref'[d] = ref[d]
      BY <3>1, <3>2 DEF Types
    <3>7. Handlers'
      BY <3>4, <3>5, <3>6, HandlersKept
    <3>8. Waiting' /\ Ghosts'
      BY <1>1 DEF GetOrCreateList, waitVars, ghostVars, Waiting, Ghosts
    <3> QED BY <3>4, <3>7, <3>8 DEF TypeInv
  <2> QED BY <2>1, <2>2
<1>d. ASSUME NEW e \in Seq(Items), pc[c] \in {"push", "pop"}, Lists' = Lists,
             heap' = [heap EXCEPT ![k][ref[c]] = e]
      PROVE  /\ heap' \in Heaps /\ Lists' \in [Keys -> Nat] /\ Linked'
             /\ \A j \in Keys : Len(heap[j]) <= Len(heap'[j])
  <2>1. heap' \in Heaps /\ \A j \in Keys : Len(heap'[j]) = Len(heap[j])
    BY <1>b, <1>d DEF Heaps
  <2>2. \A j \in Keys : Len(heap[j]) \in Nat
    BY DEF Types, Heaps
  <2> QED BY <1>b, <1>d, <2>1, <2>2 DEF Linked
<1>2. CASE Push(c)
  <2>1. PICK e \in Seq(Items) : heap' = [heap EXCEPT ![k][ref[c]] = e]
    <3>1. LPush(Held(c), call[c].vals) \in Seq(Items) /\ RPush(Held(c), call[c].vals) \in Seq(Items)
      BY <1>2, <1>b, PushFacts DEF Push
    <3> QED BY <1>2, <3>1 DEF Push, Held, k
  <2>2. pc[c] = "push" /\ Lists' = Lists /\ UNCHANGED callVars /\ Goto(c, "signal")
    BY <1>2 DEF Push
  <2>3. /\ heap' \in Heaps /\ Lists' \in [Keys -> Nat] /\ Linked'
        /\ \A j \in Keys : Len(heap[j]) <= Len(heap'[j])
    BY <1>d, <2>1, <2>2
  <2>4. Types' /\ Handlers'
    BY <1>a, <2>2, <2>3, ControlKeepsTypes DEF Steps
  <2>5. Waiting' /\ Ghosts'
    BY <1>2 DEF Push, waitVars, ghostVars, Waiting, Ghosts
  <2> QED BY <2>3, <2>4, <2>5 DEF TypeInv
<1>3. CASE SignalListPush(c)
  <2>1. /\ pc' = [d \in Clients |-> IF d = c THEN "idle"
                                    ELSE IF pc[d] = "parked" THEN "woken" ELSE pc[d]]
        /\ call' = [call EXCEPT ![c] = NoCall]
        /\ ki' = [ki EXCEPT ![c] = 1]
        /\ ref' = [ref EXCEPT ![c] = 0]
        /\ Lists' = Lists /\ heap' = heap
    BY <1>3 DEF SignalListPush, Broadcast, Types, Absent, storeVars
  <2>2. NoCall \in Frames
    BY DEF NoCall, Frame, Frames
  <2>3. Types'
    BY <2>1, <2>2 DEF Types, Steps
  <2>4. Linked' /\ \A j \in Keys : Len(heap[j]) <= Len(heap'[j])
    BY <1>b, <1>c, <2>1
  <2>5. WellFormed(pc'[c], call'[c], ki'[c], ref'[c], heap')
    BY <2>1, ReturnedWellFormed DEF Types
  <2>6. \A d \in Clients \ {c} :
          /\ pc'[d] # pc[d] => pc'[d] = "woken" /\ pc[d] = "parked"
          /\ call'[d] = call[d] /\ ki'[d] = ki[d] /\ ref'[d] = ref[d]
    BY <2>1 DEF Types
  <2>7. Handlers'
    BY <2>3, <2>4, <2>5, <2>6, HandlersKept
  <2>8. Waiting' /\ Ghosts'
    <3>1. Elements(call[c].vals) \subseteq Items
      BY <1>b, ElementsTyped
    <3> QED BY <1>3, <3>1 DEF SignalListPush, waitVars, Waiting, Ghosts
  <2> QED BY <2>3, <2>4, <2>7, <2>8 DEF TypeInv
<1>e. ASSUME UNCHANGED storeVars
      PROVE  /\ heap' \in Heaps /\ Lists' \in [Keys -> Nat] /\ Linked'
             /\ \A j \in Keys : Len(heap[j]) <= Len(heap'[j])
  BY <1>b, <1>c, <1>e DEF storeVars
<1>f. ASSUME UNCHANGED waitVars, UNCHANGED issued, UNCHANGED ghostVars
      PROVE  Waiting' /\ Ghosts'
  BY <1>f DEF waitVars, ghostVars, Waiting, Ghosts
<1>4. CASE GetList(c)
  <2>1. UNCHANGED storeVars /\ Waiting' /\ Ghosts'
    BY <1>4, <1>f DEF GetList
  <2>2. CASE Lists[k] = Absent
    <3>1. Miss(c)
      BY <1>4, <2>2 DEF GetList, k
    <3> QED BY <1>a, <1>e, <2>1, <3>1, ControlKeepsTypes DEF TypeInv
  <2>3. CASE Lists[k] # Absent
    <3>1. /\ ref' = [ref EXCEPT ![c] = Lists[k]] /\ pc' = [pc EXCEPT ![c] = "pop"]
          /\ call' = call /\ ki' = ki /\ heap' = heap /\ Lists' = Lists
      BY <1>4, <2>3 DEF GetList, Goto, k, storeVars
    <3>2. Types' /\ Linked' /\ \A j \in Keys : Len(heap[j]) <= Len(heap'[j])
      BY <1>b, <1>e, <2>1, <3>1 DEF Types, Steps
    <3>3. Lists[k] \in 1 .. Len(heap[k])
      BY <1>b, <2>3 DEF Linked, Types, Absent
    <3>4. WellFormed(pc'[c], call'[c], ki'[c], ref'[c], heap')
      BY <1>4, <1>b, <3>1, <3>3 DEF WellFormed, Types, Handlers, GetList, Key, k
    <3>5. \A d \in Clients \ {c} :
            /\ pc'[d] # pc[d] => pc'[d] = "woken" /\ pc[d] = "parked"
            /\ call'[d] = call[d] /\ ki'[d] = ki[d] /\ ref'[d] = ref[d]
      BY <3>1 DEF Types
    <3> QED BY <2>1, <3>2, <3>4, <3>5, HandlersKept DEF TypeInv
  <2> QED BY <2>2, <2>3
<1>5. CASE Pop(c)
  <2>1. pc[c] = "pop" /\ Lists' = Lists /\ Waiting'
    BY <1>5 DEF Pop, waitVars, Waiting
  <2>2. CASE Held(c) = << >>
    <3>1. Miss(c) /\ UNCHANGED storeVars
      BY <1>5, <2>2 DEF Pop, storeVars
    <3>2. Ghosts'
      BY <1>5, <2>2 DEF Pop, Ghosts
    <3> QED BY <1>a, <1>e, <2>1, <3>1, <3>2, ControlKeepsTypes DEF TypeInv
  <2>3. CASE Held(c) # << >>
    <3> DEFINE pop == IF call[c].cmd \in {"LPOP", "BLPOP"} THEN LPop(Held(c)) ELSE RPop(Held(c))
    <3>1. pop.value \in Items /\ pop.rest \in Seq(Items)
      BY <1>b, <2>1, <2>3, PopFacts
    <3>2. /\ heap' = [heap EXCEPT ![k][ref[c]] = pop.rest]
          /\ popped' = popped \cup {pop.value}
          /\ Goto(c, "len") /\ UNCHANGED callVars
          /\ UNCHANGED <<issued, acked, ahead, unseen>>
      BY <1>5, <2>3 DEF Pop, k
    <3> HIDE DEF pop
    <3>3. /\ heap' \in Heaps /\ Lists' \in [Keys -> Nat] /\ Linked'
          /\ \A j \in Keys : Len(heap[j]) <= Len(heap'[j])
      BY <1>d, <2>1, <3>1, <3>2
    <3>4. Types' /\ Handlers'
      BY <1>a, <2>1, <3>2, <3>3, ControlKeepsTypes DEF Steps
    <3>5. Ghosts'
      BY <3>1, <3>2 DEF Ghosts
    <3> QED BY <2>1, <3>3, <3>4, <3>5 DEF TypeInv
  <2> QED BY <2>2, <2>3
<1>6. CASE Rem(c)
  <2>1. /\ pc[c] = "pop" /\ Lists' = Lists /\ Goto(c, "len") /\ UNCHANGED callVars
        /\ Waiting' /\ Ghosts'
    BY <1>6, <1>f DEF Rem
  <2>2. /\ heap' \in Heaps /\ Lists' \in [Keys -> Nat] /\ Linked'
        /\ \A j \in Keys : Len(heap[j]) <= Len(heap'[j])
    <3>1. CASE heap' = heap
      BY <2>1, <3>1, <1>e DEF storeVars
    <3>2. CASE \E i \in 1 .. Len(Held(c)) :
                 heap' = [heap EXCEPT ![k][ref[c]] = RemoveAt(@, i)]
      <4>1. PICK i \in 1 .. Len(Held(c)) : heap' = [heap EXCEPT ![k][ref[c]] = RemoveAt(Held(c), i)]
        BY <3>2 DEF Held, k
      <4>2. RemoveAt(Held(c), i) \in Seq(Items)
        BY <1>b, <2>1, RemoveAtFacts
      <4> QED BY <1>d, <2>1, <4>1, <4>2
    <3> QED BY <1>6, <3>1, <3>2 DEF Rem, k
  <2>3. Types' /\ Handlers'
    BY <1>a, <2>1, <2>2, ControlKeepsTypes DEF Steps
  <2> QED BY <2>1, <2>2, <2>3 DEF TypeInv
<1>7. CASE CheckLen(c)
  <2>1. UNCHANGED storeVars /\ Waiting' /\ Ghosts'
    BY <1>7, <1>f DEF CheckLen
  <2>2. Return(c) \/ (Goto(c, "unlink") /\ UNCHANGED callVars)
    <3>1. CASE Held(c) = << >>
      <4>1. Goto(c, "unlink") /\ UNCHANGED callVars
        BY <1>7, <3>1 DEF CheckLen
      <4> QED BY <4>1
    <3>2. CASE ~(Held(c) = << >>)
      <4>1. Return(c)
        BY <1>7, <3>2 DEF CheckLen
      <4> QED BY <4>1
    <3> QED BY <3>1, <3>2
  <2>3. Types' /\ Handlers'
    BY <1>a, <1>e, <2>1, <2>2, ControlKeepsTypes DEF Steps
  <2> QED BY <1>e, <2>1, <2>3 DEF TypeInv
<1>8. CASE Unlink(c)
  <2>1. /\ heap' = heap /\ Lists' = [Lists EXCEPT ![k] = 0] /\ Return(c)
        /\ Waiting' /\ Ghosts'
    BY <1>8, <1>f DEF Unlink, k, Absent
  <2>2. Lists' \in [Keys -> Nat] /\ \A j \in Keys : Lists'[j] # Lists[j] => Lists'[j] = 0
    BY <1>b, <2>1
  <2>3. Linked' /\ heap' \in Heaps /\ \A j \in Keys : Len(heap[j]) <= Len(heap'[j])
    BY <1>c, <2>1, <2>2
  <2>4. Types' /\ Handlers'
    BY <1>a, <2>1, <2>2, <2>3, ControlKeepsTypes
  <2> QED BY <2>1, <2>3, <2>4 DEF TypeInv
<1>9. CASE DeleteKey(c)
  <2>1. heap' = heap /\ Lists' = [Lists EXCEPT ![k] = 0] /\ Waiting' /\ Ghosts'
    BY <1>9, <1>f DEF DeleteKey, k, Absent
  <2>2. Lists' \in [Keys -> Nat] /\ \A j \in Keys : Lists'[j] # Lists[j] => Lists'[j] = 0
    BY <1>b, <2>1
  <2>3. Linked' /\ heap' \in Heaps /\ \A j \in Keys : Len(heap[j]) <= Len(heap'[j])
    BY <1>c, <2>1, <2>2
  <2>4. CASE ki[c] < Len(call[c].keys)
    <3>1. ki' = [ki EXCEPT ![c] = @ + 1] /\ UNCHANGED <<pc, call, ref>>
      BY <1>9, <2>4 DEF DeleteKey
    <3>2. Types'
      BY <2>2, <2>3, <3>1 DEF Types
    <3>3. WellFormed(pc'[c], call'[c], ki'[c], ref'[c], heap')
      BY <1>9, <1>b, <2>4, <3>1 DEF WellFormed, Types, Handlers, DeleteKey
    <3>4. \A d \in Clients \ {c} :
            /\ pc'[d] # pc[d] => pc'[d] = "woken" /\ pc[d] = "parked"
            /\ call'[d] = call[d] /\ ki'[d] = ki[d] /\ ref'[d] = ref[d]
      BY <3>1 DEF Types
    <3> QED BY <2>1, <2>3, <3>2, <3>3, <3>4, HandlersKept DEF TypeInv
  <2>5. CASE ~(ki[c] < Len(call[c].keys))
    <3>1. Types' /\ Handlers'
      BY <1>9, <1>a, <2>2, <2>3, <2>5, ControlKeepsTypes DEF DeleteKey
    <3> QED BY <2>1, <2>3, <3>1 DEF TypeInv
  <2> QED BY <2>4, <2>5
<1>10. CASE CheckDeadline(c)
  <2>1. UNCHANGED storeVars /\ Waiting' /\ Ghosts'
    BY <1>10, <1>f DEF CheckDeadline
  <2>2. Return(c) \/ (Goto(c, "wait") /\ UNCHANGED callVars)
    <3>1. CASE call[c].timed /\ clock[c] = "after"
      <4>1. Return(c)
        BY <1>10, <3>1 DEF CheckDeadline
      <4> QED BY <4>1
    <3>2. CASE ~(call[c].timed /\ clock[c] = "after")
      <4>1. Goto(c, "wait") /\ UNCHANGED callVars
        BY <1>10, <3>2 DEF CheckDeadline
      <4> QED BY <4>1
    <3> QED BY <3>1, <3>2
  <2>3. Types' /\ Handlers'
    BY <1>a, <1>e, <2>1, <2>2, ControlKeepsTypes DEF Steps
  <2> QED BY <1>e, <2>1, <2>3 DEF TypeInv
<1>11. CASE WaitForListSignal(c)
  <2>1. UNCHANGED storeVars
    BY <1>11 DEF WaitForListSignal
  <2>2. Restart(c) \/ (Goto(c, "parked") /\ UNCHANGED callVars)
    <3>1. CASE call[c].timed /\ clock[c] # "before"
      <4>1. Restart(c)
        BY <1>11, <3>1 DEF WaitForListSignal
      <4> QED BY <4>1
    <3>2. CASE ~(call[c].timed /\ clock[c] # "before")
      <4>1. Goto(c, "parked") /\ UNCHANGED callVars
        BY <1>11, <3>2 DEF WaitForListSignal
      <4> QED BY <4>1
    <3> QED BY <3>1, <3>2
  <2>3. Types' /\ Handlers'
    BY <1>a, <1>e, <2>1, <2>2, ControlKeepsTypes DEF Steps
  <2>4. UNION {Reachable(j) : j \in Keys} \subseteq Items
    BY ElementsTyped
  <2>5. call[c].timed \in BOOLEAN
    BY <1>b DEF Frames
  <2>6. Waiting' /\ Ghosts'
    BY <1>11, <2>4, <2>5 DEF WaitForListSignal, Waiting, Ghosts
  <2> QED BY <1>e, <2>1, <2>3, <2>6 DEF TypeInv
<1>12. CASE WaitReturns(c)
  <2>1. UNCHANGED storeVars /\ Restart(c)
    BY <1>12 DEF WaitReturns
  <2>2. Types' /\ Handlers'
    BY <1>a, <1>e, <2>1, ControlKeepsTypes
  <2>3. Waiting' /\ Ghosts'
    BY <1>12 DEF WaitReturns, Waiting, Ghosts
  <2> QED BY <1>e, <2>1, <2>2, <2>3 DEF TypeInv
<1> QED BY <1>1, <1>2, <1>3, <1>4, <1>5, <1>6, <1>7, <1>8, <1>9, <1>10, <1>11, <1>12 DEF Step

\* Time, timers and their callbacks keep the type invariant.
LEMMA TimersKeepTypes ==
  ASSUME TypeInv, TimerCallback \/ \E c \in Clients : Advance(c) \/ TimerFires(c)
  PROVE  TypeInv'
<1> Types /\ Waiting /\ Ghosts /\ Linked /\ Handlers
  BY DEF TypeInv
<1>1. heap' = heap /\ Lists' = Lists /\ call' = call /\ ki' = ki /\ ref' = ref
  BY DEF TimerCallback, Advance, TimerFires, storeVars, callVars
<1>2. pc' = pc \/ pc' = [d \in Clients |-> IF pc[d] = "parked" THEN "woken" ELSE pc[d]]
  BY DEF TimerCallback, Advance, TimerFires, Broadcast
<1>3. Types' /\ \A d \in Clients : pc'[d] # pc[d] => pc'[d] = "woken" /\ pc[d] = "parked"
  BY <1>1, <1>2 DEF Types, Steps
<1>4. Handlers'
  <2> SUFFICES ASSUME NEW d \in Clients
               PROVE  WellFormed(pc'[d], call'[d], ki'[d], ref'[d], heap')
    BY DEF Handlers
  <2>1. WellFormed(pc[d], call[d], ki[d], ref[d], heap)
    BY DEF Handlers
  <2> QED BY <1>1, <1>3, <2>1 DEF WellFormed
<1>5. Linked' /\ Ghosts'
  BY <1>1 DEF Linked, Ghosts, TimerCallback, Advance, TimerFires, ghostVars
<1>6. Waiting'
  <2>1. CASE TimerCallback
    BY <2>1, ConstantsAssumption DEF TimerCallback, Waiting
  <2>2. CASE \E c \in Clients : Advance(c)
    BY <2>2 DEF Advance, Waiting
  <2>3. CASE \E c \in Clients : TimerFires(c)
    BY <2>3, ConstantsAssumption DEF TimerFires, Waiting
  <2> QED BY <2>1, <2>2, <2>3
<1> QED BY <1>3, <1>4, <1>5, <1>6 DEF TypeInv

\* The initial state satisfies the type invariant.
LEMMA InitTypes == Init => TypeInv
<1> SUFFICES ASSUME Init PROVE TypeInv
  OBVIOUS
<1>1. Types
  BY DEF Init, Types, Heaps, Steps, NoCall, Frame, Frames, Absent
<1>2. Waiting /\ Ghosts
  BY ConstantsAssumption DEF Init, Waiting, Ghosts
<1>3. Linked
  BY DEF Init, Linked, Absent
<1>4. Handlers
  BY ReturnedWellFormed DEF Init, Handlers
<1> QED BY <1>1, <1>2, <1>3, <1>4 DEF TypeInv

\* The parts of the type invariant are inductive, one lemma per kind of step.
LEMMA TypeInvariant == Spec => []TypeInv
<1>1. TypeInv /\ [Next]_vars => TypeInv'
  <2> SUFFICES ASSUME TypeInv, [Next]_vars PROVE TypeInv'
    OBVIOUS
  <2>1. CASE UNCHANGED vars
    BY <2>1 DEF TypeInv, vars, storeVars, callVars, waitVars, ghostVars,
       Types, Waiting, Ghosts, Linked, Handlers
  <2>2. CASE Next
    BY <2>2, IssueKeepsTypes, StepKeepsTypes, TimersKeepTypes DEF Next
  <2> QED BY <2>1, <2>2
<1> QED BY <1>1, InitTypes, PTL DEF Spec

\* Type correctness for any connections, keys and bounds; it includes that no
\* handler works on a nil list and no entry of db.Lists dangles.
THEOREM TypeCorrect == Spec => []TypeOK
  BY TypeInvariant, TypeOKParts, PTL DEF TypeInv

-----------------------------------------------------------------------------
(* No empty list is left behind.                                           *)

\* A step of connection c moves no other connection, except that it may wake
\* one that is parked.
LEMMA OthersStay ==
  ASSUME Types, NEW c \in Clients, Issue(c) \/ Step(c) \/ Advance(c) \/ TimerFires(c)
  PROVE  \A d \in Clients \ {c} :
           /\ pc'[d] # pc[d] => pc'[d] = "woken" /\ pc[d] = "parked"
           /\ call'[d] = call[d] /\ ki'[d] = ki[d] /\ ref'[d] = ref[d]
<1> DEFINE Stays == \A d \in Clients \ {c} :
             /\ pc'[d] # pc[d] => pc'[d] = "woken" /\ pc[d] = "parked"
             /\ call'[d] = call[d] /\ ki'[d] = ki[d] /\ ref'[d] = ref[d]
<1>1. ASSUME Issue(c) PROVE Stays
  <2>1. ASSUME NEW f, NEW step, Start(c, f, step) PROVE Stays
    BY <2>1 DEF Start, Types
  <2> QED BY <1>1, <2>1 DEF Issue, IssuePush, IssuePop, IssueBlockingPop, IssueLRem, IssueDel
<1>2. ASSUME Return(c) \/ Miss(c) \/ Restart(c) PROVE Stays
  BY <1>2 DEF Return, Miss, Restart, Goto, Types, callVars
<1>3. ASSUME NEW step, Goto(c, step), UNCHANGED callVars PROVE Stays
  BY <1>3 DEF Goto, Types, callVars
<1>4. ASSUME Step(c) PROVE Stays
  <2>1. CASE GetOrCreateList(c)
    BY <2>1 DEF GetOrCreateList, Goto, Types, storeVars
  <2>2. CASE Push(c)
    BY <2>2, <1>3 DEF Push
  <2>3. CASE SignalListPush(c)
    BY <2>3 DEF SignalListPush, Broadcast, Types
  <2>4. CASE GetList(c)
    <3>1. CASE Miss(c)
      BY <3>1, <1>2
    <3>2. CASE ~Miss(c)
      BY <2>4, <3>2 DEF GetList, Goto, Types
    <3> QED BY <3>1, <3>2
  <2>5. CASE Pop(c)
    <3>1. CASE Miss(c)
      BY <3>1, <1>2
    <3>2. CASE ~Miss(c)
      BY <2>5, <3>2, <1>3 DEF Pop
    <3> QED BY <3>1, <3>2
  <2>6. CASE Rem(c)
    BY <2>6, <1>3 DEF Rem
  <2>7. CASE CheckLen(c)
    BY <2>7, <1>2, <1>3 DEF CheckLen
  <2>8. CASE Unlink(c)
    BY <2>8, <1>2 DEF Unlink
  <2>9. CASE DeleteKey(c)
    <3>1. CASE Return(c)
      BY <3>1, <1>2
    <3>2. CASE ~Return(c)
      BY <2>9, <3>2 DEF DeleteKey, Types
    <3> QED BY <3>1, <3>2
  <2>10. CASE CheckDeadline(c)
    BY <2>10, <1>2, <1>3 DEF CheckDeadline
  <2>11. CASE WaitForListSignal(c)
    BY <2>11, <1>2, <1>3 DEF WaitForListSignal
  <2>12. CASE WaitReturns(c)
    BY <2>12, <1>2 DEF WaitReturns
  <2> QED BY <1>4, <2>1, <2>2, <2>3, <2>4, <2>5, <2>6, <2>7, <2>8, <2>9, <2>10, <2>11, <2>12
         DEF Step
<1>5. ASSUME Advance(c) \/ TimerFires(c) PROVE Stays
  BY <1>5 DEF Advance, TimerFires, callVars
<1> QED BY <1>1, <1>4, <1>5

\* A connection that owns an empty list still does after another's step.
LEMMA OwnerStays ==
  ASSUME Types, NEW c \in Clients, Issue(c) \/ Step(c) \/ Advance(c) \/ TimerFires(c),
         NEW d \in Clients, d # c, NEW k, NEW l,
         Owns(pc[d], call[d], ki[d], ref[d], k, l)
  PROVE  Owns(pc'[d], call'[d], ki'[d], ref'[d], k, l)
<1>1. /\ pc'[d] # pc[d] => pc'[d] = "woken" /\ pc[d] = "parked"
      /\ call'[d] = call[d] /\ ki'[d] = ki[d] /\ ref'[d] = ref[d]
  BY OthersStay
<1> QED BY <1>1 DEF Owns

\* Every step of a connection keeps EmptyListHasOwner.
LEMMA StepKeepsOwner ==
  ASSUME TypeInv, TypeInv', EmptyListHasOwner, NEW c \in Clients,
         Issue(c) \/ Step(c) \/ Advance(c) \/ TimerFires(c),
         NEW k \in Keys, Lists'[k] # Absent, heap'[k][Lists'[k]] = << >>
  PROVE  \E d \in Clients : Owns(pc'[d], call'[d], ki'[d], ref'[d], k, Lists'[k])
<1> DEFINE Goal == \E d \in Clients : Owns(pc'[d], call'[d], ki'[d], ref'[d], k, Lists'[k])
<1> Types /\ Linked /\ Handlers /\ Types'
  BY DEF TypeInv
\* An owner other than c does not move; so either c owned the list or we are done.
<1>1. ASSUME Lists'[k] = Lists[k], heap[k][Lists[k]] = << >>,
             ~Owns(pc[c], call[c], ki[c], ref[c], k, Lists[k])
      PROVE  Goal
  <2>1. PICK d \in Clients : Owns(pc[d], call[d], ki[d], ref[d], k, Lists[k])
    BY <1>1 DEF EmptyListHasOwner
  <2>2. d # c
    BY <1>1, <2>1
  <2>3. Owns(pc'[d], call'[d], ki'[d], ref'[d], k, Lists[k])
    BY <2>1, <2>2, OwnerStays
  <2> QED BY <1>1, <2>3
<1>2. ASSUME heap' = heap, Lists'[k] = Lists[k],
             pc[c] \notin {"push", "len", "unlink"}
      PROVE  Goal
  BY <1>1, <1>2 DEF Owns
<1>3. CASE Issue(c) \/ Advance(c) \/ TimerFires(c)
  <2>1. heap' = heap /\ Lists' = Lists
    BY <1>3 DEF Issue, IssuePush, IssuePop, IssueBlockingPop, IssueLRem, IssueDel, Start,
       Advance, TimerFires, storeVars
  <2>2. CASE Issue(c)
    <3>1. pc[c] = "idle"
      BY <2>2 DEF Issue, IssuePush, IssuePop, IssueBlockingPop, IssueLRem, IssueDel, Start
    <3> QED BY <1>2, <2>1, <3>1
  <2>3. CASE Advance(c) \/ TimerFires(c)
    <3>1. pc' = pc /\ call' = call /\ ki' = ki /\ ref' = ref
      BY <2>3 DEF Advance, TimerFires, callVars
    <3> QED BY <2>1, <3>1 DEF EmptyListHasOwner
  <2> QED BY <1>3, <2>2, <2>3
<1>4. ASSUME pc[c] # "idle" PROVE Key(c) \in Keys
  BY <1>4, HeldTyped
<1>5. CASE GetOrCreateList(c)
  <2>1. CASE Lists[Key(c)] # Absent
    <3>1. heap' = heap /\ Lists' = Lists /\ pc[c] = "create"
      BY <1>5, <2>1 DEF GetOrCreateList, storeVars
    <3> QED BY <1>2, <3>1
  <2>2. CASE Lists[Key(c)] = Absent
    <3>1. /\ heap' = [heap EXCEPT ![Key(c)] = Append(@, << >>)]
          /\ Lists' = [Lists EXCEPT ![Key(c)] = Len(heap[Key(c)]) + 1]
          /\ ref' = [ref EXCEPT ![c] = Len(heap[Key(c)]) + 1]
          /\ pc[c] = "create" /\ pc' = [pc EXCEPT ![c] = "push"]
          /\ call' = call /\ ki' = ki
      BY <1>5, <2>2 DEF GetOrCreateList, Goto
    <3>2. CASE k = Key(c)
      <4>1. Owns(pc'[c], call'[c], ki'[c], ref'[c], k, Lists'[k])
        BY <3>1, <3>2 DEF Owns, Types, Key
      <4> QED BY <4>1
    <3>3. CASE k # Key(c)
      <4>1. Lists'[k] = Lists[k] /\ heap'[k] = heap[k]
        BY <3>1, <3>3 DEF Types, Heaps
      <4> QED BY <1>1, <3>1, <4>1 DEF Owns
    <3> QED BY <3>2, <3>3
  <2> QED BY <2>1, <2>2
\* A step that changes only the list c holds.
<1>6. ASSUME NEW e, heap' = [heap EXCEPT ![Key(c)][ref[c]] = e], Lists' = Lists,
             pc[c] \in {"push", "pop"}, k # Key(c) \/ Lists[k] # ref[c]
      PROVE  Goal
  <2>1. Key(c) \in Keys /\ ref[c] \in 1 .. Len(heap[Key(c)])
    BY <1>6, HeldTyped
  <2>2. Lists[k] \in 1 .. Len(heap[k])
    BY <1>6 DEF Linked, Types, Heaps, Absent
  <2>3. heap[k][Lists[k]] = << >>
    BY <1>6, <2>1, <2>2 DEF Types, Heaps
  <2>4. ~Owns(pc[c], call[c], ki[c], ref[c], k, Lists[k])
    BY <1>6 DEF Owns, Key
  <2> QED BY <1>1, <1>6, <2>3, <2>4
<1>7. CASE Push(c)
  <2> DEFINE e == IF call[c].cmd = "LPUSH" THEN LPush(Held(c), call[c].vals)
                                           ELSE RPush(Held(c), call[c].vals)
  <2>1. pc[c] = "push" /\ Lists' = Lists /\ heap' = [heap EXCEPT ![Key(c)][ref[c]] = e]
    BY <1>7 DEF Push, Held
  <2>2. /\ Key(c) \in Keys /\ ref[c] \in 1 .. Len(heap[Key(c)])
        /\ Held(c) \in Seq(Items) /\ call[c].vals \in Seq(Items) /\ call[c].vals # << >>
    BY <2>1, HeldTyped DEF Handlers, WellFormed
  <2>3. e # << >>
    BY <2>2, PushFacts
  <2> HIDE DEF e
  <2>4. CASE k = Key(c) /\ Lists[k] = ref[c]
    <3>1. heap'[k][Lists'[k]] = e
      BY <2>1, <2>2, <2>4 DEF Types, Heaps
    <3> QED BY <2>3, <3>1
  <2>5. CASE ~(k = Key(c) /\ Lists[k] = ref[c])
    BY <1>6, <2>1, <2>5
  <2> QED BY <2>4, <2>5
<1>8. ASSUME pc'[c] = "len", call' = call, ki' = ki, ref' = ref, Lists' = Lists,
             k = Key(c), Lists[k] = ref[c]
      PROVE  Goal
  <2>1. Owns(pc'[c], call'[c], ki'[c], ref'[c], k, Lists'[k])
    BY <1>8 DEF Owns, Key
  <2> QED BY <2>1
<1>9. CASE Pop(c)
  <2>1. pc[c] = "pop" /\ Lists' = Lists
    BY <1>9 DEF Pop
  <2>2. CASE Held(c) = << >>
    BY <1>2, <1>9, <2>1, <2>2 DEF Pop
  <2>3. CASE Held(c) # << >>
    <3> DEFINE e == (IF call[c].cmd \in {"LPOP", "BLPOP"} THEN LPop(Held(c)) ELSE RPop(Held(c))).rest
    <3>1. /\ heap' = [heap EXCEPT ![Key(c)][ref[c]] = e]
          /\ pc'[c] = "len" /\ call' = call /\ ki' = ki /\ ref' = ref
      BY <1>9, <2>3 DEF Pop, Goto, callVars, Types
    <3> HIDE DEF e
    <3> QED BY <1>6, <1>8, <2>1, <3>1
  <2> QED BY <2>2, <2>3
<1>10. CASE Rem(c)
  <2>1. pc[c] = "pop" /\ Lists' = Lists
    BY <1>10 DEF Rem
  <2>2. pc'[c] = "len" /\ call' = call /\ ki' = ki /\ ref' = ref
    BY <1>10 DEF Rem, Goto, callVars, Types
  <2>3. CASE heap' = heap
    BY <1>2, <2>1, <2>3
  <2>4. CASE \E i \in 1 .. Len(Held(c)) :
               heap' = [heap EXCEPT ![Key(c)][ref[c]] = RemoveAt(@, i)]
    <3>1. PICK i \in 1 .. Len(Held(c)) :
            heap' = [heap EXCEPT ![Key(c)][ref[c]] = RemoveAt(Held(c), i)]
      BY <2>4 DEF Held
    <3> QED BY <1>6, <1>8, <2>1, <2>2, <3>1
  <2> QED BY <1>10, <2>3, <2>4 DEF Rem
<1>11. CASE CheckLen(c)
  <2>1. pc[c] = "len" /\ heap' = heap /\ Lists' = Lists
    BY <1>11 DEF CheckLen, storeVars
  <2>2. CASE k = Key(c) /\ Lists[k] = ref[c]
    <3>1. Held(c) = << >>
      BY <2>1, <2>2 DEF Held
    <3>2. pc'[c] = "unlink" /\ call' = call /\ ki' = ki
      BY <1>11, <3>1 DEF CheckLen, Goto, callVars, Types
    <3>3. Owns(pc'[c], call'[c], ki'[c], ref'[c], k, Lists'[k])
      BY <2>2, <3>2 DEF Owns, Key
    <3> QED BY <3>3
  <2>3. CASE ~(k = Key(c) /\ Lists[k] = ref[c])
    <3>1. ~Owns(pc[c], call[c], ki[c], ref[c], k, Lists[k])
      BY <2>1, <2>3 DEF Owns, Key
    <3> QED BY <1>1, <2>1, <3>1
  <2> QED BY <2>2, <2>3
<1>12. CASE Unlink(c) \/ DeleteKey(c)
  <2>1. /\ heap' = heap /\ Lists' = [Lists EXCEPT ![Key(c)] = Absent]
        /\ pc[c] \in {"unlink", "delete"}
    BY <1>12 DEF Unlink, DeleteKey
  <2>2. k # Key(c) /\ Lists'[k] = Lists[k]
    BY <2>1, <1>4 DEF Types
  <2>3. ~Owns(pc[c], call[c], ki[c], ref[c], k, Lists[k])
    BY <2>1, <2>2 DEF Owns, Key
  <2> QED BY <1>1, <2>1, <2>2, <2>3
<1>13. CASE \/ SignalListPush(c) \/ GetList(c) \/ CheckDeadline(c)
            \/ WaitForListSignal(c) \/ WaitReturns(c)
  <2>1. heap' = heap /\ Lists' = Lists /\ pc[c] \in {"signal", "find", "deadline", "wait", "woken"}
    BY <1>13 DEF SignalListPush, GetList, CheckDeadline, WaitForListSignal, WaitReturns, storeVars
  <2> QED BY <1>2, <2>1
<1> QED BY <1>3, <1>5, <1>7, <1>9, <1>10, <1>11, <1>12, <1>13 DEF Step

\* For any number of connections, an empty list under a key is always in the
\* hands of a command that will fill or unlink it (list_commands.go 65-69,
\* 154-158, 287-291): once every command has returned, no empty list is left.
THEOREM NoEmptyListLeftBehind == Spec => []EmptyListHasOwner
<1>1. Init => EmptyListHasOwner
  BY DEF Init, EmptyListHasOwner
<1>2. TypeInv /\ TypeInv' /\ EmptyListHasOwner /\ [Next]_vars => EmptyListHasOwner'
  <2> SUFFICES ASSUME TypeInv, TypeInv', EmptyListHasOwner, [Next]_vars,
                      NEW k \in Keys, Lists'[k] # Absent, heap'[k][Lists'[k]] = << >>
               PROVE  \E d \in Clients : Owns(pc'[d], call'[d], ki'[d], ref'[d], k, Lists'[k])
    BY DEF EmptyListHasOwner
  <2>1. CASE UNCHANGED vars
    BY <2>1 DEF vars, storeVars, callVars, EmptyListHasOwner
  <2>2. CASE \E c \in Clients : Issue(c) \/ Step(c) \/ Advance(c) \/ TimerFires(c)
    BY <2>2, StepKeepsOwner
  <2>3. CASE TimerCallback
    <3>1. /\ heap' = heap /\ Lists' = Lists /\ call' = call /\ ki' = ki /\ ref' = ref
          /\ \A d \in Clients : pc[d] # "parked" => pc'[d] = pc[d]
      BY <2>3 DEF TimerCallback, Broadcast, storeVars, callVars
    <3>2. PICK d \in Clients : Owns(pc[d], call[d], ki[d], ref[d], k, Lists[k])
      BY <3>1 DEF EmptyListHasOwner
    <3>3. Owns(pc'[d], call'[d], ki'[d], ref'[d], k, Lists'[k])
      BY <3>1, <3>2 DEF Owns
    <3> QED BY <3>3
  <2> QED BY <2>1, <2>2, <2>3 DEF Next
<1> QED BY <1>1, <1>2, TypeInvariant, PTL DEF Spec

-----------------------------------------------------------------------------
(* The inductive invariants.                                               *)

\* A push whose elements are in no list yet, and those elements.
Pending(c) == pc[c] \in {"create", "push"}
New(c)     == Elements(call[c].vals)

Distinct(s) == \A p, q \in 1 .. Len(s) : s[p] = s[q] => p = q

\* Elements that were issued and that no pop took.
Alive(x) == x \in 1 .. issued /\ x \notin popped

\* The list objects of a heap, and what one holds.
Objects(h) == UNION {{<<k, l>> : l \in 1 .. Len(h[k])} : k \in Keys}
At(h, o)   == h[o[1]][o[2]]

\* A list object has an element at one place, and of its own only.
ListsAreDisjoint ==
  /\ \A o \in Objects(heap) : Distinct(At(heap, o))
  /\ \A o \in Objects(heap) : \A x \in Elements(At(heap, o)) : Alive(x)
  /\ \A o, p \in Objects(heap) : \A x \in Elements(At(heap, o)) : x \in Elements(At(heap, p)) => o = p

\* What a push has yet to put into a list is nowhere else.
PendingIsNew ==
  /\ \A c \in Clients : Pending(c) => Distinct(call[c].vals)
  /\ \A c \in Clients : Pending(c) => \A x \in New(c) : Alive(x)
  /\ \A c \in Clients : Pending(c) => \A x \in New(c) : \A o \in Objects(heap) :
                                                          x \notin Elements(At(heap, o))
  /\ \A b, c \in Clients : Pending(b) /\ Pending(c) => \A x \in New(b) : x \in New(c) => b = c

OnceInv == ListsAreDisjoint /\ PendingIsNew /\ \A x \in popped : x \in 1 .. issued

\* Wherever s has both, a comes before i.
Precedes(s, a, i) == \A p, q \in 1 .. Len(s) : s[p] = a /\ s[q] = i => p < q

\* What was in a list when a push was issued is not waiting to be pushed.
AheadIsOld ==
  \A i \in Items : \A a \in ahead[i] :
    a \in 1 .. issued /\ \A c \in Clients : Pending(c) => a \notin New(c)

\* i is behind a in the list object that k has, or on its way there, or removed.
OnItsWay(i, k) ==
  \A c \in Clients : Pending(c) /\ i \in New(c) =>
    Key(c) = k /\ (pc[c] = "push" => ref[c] = Lists[k])

IsBehind(i, a, k) ==
  /\ i \notin popped
  /\ \A o \in Objects(heap) : i \in Elements(At(heap, o)) => o = <<k, Lists[k]>>
  /\ Precedes(At(heap, <<k, Lists[k]>>), a, i)
  /\ OnItsWay(i, k)

\* So it is as long as a lookup finds an element that was there first.
AheadIsBefore ==
  \A i \in Items : \A a \in ahead[i] : \A k \in Keys : a \in Reachable(k) => IsBehind(i, a, k)

\* The sections of a command that looks for a list, and its commands.
Seeking   == {"find", "pop", "deadline", "wait", "parked", "woken"}
SeekingOK == Commands \ (Pushes \cup {"DEL"})

\* The handlers' sections belong to the commands that have them.
SectionsMatch ==
  /\ \A c \in Clients : Pending(c) => call[c].cmd \in Commands \cap Pushes
  /\ \A c \in Clients : pc[c] \in Seeking => call[c].cmd \in SeekingOK

OrderInv == AheadIsOld /\ AheadIsBefore /\ SectionsMatch

-----------------------------------------------------------------------------
(* Sequences and heaps.                                                    *)

\* t is s without its place i.
OneLess(s, t, i) ==
  /\ Len(t) = Len(s) - 1
  /\ \A p \in 1 .. Len(t) : t[p] = s[IF p < i THEN p ELSE p + 1]

\* What is left of a list has no other elements, each once and in their order.
LEMMA OneLessFacts ==
  ASSUME NEW s \in Seq(Items), NEW t \in Seq(Items), NEW i \in 1 .. Len(s), OneLess(s, t, i)
  PROVE  /\ \A x \in Elements(t) : x \in Elements(s)
         /\ Distinct(s) => Distinct(t) /\ s[i] \notin Elements(t)
         /\ \A a, b : Precedes(s, a, b) => Precedes(t, a, b)
<1> DEFINE f(p) == IF p < i THEN p ELSE p + 1
<1>1. /\ Len(s) \in Nat /\ Len(t) \in Nat /\ Len(t) = Len(s) - 1
      /\ \A p \in 1 .. Len(t) : f(p) \in 1 .. Len(s) /\ t[p] = s[f(p)] /\ f(p) # i
      /\ \A p, q \in 1 .. Len(t) : (f(p) = f(q) => p = q) /\ (f(p) < f(q) => p < q)
  BY DEF OneLess
<1> HIDE DEF f
<1>2. \A x \in Elements(t) : x \in Elements(s)
  BY <1>1 DEF Elements
<1>3. Distinct(s) => Distinct(t) /\ s[i] \notin Elements(t)
  BY <1>1 DEF Elements, Distinct
<1>4. ASSUME NEW a, NEW b, Precedes(s, a, b) PROVE Precedes(t, a, b)
  BY <1>1, <1>4 DEF Precedes
<1> QED BY <1>2, <1>3, <1>4

\* A pop takes the element at one end, LREM one in between.
LEMMA PopTakesOne ==
  ASSUME NEW s \in Seq(Items), s # << >>
  PROVE  /\ Len(s) \in Nat /\ Len(s) > 0
         /\ LPop(s).rest \in Seq(Items) /\ LPop(s).value = s[1] /\ OneLess(s, LPop(s).rest, 1)
         /\ RPop(s).rest \in Seq(Items) /\ RPop(s).value = s[Len(s)]
         /\ OneLess(s, RPop(s).rest, Len(s))
<1>1. Len(s) \in Nat /\ Len(s) > 0
  OBVIOUS
<1>2. LPop(s).rest \in Seq(Items) /\ LPop(s).value = s[1] /\ OneLess(s, LPop(s).rest, 1)
  BY <1>1, HeadTailProperties DEF LPop, OneLess
<1>3. /\ RPop(s).rest \in Seq(Items) /\ RPop(s).value = s[Len(s)]
      /\ OneLess(s, RPop(s).rest, Len(s))
  <2>1. RPop(s).rest = SubSeq(s, 1, Len(s) - 1) /\ RPop(s).value = s[Len(s)]
    BY DEF RPop, Front, Last
  <2>2. /\ SubSeq(s, 1, Len(s) - 1) \in Seq(Items) /\ Len(SubSeq(s, 1, Len(s) - 1)) = Len(s) - 1
        /\ \A p \in 1 .. Len(s) - 1 : SubSeq(s, 1, Len(s) - 1)[p] = s[p]
    <3> DEFINE n == Len(s) - 1
               f == SubSeq(s, 1, n)
    <3>1. n \in Nat /\ \A p \in 1 .. n : p \in 1 .. Len(s)
      BY <1>1
    <3> HIDE DEF n
    <3>2. /\ f \in Seq(Items) /\ Len(f) = IF 1 <= n THEN n - 1 + 1 ELSE 0
          /\ \A p \in 1 .. n - 1 + 1 : f[p] = s[1 + p - 1]
      BY <3>1, SubSeqProperties
    <3> HIDE DEF f
    <3>3. Len(f) = n /\ \A p \in 1 .. n : f[p] = s[p]
      BY <3>1, <3>2
    <3> QED BY <3>2, <3>3 DEF n, f
  <2> QED BY <1>1, <2>1, <2>2 DEF OneLess
<1> QED BY <1>1, <1>2, <1>3

\* LREM takes one element out and keeps the others in their order.
LEMMA RemoveTakesOne ==
  ASSUME NEW s \in Seq(Items), NEW i \in 1 .. Len(s)
  PROVE  RemoveAt(s, i) \in Seq(Items) /\ OneLess(s, RemoveAt(s, i), i)
<1> DEFINE a == SubSeq(s, 1, i - 1)
           b == SubSeq(s, i + 1, Len(s))
<1>1. /\ a \in Seq(Items) /\ Len(a) = i - 1 /\ \A j \in 1 .. i - 1 : a[j] = s[j]
  BY SubSeqProperties
<1>2. /\ b \in Seq(Items) /\ Len(b) = Len(s) - i
      /\ \A j \in 1 .. Len(s) - i : b[j] = s[i + j]
  BY SubSeqProperties
<1>3. RemoveAt(s, i) = a \o b
  BY DEF RemoveAt
<1> HIDE DEF a, b
<1>4. /\ a \o b \in Seq(Items) /\ Len(a \o b) = Len(a) + Len(b)
      /\ \A j \in 1 .. Len(a) + Len(b) :
           (a \o b)[j] = IF j <= Len(a) THEN a[j] ELSE b[j - Len(a)]
  BY <1>1, <1>2, ConcatProperties
<1>5. ASSUME NEW p \in 1 .. Len(s) - 1
      PROVE  (a \o b)[p] = s[IF p < i THEN p ELSE p + 1]
  <2>1. CASE p < i
    BY <1>1, <1>2, <1>4, <2>1
  <2>2. CASE p >= i
    <3>1. /\ p - Len(a) \in 1 .. Len(s) - i /\ i + (p - Len(a)) = p + 1
          /\ p \in 1 .. Len(a) + Len(b) /\ ~(p <= Len(a)) /\ ~(p < i)
      BY <1>1, <1>2, <2>2
    <3>2. (a \o b)[p] = b[p - Len(a)]
      BY <1>4, <3>1
    <3>3. b[p - Len(a)] = s[i + (p - Len(a))]
      BY <1>2, <3>1
    <3> QED BY <3>1, <3>2, <3>3
  <2>3. p < i \/ p >= i
    OBVIOUS
  <2> QED BY <2>1, <2>2, <2>3
<1>6. Len(a \o b) = Len(s) - 1
  BY <1>1, <1>2, <1>4
<1> QED BY <1>3, <1>4, <1>5, <1>6 DEF OneLess

\* Two lists in a row.
LEMMA InARow ==
  ASSUME NEW t \in Seq(Items), NEW u \in Seq(Items)
  PROVE  /\ t \o u \in Seq(Items)
         /\ \A x \in Elements(t \o u) : x \in Elements(t) \/ x \in Elements(u)
         /\ Distinct(t) /\ Distinct(u) /\ (\A x \in Elements(u) : x \notin Elements(t)) =>
              Distinct(t \o u)
         /\ \A a, i : Precedes(t, a, i) /\ a \notin Elements(u) => Precedes(t \o u, a, i)
<1>1. /\ t \o u \in Seq(Items) /\ Len(t \o u) = Len(t) + Len(u)
      /\ \A i \in 1 .. Len(t) + Len(u) :
           (t \o u)[i] = IF i <= Len(t) THEN t[i] ELSE u[i - Len(t)]
      /\ Len(t) \in Nat /\ Len(u) \in Nat
  BY ConcatProperties
<1> DEFINE w == t \o u
<1>2. \A p \in 1 .. Len(w) : \/ p \in 1 .. Len(t) /\ w[p] = t[p]
                             \/ p > Len(t) /\ p - Len(t) \in 1 .. Len(u) /\ w[p] = u[p - Len(t)]
  BY <1>1
<1>3. Len(w) \in Nat
  BY <1>1
<1> HIDE DEF w
<1>4. \A x \in Elements(w) : x \in Elements(t) \/ x \in Elements(u)
  BY <1>2 DEF Elements
<1>5. ASSUME Distinct(t), Distinct(u), \A x \in Elements(u) : x \notin Elements(t)
      PROVE  Distinct(w)
  <2> SUFFICES ASSUME NEW p \in 1 .. Len(w), NEW q \in 1 .. Len(w), w[p] = w[q] PROVE p = q
    BY DEF Distinct
  <2>1. CASE p \in 1 .. Len(t) /\ q \in 1 .. Len(t)
    BY <1>1, <1>2, <1>5, <2>1 DEF Distinct
  <2>2. CASE p > Len(t) /\ q > Len(t)
    <3>0. /\ p - Len(t) \in 1 .. Len(u) /\ w[p] = u[p - Len(t)]
          /\ q - Len(t) \in 1 .. Len(u) /\ w[q] = u[q - Len(t)]
      BY <1>1, <1>2, <2>2
    <3>1. p - Len(t) = q - Len(t)
      BY <1>5, <3>0, Zenon DEF Distinct
    <3> QED BY <1>1, <1>3, <3>1
  <2>a. \A m \in 1 .. Len(t), n \in 1 .. Len(u) : t[m] # u[n]
    BY <1>5 DEF Elements
  <2>3. CASE p \in 1 .. Len(t) /\ q > Len(t)
    BY <1>1, <1>2, <2>a, <2>3
  <2>4. CASE q \in 1 .. Len(t) /\ p > Len(t)
    BY <1>1, <1>2, <2>a, <2>4
  <2> QED BY <1>1, <1>2, <2>1, <2>2, <2>3, <2>4
<1>6. ASSUME NEW a, NEW i, Precedes(t, a, i), a \notin Elements(u)
      PROVE  Precedes(w, a, i)
  <2> SUFFICES ASSUME NEW p \in 1 .. Len(w), NEW q \in 1 .. Len(w), w[p] = a, w[q] = i PROVE p < q
    BY DEF Precedes
  <2>1. p \in 1 .. Len(t) /\ t[p] = a
    BY <1>2, <1>6 DEF Elements
  <2>2. CASE q \in 1 .. Len(t)
    BY <1>1, <1>2, <1>6, <2>1, <2>2 DEF Precedes
  <2>3. CASE q > Len(t)
    BY <1>1, <1>3, <2>1, <2>3
  <2> QED BY <1>2, <2>2, <2>3
<1> QED BY <1>1, <1>4, <1>5, <1>6 DEF w

\* A push of new elements.
LEMMA PushIsDistinct ==
  ASSUME NEW s \in Seq(Items), NEW v \in Seq(Items), Distinct(s), Distinct(v),
         \A x \in Elements(v) : x \notin Elements(s)
  PROVE  /\ LPush(s, v) \in Seq(Items) /\ Distinct(LPush(s, v))
         /\ RPush(s, v) \in Seq(Items) /\ Distinct(RPush(s, v))
<1> DEFINE r == Reverse(v)
<1>1. /\ r \in Seq(Items) /\ Len(r) = Len(v) /\ Len(v) \in Nat
      /\ \A i \in 1 .. Len(v) : r[i] = v[(Len(v) - i) + 1]
  BY DEF Reverse
<1>2. LPush(s, v) = r \o s /\ RPush(s, v) = s \o v
  BY DEF LPush, RPush
<1> HIDE DEF r
<1>3. \A i \in 1 .. Len(v) : (Len(v) - i) + 1 \in 1 .. Len(v)
  BY <1>1
<1>4. Distinct(r)
  <2> SUFFICES ASSUME NEW p \in 1 .. Len(v), NEW q \in 1 .. Len(v), r[p] = r[q] PROVE p = q
    BY <1>1 DEF Distinct
  <2>1. (Len(v) - p) + 1 = (Len(v) - q) + 1
    BY <1>1, <1>3 DEF Distinct
  <2> QED BY <1>1, <2>1
<1>5. \A x \in Elements(r) : x \in Elements(v)
  BY <1>1, <1>3 DEF Elements
<1>6. \A x \in Elements(s) : x \notin Elements(r)
  BY <1>5
<1> QED BY <1>1, <1>2, <1>4, <1>6, InARow

\* The objects of a typed heap.
LEMMA ObjectFacts ==
  ASSUME NEW h \in Heaps
  PROVE  /\ \A o \in Objects(h) : \E k \in Keys : \E l \in 1 .. Len(h[k]) : o = <<k, l>>
         /\ \A k \in Keys : \A l \in 1 .. Len(h[k]) :
              /\ <<k, l>> \in Objects(h) /\ At(h, <<k, l>>) = h[k][l] /\ h[k][l] \in Seq(Items)
  BY DEF Objects, At, Heaps

\* g is the heap h with e as the items of one list object, or with a new one.
Edited(g, h, k, l, e) == g = [h EXCEPT ![k][l] = e]
Extended(g, h, k)     == g = [h EXCEPT ![k] = Append(h[k], << >>)]

\* One list object gets other items.
LEMMA EditFacts ==
  ASSUME NEW h \in Heaps, NEW k \in Keys, NEW l \in 1 .. Len(h[k]), NEW e \in Seq(Items),
         NEW g, Edited(g, h, k, l, e)
  PROVE  /\ Objects(g) = Objects(h) /\ <<k, l>> \in Objects(h)
         /\ At(g, <<k, l>>) = e
         /\ \A o \in Objects(h) : o # <<k, l>> => At(g, o) = At(h, o)
<1> USE DEF Edited
<1>1. \A j \in Keys : Len(g[j]) = Len(h[j])
  BY DEF Heaps
<1>2. Objects(g) = Objects(h)
  BY <1>1 DEF Objects
<1>3. \A j \in Keys : \A m \in 1 .. Len(h[j]) : g[j][m] = IF j = k /\ m = l THEN e ELSE h[j][m]
  BY DEF Heaps
<1>4. ASSUME NEW o \in Objects(h), o # <<k, l>> PROVE At(g, o) = At(h, o)
  <2>0. PICK j \in Keys : \E m \in 1 .. Len(h[j]) : o = <<j, m>>
    BY ObjectFacts
  <2>1. PICK m \in 1 .. Len(h[j]) : o = <<j, m>>
    BY <2>0
  <2>2. ~(j = k /\ m = l)
    BY <1>4, <2>1
  <2>3. g[j][m] = h[j][m]
    BY <1>3, <2>2
  <2> QED BY <2>1, <2>3 DEF At
<1>5. At(g, <<k, l>>) = e
  BY <1>3 DEF At
<1> QED BY <1>2, <1>4, <1>5, ObjectFacts

\* A new list object.
LEMMA NewFacts ==
  ASSUME NEW h \in Heaps, NEW k \in Keys, NEW g, Extended(g, h, k)
  PROVE  /\ Len(h[k]) \in Nat
         /\ Objects(g) = Objects(h) \cup {<<k, Len(h[k]) + 1>>}
         /\ <<k, Len(h[k]) + 1>> \notin Objects(h)
         /\ At(g, <<k, Len(h[k]) + 1>>) = << >>
         /\ \A o \in Objects(h) : At(g, o) = At(h, o)
<1>1. h[k] \in Seq(Seq(Items)) /\ Len(h[k]) \in Nat
  BY DEF Heaps
<1>2. \A j \in Keys : g[j] = IF j = k THEN Append(h[k], << >>) ELSE h[j]
  BY DEF Heaps, Extended
<1>3. /\ Len(g[k]) = Len(h[k]) + 1 /\ g[k][Len(h[k]) + 1] = << >>
      /\ \A m \in 1 .. Len(h[k]) : g[k][m] = h[k][m]
  <2>1. /\ Len(Append(h[k], << >>)) = Len(h[k]) + 1 /\ Append(h[k], << >>)[Len(h[k]) + 1] = << >>
        /\ \A m \in 1 .. Len(h[k]) : Append(h[k], << >>)[m] = h[k][m]
    BY <1>1, NewList
  <2>2. g[k] = Append(h[k], << >>)
    BY <1>2
  <2> QED BY <2>1, <2>2
<1>4. \A m : m \in 1 .. Len(h[k]) + 1 <=> m \in 1 .. Len(h[k]) \/ m = Len(h[k]) + 1
  BY <1>1
<1>5. \A o : o \in Objects(g) <=> o \in Objects(h) \cup {<<k, Len(h[k]) + 1>>}
  <2> TAKE o
  <2>1. o \in Objects(g) <=> \E j \in Keys : \E m \in 1 .. Len(g[j]) : o = <<j, m>>
    BY DEF Objects
  <2>2. o \in Objects(h) <=> \E j \in Keys : \E m \in 1 .. Len(h[j]) : o = <<j, m>>
    BY DEF Objects
  <2>3. \A j \in Keys : j # k => Len(g[j]) = Len(h[j])
    BY <1>2
  <2> QED BY <1>3, <1>4, <2>1, <2>2, <2>3
<1>6. <<k, Len(h[k]) + 1>> \notin Objects(h)
  <2>1. Len(h[k]) + 1 \notin 1 .. Len(h[k])
    BY <1>1
  <2> QED BY <2>1 DEF Objects
<1>7. ASSUME NEW o \in Objects(h) PROVE At(g, o) = At(h, o)
  <2>0. PICK j \in Keys : \E m \in 1 .. Len(h[j]) : o = <<j, m>>
    BY ObjectFacts
  <2>1. PICK m \in 1 .. Len(h[j]) : o = <<j, m>>
    BY <2>0
  <2>2. g[j][m] = h[j][m]
    BY <1>2, <1>3
  <2> QED BY <2>1, <2>2 DEF At
<1>8. At(g, <<k, Len(h[k]) + 1>>) = << >>
  BY <1>3 DEF At
<1>9. Objects(g) = Objects(h) \cup {<<k, Len(h[k]) + 1>>}
  BY <1>5
<1> QED BY <1>1, <1>6, <1>7, <1>8, <1>9

\* The list object a handler holds.
LEMMA HoldsObject ==
  ASSUME TypeInv, NEW c \in Clients, pc[c] \in {"push", "pop", "len"}
  PROVE  /\ heap \in Heaps /\ Key(c) \in Keys /\ ref[c] \in 1 .. Len(heap[Key(c)])
         /\ <<Key(c), ref[c]>> \in Objects(heap) /\ At(heap, <<Key(c), ref[c]>>) = Held(c)
         /\ Held(c) \in Seq(Items) /\ call[c].vals \in Seq(Items)
<1>1. /\ heap \in Heaps /\ Key(c) \in Keys /\ ref[c] \in 1 .. Len(heap[Key(c)])
      /\ Held(c) \in Seq(Items) /\ call[c].vals \in Seq(Items)
  BY HeldTyped DEF TypeInv, Types
<1> QED BY <1>1, ObjectFacts DEF Held

-----------------------------------------------------------------------------
(* An element is at one place.                                             *)

\* A step leaves the pushes under way as they are, or takes one further; only
\* IssuePush adds one.
LEMMA PendingStays ==
  ASSUME TypeInv, [Next]_vars, \A c \in Clients : ~IssuePush(c)
  PROVE  \A d \in Clients : Pending(d)' => Pending(d) /\ call'[d] = call[d] /\ ki'[d] = ki[d]
<1> USE DEF Pending
<1>1. Types
  BY DEF TypeInv
<1>2. ASSUME NEW c \in Clients, Issue(c) \/ Step(c) \/ Advance(c) \/ TimerFires(c),
             Pending(c)' => Pending(c) /\ call'[c] = call[c] /\ ki'[c] = ki[c]
      PROVE  \A d \in Clients : Pending(d)' => Pending(d) /\ call'[d] = call[d] /\ ki'[d] = ki[d]
  BY <1>1, <1>2, OthersStay
<1>3. ASSUME NEW c \in Clients, Issue(c) PROVE ~Pending(c)'
  <2>1. ASSUME NEW f, NEW step \in {"find", "delete"}, Start(c, f, step) PROVE ~Pending(c)'
    BY <1>1, <2>1 DEF Start, Types
  <2> QED BY <1>3, <2>1 DEF Issue, IssuePop, IssueBlockingPop, IssueLRem, IssueDel
<1>4. ASSUME NEW c \in Clients, GetOrCreateList(c)
      PROVE  Pending(c) /\ call'[c] = call[c] /\ ki'[c] = ki[c]
  BY <1>4 DEF GetOrCreateList
<1>5. ASSUME NEW c \in Clients, Miss(c) \/ Return(c) \/ Restart(c) PROVE ~Pending(c)'
  BY <1>1, <1>5 DEF Miss, Return, Restart, Goto, Types
<1>6. ASSUME NEW c \in Clients,
             Push(c) \/ SignalListPush(c) \/ GetList(c) \/ Pop(c) \/ Rem(c) \/ CheckLen(c)
      PROVE  ~Pending(c)'
  BY <1>1, <1>5, <1>6 DEF Push, SignalListPush, GetList, Pop, Rem, CheckLen, Goto, Types, Broadcast
<1>7. ASSUME NEW c \in Clients,
             Unlink(c) \/ DeleteKey(c) \/ CheckDeadline(c) \/ WaitForListSignal(c) \/ WaitReturns(c)
      PROVE  ~Pending(c)'
  BY <1>1, <1>5, <1>7 DEF Unlink, DeleteKey, CheckDeadline, WaitForListSignal, WaitReturns, Goto, Types
<1>8. ASSUME NEW c \in Clients, Advance(c) \/ TimerFires(c)
      PROVE  Pending(c)' => Pending(c) /\ call'[c] = call[c] /\ ki'[c] = ki[c]
  BY <1>8 DEF Advance, TimerFires, callVars
<1>9. ASSUME NEW c \in Clients, Issue(c) \/ Step(c) \/ Advance(c) \/ TimerFires(c)
      PROVE  \A d \in Clients : Pending(d)' => Pending(d) /\ call'[d] = call[d] /\ ki'[d] = ki[d]
  <2>1. CASE Step(c)
    <3> HIDE DEF Pending
    <3>1. Pending(c)' => Pending(c) /\ call'[c] = call[c] /\ ki'[c] = ki[c]
      BY <2>1, <1>4, <1>6, <1>7 DEF Step
    <3> QED BY <1>2, <2>1, <3>1
  <2> HIDE DEF Pending
  <2> QED BY <1>2, <1>3, <1>8, <1>9, <2>1
<1>10. CASE TimerCallback
  BY <1>10 DEF TimerCallback, Broadcast, callVars
<1>11. CASE UNCHANGED vars
  BY <1>11 DEF vars, callVars
<1> HIDE DEF Pending
<1> QED BY <1>9, <1>10, <1>11 DEF Next

\* A step that moves no element.
LEMMA OnceFrame ==
  ASSUME OnceInv, UNCHANGED <<heap, issued, popped>>,
         \A d \in Clients : Pending(d)' => Pending(d) /\ call'[d] = call[d]
  PROVE  OnceInv'
<1>1. ListsAreDisjoint' /\ \A x \in popped' : x \in 1 .. issued'
  BY DEF OnceInv, ListsAreDisjoint, Alive
<1>2. \A d \in Clients : Pending(d)' => Pending(d) /\ New(d)' = New(d) /\ call'[d] = call[d]
  BY DEF New
<1>3. \A x : Alive(x)' <=> Alive(x)
  BY DEF Alive
<1>4. PendingIsNew'
  BY <1>2, <1>3 DEF OnceInv, PendingIsNew
<1> QED BY <1>1, <1>4 DEF OnceInv

\* A new push: its elements come after all that were issued.
LEMMA IssuePushOnce ==
  ASSUME TypeInv, OnceInv, NEW c \in Clients, IssuePush(c)
  PROVE  OnceInv'
<1>1. PICK name \in Pushes, k \in Keys, n \in Batches :
        /\ Start(c, Frame(name, <<k>>, NextItems(n), FALSE), "create")
        /\ issued' = issued + n
  BY DEF IssuePush
<1>2. /\ n \in Nat \ {0} /\ issued \in Nat /\ Types
  BY ConstantsAssumption DEF TypeInv, Ghosts
<1>3. /\ heap' = heap /\ popped' = popped
      /\ pc' = [pc EXCEPT ![c] = "create"]
      /\ call' = [call EXCEPT ![c] = Frame(name, <<k>>, NextItems(n), FALSE)]
  BY <1>1 DEF Start, storeVars
<1>4. /\ \A d \in Clients : d # c => call'[d] = call[d] /\ pc'[d] = pc[d]
      /\ call'[c].vals = NextItems(n) /\ pc'[c] = "create"
  BY <1>2, <1>3 DEF Types, Frame
<1>5. /\ NextItems(n) \in Seq(Nat) /\ Len(NextItems(n)) = n
      /\ \A i \in 1 .. n : NextItems(n)[i] = issued + i
  BY <1>2 DEF NextItems
<1>6. /\ Distinct(NextItems(n))
      /\ \A x \in Elements(NextItems(n)) : x \in 1 .. issued' /\ x \notin 1 .. issued
  BY <1>1, <1>2, <1>5 DEF Distinct, Elements
<1>7. \A x : (Alive(x) => Alive(x)' /\ x \in 1 .. issued) /\ (x \in 1 .. issued => x \in 1 .. issued')
  BY <1>1, <1>2, <1>3 DEF Alive
<1>8. \A x \in Elements(NextItems(n)) : Alive(x)'
  BY <1>3, <1>6 DEF Alive, OnceInv
<1>9. ListsAreDisjoint' /\ \A x \in popped' : x \in 1 .. issued'
  BY <1>3, <1>7 DEF OnceInv, ListsAreDisjoint
<1>10. /\ New(c)' = Elements(NextItems(n))
       /\ \A d \in Clients : d # c => New(d)' = New(d) /\ (Pending(d)' <=> Pending(d))
  BY <1>4 DEF New, Pending
<1>11. \A x \in New(c)' : \A o \in Objects(heap) : x \notin Elements(At(heap, o))
  BY <1>6, <1>7, <1>10 DEF OnceInv, ListsAreDisjoint
<1>12. \A d \in Clients : d # c /\ Pending(d) => \A x \in New(d) : x \in 1 .. issued
  BY <1>7 DEF OnceInv, PendingIsNew
<1>13. ASSUME NEW d \in Clients, Pending(d)'
       PROVE  /\ Distinct(call'[d].vals) /\ \A x \in New(d)' : Alive(x)'
              /\ \A x \in New(d)' : \A o \in Objects(heap) : x \notin Elements(At(heap, o))
  <2>1. CASE d = c
    BY <1>4, <1>6, <1>8, <1>10, <1>11, <2>1
  <2>2. CASE d # c
    BY <1>4, <1>7, <1>10, <1>13, <2>2 DEF OnceInv, PendingIsNew
  <2> QED BY <2>1, <2>2
<1>14. ASSUME NEW b \in Clients, NEW d \in Clients, Pending(b)', Pending(d)',
              NEW x \in New(b)', x \in New(d)'
       PROVE  b = d
  BY <1>6, <1>10, <1>12, <1>14 DEF OnceInv, PendingIsNew
<1>15. PendingIsNew'
  BY <1>3, <1>13, <1>14 DEF PendingIsNew
<1> QED BY <1>9, <1>15 DEF OnceInv

\* A new list is empty.
LEMMA CreateOnce ==
  ASSUME TypeInv, OnceInv, NEW c \in Clients, GetOrCreateList(c), Lists[Key(c)] = Absent,
         \A d \in Clients : Pending(d)' => Pending(d) /\ call'[d] = call[d]
  PROVE  OnceInv'
<1>1. /\ Extended(heap', heap, Key(c))
      /\ UNCHANGED <<issued, popped>> /\ heap \in Heaps /\ Key(c) \in Keys
  BY HeldTyped DEF GetOrCreateList, ghostVars, TypeInv, Types, Extended
<1>2. \A o \in Objects(heap') : \/ o \in Objects(heap) /\ At(heap', o) = At(heap, o)
                                \/ At(heap', o) = << >>
  <2> DEFINE n == <<Key(c), Len(heap[Key(c)]) + 1>>
  <2>1. /\ Objects(heap') = Objects(heap) \cup {n} /\ At(heap', n) = << >>
        /\ \A o \in Objects(heap) : At(heap', o) = At(heap, o)
    BY <1>1, NewFacts
  <2> HIDE DEF n
  <2> QED BY <2>1
<1>3. Distinct(<< >>) /\ \A x : x \notin Elements(<< >>)
  BY DEF Distinct, Elements
<1>4. \A d \in Clients : Pending(d)' => Pending(d) /\ New(d)' = New(d) /\ call'[d] = call[d]
  BY DEF New
<1>5. \A x : Alive(x)' <=> Alive(x)
  BY <1>1 DEF Alive
<1>6. ListsAreDisjoint'
  BY <1>2, <1>3, <1>5 DEF OnceInv, ListsAreDisjoint
<1>7. PendingIsNew'
  BY <1>2, <1>3, <1>4, <1>5 DEF OnceInv, PendingIsNew
<1> QED BY <1>1, <1>6, <1>7 DEF OnceInv

\* The elements of a push are put into the list object that its handler holds.
LEMMA PushFills ==
  ASSUME TypeInv, OnceInv, NEW c \in Clients, Push(c)
  PROVE  LET o == <<Key(c), ref[c]>>
         IN  /\ Pending(c) /\ ~Pending(c)' /\ UNCHANGED <<Lists, call, issued, popped, ahead>>
             /\ o \in Objects(heap) /\ Objects(heap') = Objects(heap)
             /\ Distinct(At(heap', o))
             /\ \A x \in Elements(At(heap', o)) : x \in Elements(At(heap, o)) \/ x \in New(c)
             /\ \A p \in Objects(heap) : p # o => At(heap', p) = At(heap, p)
             /\ call[c].cmd # "LPUSH" => At(heap', o) = At(heap, o) \o call[c].vals
             /\ At(heap, o) \in Seq(Items) /\ call[c].vals \in Seq(Items)
<1> DEFINE k == Key(c)
           l == ref[c]
           v == call[c].vals
           s == At(heap, <<k, l>>)
           e == IF call[c].cmd = "LPUSH" THEN LPush(s, v) ELSE RPush(s, v)
<1>1. /\ pc[c] = "push" /\ UNCHANGED <<Lists, call, issued, popped, ahead>>
      /\ pc' = [pc EXCEPT ![c] = "signal"]
      /\ heap' = [heap EXCEPT ![k][l] = IF call[c].cmd = "LPUSH" THEN LPush(Held(c), v)
                                                                 ELSE RPush(Held(c), v)]
  BY DEF Push, Held, ghostVars, callVars, Goto
<1>2. /\ heap \in Heaps /\ k \in Keys /\ l \in 1 .. Len(heap[k]) /\ <<k, l>> \in Objects(heap)
      /\ s = Held(c) /\ s \in Seq(Items) /\ v \in Seq(Items)
  BY <1>1, HoldsObject
<1>3. Pending(c) /\ ~Pending(c)'
  BY <1>1 DEF Pending, TypeInv, Types
<1>4. Edited(heap', heap, k, l, e)
  BY <1>1, <1>2 DEF Edited
<1>5. Distinct(s) /\ Distinct(v) /\ \A x \in Elements(v) : x \notin Elements(s)
  <2> HIDE DEF k, l
  <2> QED BY <1>2, <1>3 DEF OnceInv, ListsAreDisjoint, PendingIsNew, New
<1> HIDE DEF k, l, s, v
<1>6. /\ LPush(s, v) \in Seq(Items) /\ Distinct(LPush(s, v))
      /\ RPush(s, v) \in Seq(Items) /\ Distinct(RPush(s, v))
  BY <1>2, <1>5, PushIsDistinct
<1>7. /\ Elements(LPush(s, v)) \subseteq Elements(s) \cup Elements(v)
      /\ Elements(RPush(s, v)) \subseteq Elements(s) \cup Elements(v)
  BY <1>2, PushFacts
<1>8. e \in Seq(Items) /\ Distinct(e) /\ \A x \in Elements(e) : x \in Elements(s) \/ x \in Elements(v)
  BY <1>6, <1>7
<1>9. call[c].cmd # "LPUSH" => e = s \o v
  BY DEF RPush
<1> HIDE DEF e
<1>10. /\ Objects(heap') = Objects(heap) /\ At(heap', <<k, l>>) = e
       /\ \A p \in Objects(heap) : p # <<k, l>> => At(heap', p) = At(heap, p)
  BY <1>2, <1>4, <1>8, EditFacts
<1> QED BY <1>1, <1>2, <1>3, <1>8, <1>9, <1>10 DEF New, k, l, s, v

\* So every element is still at one place.
LEMMA PushOnce ==
  ASSUME TypeInv, OnceInv, NEW c \in Clients, Push(c),
         \A d \in Clients : Pending(d)' => Pending(d) /\ call'[d] = call[d]
  PROVE  OnceInv'
<1> DEFINE o == <<Key(c), ref[c]>>
<1>1. /\ Pending(c) /\ ~Pending(c)' /\ UNCHANGED <<issued, popped>>
      /\ o \in Objects(heap) /\ Objects(heap') = Objects(heap)
      /\ Distinct(At(heap', o))
      /\ \A x \in Elements(At(heap', o)) : x \in Elements(At(heap, o)) \/ x \in New(c)
      /\ \A p \in Objects(heap) : p # o => At(heap', p) = At(heap, p)
  BY PushFills
<1> HIDE DEF o
<1>2. \A x : Alive(x)' <=> Alive(x)
  BY <1>1 DEF Alive
<1>3. /\ \A x \in New(c) : Alive(x)
      /\ \A x \in New(c) : \A p \in Objects(heap) : x \notin Elements(At(heap, p))
  BY <1>1 DEF OnceInv, PendingIsNew
<1>4. \A p \in Objects(heap) : \A x \in Elements(At(heap', p)) :
        x \in Elements(At(heap, p)) \/ (x \in New(c) /\ p = o)
  BY <1>1
<1>5. ListsAreDisjoint'
  <2>1. \A p \in Objects(heap) : Distinct(At(heap', p))
    BY <1>1 DEF OnceInv, ListsAreDisjoint
  <2>2. \A p \in Objects(heap) : \A x \in Elements(At(heap', p)) : Alive(x)'
    BY <1>2, <1>3, <1>4 DEF OnceInv, ListsAreDisjoint
  <2>3. ASSUME NEW p \in Objects(heap), NEW q \in Objects(heap),
               NEW x \in Elements(At(heap', p)), x \in Elements(At(heap', q))
        PROVE  p = q
    BY <1>3, <1>4, <2>3 DEF OnceInv, ListsAreDisjoint
  <2> QED BY <1>1, <2>1, <2>2, <2>3 DEF ListsAreDisjoint
<1>6. \A d \in Clients : Pending(d)' =>
        Pending(d) /\ New(d)' = New(d) /\ call'[d] = call[d] /\ d # c
  BY <1>1 DEF New
<1>7. PendingIsNew'
  <2>1. ASSUME NEW d \in Clients, Pending(d)', NEW x \in New(d)', NEW p \in Objects(heap)
        PROVE  x \notin Elements(At(heap', p))
    <3>1. x \notin New(c) /\ x \notin Elements(At(heap, p))
      BY <1>1, <1>6, <2>1 DEF OnceInv, PendingIsNew
    <3> QED BY <1>4, <3>1
  <2> QED BY <1>1, <1>2, <1>6, <2>1 DEF OnceInv, PendingIsNew
<1> QED BY <1>1, <1>5, <1>7 DEF OnceInv

\* What a pop or LREM of c does: v goes out of the list object o and e is left.
Takes(c, o, v, e) ==
  /\ o \in Objects(heap) /\ v \in Elements(At(heap, o))
  /\ Objects(heap') = Objects(heap) /\ At(heap', o) = e
  /\ \A p \in Objects(heap) : p # o => At(heap', p) = At(heap, p)
  /\ Distinct(e) /\ v \notin Elements(e) /\ \A x \in Elements(e) : x \in Elements(At(heap, o))
  /\ \A a, i : Precedes(At(heap, o), a, i) => Precedes(e, a, i)
  /\ UNCHANGED <<Lists, issued, ahead>>
  /\ popped' = popped \/ popped' = popped \cup {v}

\* Every step of a pop or an LREM that shortens the list it holds is of that form.
LEMMA TakeFacts ==
  ASSUME TypeInv, OnceInv, NEW c \in Clients, pc[c] = "pop",
         NEW i \in 1 .. Len(Held(c)), NEW e \in Seq(Items), OneLess(Held(c), e, i),
         Edited(heap', heap, Key(c), ref[c], e), UNCHANGED <<Lists, issued, ahead>>,
         popped' = popped \/ popped' = popped \cup {Held(c)[i]}
  PROVE  Takes(c, <<Key(c), ref[c]>>, Held(c)[i], e)
<1> DEFINE k == Key(c)
           l == ref[c]
           s == Held(c)
<1>1. /\ heap \in Heaps /\ k \in Keys /\ l \in 1 .. Len(heap[k]) /\ <<k, l>> \in Objects(heap)
      /\ At(heap, <<k, l>>) = s /\ s \in Seq(Items)
  BY HoldsObject
<1>2. Edited(heap', heap, k, l, e) /\ i \in 1 .. Len(s) /\ OneLess(s, e, i)
  OBVIOUS
<1>3. popped' = popped \/ popped' = popped \cup {s[i]}
  OBVIOUS
<1> HIDE DEF k, l, s
<1>4. Distinct(s)
  BY <1>1 DEF OnceInv, ListsAreDisjoint
<1>5. /\ Distinct(e) /\ s[i] \notin Elements(e) /\ \A x \in Elements(e) : x \in Elements(s)
      /\ \A a, b : Precedes(s, a, b) => Precedes(e, a, b)
  BY <1>1, <1>2, <1>4, OneLessFacts
<1>6. s[i] \in Elements(s)
  BY <1>2 DEF Elements
<1>7. /\ Objects(heap') = Objects(heap) /\ At(heap', <<k, l>>) = e
      /\ \A p \in Objects(heap) : p # <<k, l>> => At(heap', p) = At(heap, p)
  BY <1>1, <1>2, EditFacts
<1> QED BY <1>1, <1>3, <1>5, <1>6, <1>7 DEF Takes, k, l, s

\* A pop that finds an element and an LREM that finds its value take it; else they
\* leave the lists alone.
LEMMA PopTakes ==
  ASSUME TypeInv, OnceInv, NEW c \in Clients, Pop(c) \/ Rem(c)
  PROVE  \/ UNCHANGED <<heap, Lists, issued, popped, ahead>>
         \/ \E v, e : /\ Takes(c, <<Key(c), ref[c]>>, v, e)
                      /\ Pop(c) /\ call[c].cmd \in {"LPOP", "BLPOP"} => v = Held(c)[1]
                      /\ Rem(c) => popped' = popped
<1>0. pc[c] = "pop" /\ UNCHANGED <<Lists, issued, ahead>>
  BY DEF Pop, Rem, ghostVars
<1>1. Held(c) \in Seq(Items)
  BY <1>0, HoldsObject
<1>2. CASE Pop(c)
  <2>1. CASE Held(c) = << >>
    BY <1>0, <1>2, <2>1 DEF Pop
  <2>2. CASE Held(c) # << >>
    <3> DEFINE head == call[c].cmd \in {"LPOP", "BLPOP"}
               i == IF head THEN 1 ELSE Len(Held(c))
               e == IF head THEN LPop(Held(c)).rest ELSE RPop(Held(c)).rest
               v == Held(c)[i]
    <3>1. /\ heap' = [heap EXCEPT ![Key(c)][ref[c]] = (IF head THEN LPop(Held(c)) ELSE RPop(Held(c))).rest]
          /\ popped' = popped \cup {(IF head THEN LPop(Held(c)) ELSE RPop(Held(c))).value}
          /\ ~Rem(c)
      BY <1>2, <2>2 DEF Pop, Rem
    <3>2. /\ i \in 1 .. Len(Held(c)) /\ e \in Seq(Items) /\ OneLess(Held(c), e, i)
          /\ (IF head THEN LPop(Held(c)) ELSE RPop(Held(c))).value = v
          /\ (IF head THEN LPop(Held(c)) ELSE RPop(Held(c))).rest = e
      BY <1>1, <2>2, PopTakesOne
    <3>3. Edited(heap', heap, Key(c), ref[c], e) /\ popped' = popped \cup {v}
      BY <3>1, <3>2 DEF Edited
    <3>4. head => v = Held(c)[1]
      OBVIOUS
    <3> HIDE DEF e, i, head
    <3>5. Takes(c, <<Key(c), ref[c]>>, v, e)
      BY <1>0, <3>2, <3>3, TakeFacts
    <3> HIDE DEF v
    <3> QED BY <3>1, <3>4, <3>5 DEF head
  <2> QED BY <2>1, <2>2
<1>3. CASE Rem(c)
  <2>1. popped' = popped /\ ~Pop(c)
    BY <1>3 DEF Rem, Pop, ghostVars
  <2>2. CASE heap' = heap
    BY <1>0, <2>1, <2>2
  <2>3. CASE heap' # heap
    <3>1. PICK i \in 1 .. Len(Held(c)) :
            Edited(heap', heap, Key(c), ref[c], RemoveAt(Held(c), i))
      BY <1>3, <2>3 DEF Rem, Held, Edited
    <3>2. RemoveAt(Held(c), i) \in Seq(Items) /\ OneLess(Held(c), RemoveAt(Held(c), i), i)
      BY <1>1, RemoveTakesOne
    <3>3. Takes(c, <<Key(c), ref[c]>>, Held(c)[i], RemoveAt(Held(c), i))
      BY <1>0, <2>1, <3>1, <3>2, TakeFacts
    <3> QED BY <2>1, <3>3
  <2> QED BY <2>2, <2>3
<1> QED BY <1>2, <1>3

\* Taking an element out leaves the others where they are.
LEMMA TakeOnce ==
  ASSUME TypeInv, OnceInv, NEW c \in Clients, NEW o, NEW v, NEW e, Takes(c, o, v, e),
         \A d \in Clients : Pending(d)' => Pending(d) /\ call'[d] = call[d]
  PROVE  OnceInv'
<1>1. /\ o \in Objects(heap) /\ Objects(heap') = Objects(heap)
      /\ v \in Elements(At(heap, o)) /\ issued' = issued
      /\ popped' = popped \/ popped' = popped \cup {v}
  BY DEF Takes
<1>2. \A p \in Objects(heap) : /\ Distinct(At(heap', p))
                               /\ \A x \in Elements(At(heap', p)) : x \in Elements(At(heap, p)) /\ x # v
  BY DEF Takes, OnceInv, ListsAreDisjoint
<1>3. Alive(v)
  BY <1>1 DEF OnceInv, ListsAreDisjoint
<1>4. \A x : Alive(x) /\ x # v => Alive(x)'
  BY <1>1 DEF Alive
<1>5. ListsAreDisjoint'
  <2>1. \A p \in Objects(heap) : \A x \in Elements(At(heap', p)) : Alive(x)'
    BY <1>2, <1>4 DEF OnceInv, ListsAreDisjoint
  <2> QED BY <1>1, <1>2, <2>1 DEF OnceInv, ListsAreDisjoint
<1>6. \A d \in Clients : Pending(d)' => /\ Pending(d) /\ New(d)' = New(d) /\ call'[d] = call[d]
                                        /\ v \notin New(d)
  BY <1>1 DEF New, OnceInv, PendingIsNew
<1>7. PendingIsNew'
  BY <1>1, <1>2, <1>4, <1>6 DEF OnceInv, PendingIsNew
<1>8. \A x \in popped' : x \in 1 .. issued'
  BY <1>1, <1>3 DEF OnceInv, Alive
<1> QED BY <1>5, <1>7, <1>8 DEF OnceInv

\* A step that leaves the elements where they are, and lists linked or not.
Quiet ==
  /\ UNCHANGED <<heap, issued, popped, ahead>>
  /\ \A k \in Keys : Lists'[k] \in {Absent, Lists[k]}

\* All the steps, by what they do to lists and elements.
LEMMA StepKinds ==
  ASSUME TypeInv, [Next]_vars
  PROVE  \/ Quiet
         \/ \E c \in Clients : \/ IssuePush(c) \/ Push(c) \/ Pop(c) \/ Rem(c)
                               \/ GetOrCreateList(c) /\ Lists[Key(c)] = Absent
<1>1. Types /\ Handlers
  BY DEF TypeInv
<1>2. ASSUME NEW c \in Clients, IssuePop(c) \/ IssueBlockingPop(c) \/ IssueLRem(c) \/ IssueDel(c)
      PROVE  Quiet
  <2>1. UNCHANGED <<heap, Lists, issued, popped, ahead>>
    BY <1>2 DEF IssuePop, IssueBlockingPop, IssueLRem, IssueDel, Start, storeVars
  <2> QED BY <2>1 DEF Quiet
<1>3. ASSUME NEW c \in Clients, GetOrCreateList(c), Lists[Key(c)] # Absent PROVE Quiet
  <2>1. UNCHANGED <<heap, Lists, issued, popped, ahead>>
    BY <1>3 DEF GetOrCreateList, storeVars, ghostVars
  <2> QED BY <2>1 DEF Quiet
<1>4. ASSUME NEW c \in Clients, SignalListPush(c) \/ GetList(c) \/ CheckLen(c) \/ CheckDeadline(c)
      PROVE  Quiet
  <2>1. UNCHANGED <<heap, Lists, issued, popped, ahead>>
    BY <1>4 DEF SignalListPush, GetList, CheckLen, CheckDeadline, storeVars, ghostVars
  <2> QED BY <2>1 DEF Quiet
<1>5. ASSUME NEW c \in Clients,
             WaitForListSignal(c) \/ WaitReturns(c) \/ Advance(c) \/ TimerFires(c)
      PROVE  Quiet
  <2>1. UNCHANGED <<heap, Lists, issued, popped, ahead>>
    BY <1>5 DEF WaitForListSignal, WaitReturns, Advance, TimerFires, storeVars, ghostVars
  <2> QED BY <2>1 DEF Quiet
<1>6. ASSUME NEW c \in Clients, Unlink(c) \/ DeleteKey(c) PROVE Quiet
  <2>1. /\ UNCHANGED <<heap, issued, popped, ahead>>
        /\ Lists' = [Lists EXCEPT ![Key(c)] = Absent]
    BY <1>6 DEF Unlink, DeleteKey, ghostVars
  <2> QED BY <1>1, <2>1 DEF Quiet, Types
<1>7. ASSUME TimerCallback \/ UNCHANGED vars PROVE Quiet
  <2>1. UNCHANGED <<heap, Lists, issued, popped, ahead>>
    BY <1>7 DEF TimerCallback, vars, storeVars, ghostVars
  <2> QED BY <2>1 DEF Quiet
<1>8. ASSUME NEW c \in Clients, Issue(c) \/ Step(c) \/ Advance(c) \/ TimerFires(c), ~Quiet
      PROVE  \/ IssuePush(c) \/ Push(c) \/ Pop(c) \/ Rem(c)
             \/ GetOrCreateList(c) /\ Lists[Key(c)] = Absent
  BY <1>2, <1>3, <1>4, <1>5, <1>6, <1>8 DEF Issue, Step
<1> QED BY <1>7, <1>8 DEF Next

\* The invariant on where elements are is inductive.
LEMMA OnceStep ==
  ASSUME TypeInv, OnceInv, [Next]_vars
  PROVE  OnceInv'
<1>1. CASE \E c \in Clients : IssuePush(c)
  BY <1>1, IssuePushOnce
<1>2. CASE \A c \in Clients : ~IssuePush(c)
  <2>1. \A d \in Clients : Pending(d)' => Pending(d) /\ call'[d] = call[d]
    BY <1>2, PendingStays
  <2>2. CASE UNCHANGED <<heap, issued, popped>>
    BY <2>1, <2>2, OnceFrame
  <2>3. CASE \E c \in Clients : GetOrCreateList(c) /\ Lists[Key(c)] = Absent
    BY <2>1, <2>3, CreateOnce
  <2>4. CASE \E c \in Clients : Push(c)
    BY <2>1, <2>4, PushOnce
  <2>5. ASSUME NEW c \in Clients, Pop(c) \/ Rem(c) PROVE OnceInv'
    <3>1. CASE UNCHANGED <<heap, Lists, issued, popped, ahead>>
      BY <2>2, <3>1
    <3>2. CASE \E v, e : Takes(c, <<Key(c), ref[c]>>, v, e)
      BY <2>1, <3>2, TakeOnce
    <3> QED BY <2>5, <3>1, <3>2, PopTakes
  <2> QED BY <1>2, <2>2, <2>3, <2>4, <2>5, StepKinds DEF Quiet
<1> QED BY <1>1, <1>2

\* In every reachable state the invariant on where elements are holds.
LEMMA OnceInvariant == Spec => [](TypeInv /\ OnceInv)
<1>1. Init => OnceInv
  <2> SUFFICES ASSUME Init PROVE OnceInv
    OBVIOUS
  <2>1. /\ popped = {} /\ \A c \in Clients : ~Pending(c)
        /\ \A k \in Keys : heap[k] = << >>
    BY DEF Init, Pending
  <2>2. \A o : o \notin Objects(heap)
    BY <2>1 DEF Objects
  <2> QED BY <2>1, <2>2 DEF OnceInv, ListsAreDisjoint, PendingIsNew
<1>2. TypeInv /\ OnceInv /\ [Next]_vars => OnceInv'
  BY OnceStep
<1> QED BY <1>1, <1>2, TypeInvariant, PTL DEF Spec

\* The list objects of a state of ListStore, in the terms of NoElementTwice.
LEMMA PlacesAreObjects ==
  ASSUME TypeInv, NEW k \in Keys, NEW l \in DOMAIN heap[k], NEW i \in DOMAIN heap[k][l]
  PROVE  /\ <<k, l>> \in Objects(heap) /\ At(heap, <<k, l>>) = heap[k][l]
         /\ i \in 1 .. Len(heap[k][l]) /\ heap[k][l][i] \in Elements(heap[k][l])
<1>1. heap \in Heaps /\ heap[k] \in Seq(Seq(Items))
  BY DEF TypeInv, Types, Heaps
<1>2. l \in 1 .. Len(heap[k])
  BY <1>1
<1>3. <<k, l>> \in Objects(heap) /\ At(heap, <<k, l>>) = heap[k][l] /\ heap[k][l] \in Seq(Items)
  BY <1>1, <1>2, ObjectFacts
<1>4. i \in 1 .. Len(heap[k][l])
  BY <1>3
<1> QED BY <1>3, <1>4 DEF Elements

\* For any number of connections, keys and elements: an element is at one place of
\* one list object or was handed to one pop, never both, however pushes, pops and
\* LREM interleave between db.Mu and l.mu (list_commands.go:22-24, 138-158, 280-292).
THEOREM NoElementReturnedTwice == Spec => []NoElementTwice
<1>1. TypeInv /\ OnceInv => NoElementTwice
  <2> SUFFICES ASSUME TypeInv, OnceInv, NEW k1 \in Keys, NEW k2 \in Keys,
                      NEW l1 \in DOMAIN heap[k1], NEW l2 \in DOMAIN heap[k2],
                      NEW i1 \in DOMAIN heap[k1][l1], NEW i2 \in DOMAIN heap[k2][l2]
               PROVE  /\ heap[k1][l1][i1] \notin popped
                      /\ heap[k1][l1][i1] = heap[k2][l2][i2] => <<k1, l1, i1>> = <<k2, l2, i2>>
    BY DEF NoElementTwice
  <2> DEFINE s == heap[k1][l1]
             t == heap[k2][l2]
             o == <<k1, l1>>
             p == <<k2, l2>>
  <2>1. /\ o \in Objects(heap) /\ At(heap, o) = s /\ i1 \in 1 .. Len(s) /\ s[i1] \in Elements(s)
        /\ p \in Objects(heap) /\ At(heap, p) = t /\ i2 \in 1 .. Len(t) /\ t[i2] \in Elements(t)
    BY PlacesAreObjects
  <2>2. o = p => k1 = k2 /\ l1 = l2 /\ s = t
    OBVIOUS
  <2> HIDE DEF s, t, o, p
  <2>3. s[i1] \notin popped
    BY <2>1 DEF OnceInv, ListsAreDisjoint, Alive
  <2>4. ASSUME s[i1] = t[i2] PROVE k1 = k2 /\ l1 = l2 /\ i1 = i2
    <3>1. o = p
      BY <2>1, <2>4 DEF OnceInv, ListsAreDisjoint
    <3>2. Distinct(s)
      BY <2>1 DEF OnceInv, ListsAreDisjoint
    <3> QED BY <2>1, <2>2, <2>4, <3>1, <3>2 DEF Distinct
  <2> QED BY <2>3, <2>4 DEF s, t
<1> QED BY <1>1, OnceInvariant, PTL

\* A key gets its list back only as a new one: GetOrCreateList is the only place
\* that enters a list in db.Lists, and it enters the one it has just made
\* (database.go:231-244 GetOrCreateList, 306-337 DeleteKey).
THEOREM NoListComesBack == Spec => UnlinkedStaysUnlinked
<1>1. ASSUME TypeInv, [Next]_vars, NEW k \in Keys
      PROVE  Lists'[k] \in {Absent, Lists[k]} \/ Lists'[k] > Len(heap[k])
  <2>1. Lists \in [Keys -> Nat] /\ Len(heap[k]) \in Nat
    BY <1>1 DEF TypeInv, Types, Heaps
  <2>2. ASSUME NEW c \in Clients, IssuePush(c) \/ Push(c) \/ Pop(c) \/ Rem(c) PROVE Lists' = Lists
    BY <2>2 DEF IssuePush, Start, Push, Pop, Rem, storeVars
  <2>3. ASSUME NEW c \in Clients, GetOrCreateList(c), Lists[Key(c)] = Absent
        PROVE  Lists' = [Lists EXCEPT ![Key(c)] = Len(heap[Key(c)]) + 1]
    BY <2>3 DEF GetOrCreateList
  <2>4. ASSUME NEW c \in Clients, Lists' = [Lists EXCEPT ![Key(c)] = Len(heap[Key(c)]) + 1]
        PROVE  Lists'[k] = Lists[k] \/ Lists'[k] > Len(heap[k])
    BY <2>1, <2>4
  <2> QED BY <1>1, <2>2, <2>3, <2>4, StepKinds DEF Quiet
<1>2. TypeInv /\ [Next]_vars =>
        [\A k \in Keys : Lists'[k] \in {Absent, Lists[k]} \/ Lists'[k] > Len(heap[k])]_vars
  BY <1>1
<1> QED BY <1>2, TypeInvariant, PTL DEF Spec, UnlinkedStaysUnlinked

-----------------------------------------------------------------------------
(* A parked pop misses no push.                                            *)

\* Where a connection can park, and what happens to its view meanwhile: a step
\* that leaves it parked leaves the pushes that have yet to broadcast.
LEMMA ParkedStep ==
  ASSUME TypeInv, [Next]_vars, NEW c \in Clients, pc'[c] = "parked"
  PROVE  /\ \A d \in Clients : pc[d] = "signal" => pc'[d] = "signal" /\ call'[d] = call[d]
         /\ \/ pc[c] = "parked" /\ call'[c] = call[c] /\ unseen'[c] = unseen[c]
            \/ heap' = heap /\ Lists' = Lists /\ unseen'[c] = UNION {Reachable(k) : k \in Keys}
<1> DEFINE Signals == \A d \in Clients : pc[d] = "signal" => pc'[d] = "signal" /\ call'[d] = call[d]
           Stays   == pc[c] = "parked" /\ call'[c] = call[c] /\ unseen'[c] = unseen[c]
           Parks   == heap' = heap /\ Lists' = Lists /\ unseen'[c] = UNION {Reachable(k) : k \in Keys}
<1>1. Types /\ Ghosts
  BY DEF TypeInv
<1>2. ASSUME NEW b \in Clients, Issue(b) \/ Step(b) \/ Advance(b) \/ TimerFires(b)
      PROVE  \A d \in Clients \ {b} :
               /\ pc'[d] # pc[d] => pc'[d] = "woken" /\ pc[d] = "parked"
               /\ call'[d] = call[d]
  BY <1>1, <1>2, OthersStay
<1>3. ASSUME NEW b \in Clients, Issue(b) \/ Step(b) \/ Advance(b) \/ TimerFires(b),
             pc[b] = "signal" => pc'[b] = "signal" /\ call'[b] = call[b]
      PROVE  Signals
  BY <1>2, <1>3
<1>4. ASSUME NEW b \in Clients, Issue(b) \/ Step(b) \/ Advance(b) \/ TimerFires(b), pc'[b] # "parked",
             unseen' = unseen \/ unseen' = [unseen EXCEPT ![b] = {}]
      PROVE  Stays
  <2>1. c # b
    BY <1>4
  <2>2. unseen'[c] = unseen[c]
    BY <1>1, <1>4, <2>1 DEF Ghosts
  <2> QED BY <1>2, <1>4, <2>1, <2>2
<1>5. ASSUME NEW b \in Clients, Issue(b) PROVE Signals /\ Stays
  <2>1. ASSUME NEW f, NEW step \in {"create", "find", "delete"}, Start(b, f, step)
        PROVE  pc[b] = "idle" /\ pc'[b] # "parked" /\ unseen' = unseen
    BY <1>1, <2>1 DEF Start, Types
  <2>2. pc[b] = "idle" /\ pc'[b] # "parked" /\ unseen' = unseen
    BY <1>5, <2>1 DEF Issue, IssuePush, IssuePop, IssueBlockingPop, IssueLRem, IssueDel
  <2> QED BY <1>3, <1>4, <1>5, <2>2
<1>6. ASSUME NEW b \in Clients, Miss(b) \/ Return(b) \/ Restart(b) PROVE pc'[b] # "parked"
  BY <1>1, <1>6 DEF Miss, Return, Restart, Goto, Types
<1>7. ASSUME NEW b \in Clients, GetOrCreateList(b) \/ Push(b) \/ GetList(b) \/ Pop(b) \/ Rem(b)
      PROVE  pc[b] # "signal" /\ pc'[b] # "parked" /\ unseen' = unseen
  BY <1>1, <1>6, <1>7 DEF GetOrCreateList, Push, GetList, Pop, Rem, Goto, Types, ghostVars
<1>8. ASSUME NEW b \in Clients, CheckLen(b) \/ Unlink(b) \/ DeleteKey(b) \/ CheckDeadline(b)
      PROVE  pc[b] # "signal" /\ pc'[b] # "parked" /\ unseen' = unseen
  BY <1>1, <1>6, <1>8 DEF CheckLen, Unlink, DeleteKey, CheckDeadline, Goto, Types, ghostVars
<1>9. ASSUME NEW b \in Clients, WaitReturns(b)
      PROVE  /\ pc[b] # "signal" /\ pc'[b] # "parked"
             /\ unseen' = [unseen EXCEPT ![b] = {}]
  BY <1>6, <1>9 DEF WaitReturns
<1>10. ASSUME NEW b \in Clients, WaitForListSignal(b) PROVE Signals /\ (Stays \/ Parks)
  <2>1. pc[b] = "wait" /\ heap' = heap /\ Lists' = Lists
    BY <1>10 DEF WaitForListSignal, storeVars
  <2>2. CASE Restart(b) /\ unseen' = unseen
    BY <1>3, <1>4, <1>6, <1>10, <2>1, <2>2 DEF Step
  <2>3. CASE unseen' = [unseen EXCEPT ![b] = UNION {Reachable(k) : k \in Keys}]
    <3>1. CASE c = b
      BY <1>1, <1>3, <1>10, <2>1, <2>3, <3>1 DEF Step, Ghosts
    <3>2. CASE c # b
      <4>1. unseen'[c] = unseen[c]
        BY <1>1, <2>3, <3>2 DEF Ghosts
      <4> QED BY <1>2, <1>3, <1>10, <2>1, <3>2, <4>1 DEF Step
    <3> QED BY <3>1, <3>2
  <2> QED BY <1>10, <2>2, <2>3 DEF WaitForListSignal
<1>11. ASSUME NEW b \in Clients, SignalListPush(b) PROVE FALSE
  BY <1>1, <1>11 DEF SignalListPush, Broadcast, Types
<1>12. ASSUME TimerCallback PROVE FALSE
  BY <1>1, <1>12 DEF TimerCallback, Broadcast, Types
<1>13. ASSUME NEW b \in Clients, Advance(b) \/ TimerFires(b) PROVE Signals /\ Stays
  BY <1>13 DEF Advance, TimerFires, callVars, ghostVars
<1>14. ASSUME UNCHANGED vars PROVE Signals /\ Stays
  BY <1>14 DEF vars, callVars, ghostVars
<1> HIDE DEF Signals, Stays, Parks
<1>15. ASSUME NEW b \in Clients, Step(b) PROVE Signals /\ (Stays \/ Parks)
  BY <1>3, <1>4, <1>7, <1>8, <1>9, <1>10, <1>11, <1>15 DEF Step
<1>16. Signals /\ (Stays \/ Parks)
  BY <1>5, <1>12, <1>13, <1>14, <1>15 DEF Next
<1> QED BY <1>16 DEF Signals, Stays, Parks

\* The list that is linked to a key, as a list object.
LEMMA LinkedIsObject ==
  ASSUME NEW h \in Heaps, NEW k \in Keys, NEW l \in Nat, l # Absent, l <= Len(h[k])
  PROVE  <<k, l>> \in Objects(h) /\ At(h, <<k, l>>) = h[k][l]
<1>1. l \in 1 .. Len(h[k])
  BY DEF Absent, Heaps
<1> QED BY <1>1, ObjectFacts

\* What a lookup finds, before and after a step.
LEMMA ReachableIs ==
  ASSUME TypeInv, TypeInv', NEW k \in Keys
  PROVE  /\ Lists[k] # Absent => /\ <<k, Lists[k]>> \in Objects(heap)
                                 /\ Reachable(k) = Elements(At(heap, <<k, Lists[k]>>))
         /\ Lists'[k] # Absent => /\ <<k, Lists'[k]>> \in Objects(heap')
                                  /\ Reachable(k)' = Elements(At(heap', <<k, Lists'[k]>>))
         /\ \A x \in Reachable(k)' : Lists'[k] # Absent
         /\ \A x \in Reachable(k) : Lists[k] # Absent
<1>1. /\ heap \in Heaps /\ Lists[k] \in Nat /\ Lists[k] <= Len(heap[k])
      /\ heap' \in Heaps /\ Lists'[k] \in Nat /\ Lists'[k] <= Len(heap'[k])
  BY DEF TypeInv, Types, Linked
<1>2. Lists[k] # Absent => /\ <<k, Lists[k]>> \in Objects(heap)
                           /\ At(heap, <<k, Lists[k]>>) = heap[k][Lists[k]]
  BY <1>1, LinkedIsObject
<1>3. Lists'[k] # Absent => /\ <<k, Lists'[k]>> \in Objects(heap')
                            /\ At(heap', <<k, Lists'[k]>>) = heap'[k][Lists'[k]]
  BY <1>1, LinkedIsObject
<1> QED BY <1>2, <1>3 DEF Reachable

\* A step makes no element reachable, except a push the ones it puts in.
LEMMA ReachableGrows ==
  ASSUME TypeInv, TypeInv', OnceInv, [Next]_vars, NEW k \in Keys, NEW x \in Reachable(k)'
  PROVE  \/ x \in Reachable(k)
         \/ \E b \in Clients : Push(b) /\ x \in Elements(call[b].vals)
<1> DEFINE o == <<k, Lists'[k]>>
<1>1. /\ Lists'[k] # Absent /\ o \in Objects(heap') /\ x \in Elements(At(heap', o))
      /\ Lists'[k] = Lists[k] => o \in Objects(heap) /\ Reachable(k) = Elements(At(heap, o))
  BY ReachableIs
<1> HIDE DEF o
<1>2. CASE Quiet
  BY <1>1, <1>2 DEF Quiet
<1>3. ASSUME NEW c \in Clients, IssuePush(c) PROVE x \in Reachable(k)
  <2>1. heap' = heap /\ Lists' = Lists
    BY <1>3 DEF IssuePush, Start, storeVars
  <2> QED BY <1>1, <2>1
<1>4. ASSUME NEW c \in Clients, Push(c)
      PROVE  x \in Reachable(k) \/ x \in Elements(call[c].vals)
  <2> DEFINE p == <<Key(c), ref[c]>>
  <2>1. /\ Lists' = Lists /\ Objects(heap') = Objects(heap)
        /\ \A y \in Elements(At(heap', p)) : y \in Elements(At(heap, p)) \/ y \in New(c)
        /\ \A q \in Objects(heap) : q # p => At(heap', q) = At(heap, q)
    BY <1>4, PushFills
  <2> HIDE DEF p
  <2> QED BY <1>1, <2>1 DEF New
<1>5. ASSUME NEW c \in Clients, Pop(c) \/ Rem(c) PROVE x \in Reachable(k)
  <2>1. CASE UNCHANGED <<heap, Lists>>
    BY <1>1, <2>1
  <2>2. ASSUME NEW p, NEW v, NEW e, Takes(c, p, v, e) PROVE x \in Reachable(k)
    BY <1>1, <2>2 DEF Takes
  <2> QED BY <1>5, <2>1, <2>2, PopTakes
<1>6. ASSUME NEW c \in Clients, GetOrCreateList(c), Lists[Key(c)] = Absent PROVE x \in Reachable(k)
  <2> DEFINE n == Len(heap[Key(c)]) + 1
  <2>1. /\ Extended(heap', heap, Key(c)) /\ heap \in Heaps /\ Key(c) \in Keys
        /\ Lists' = [Lists EXCEPT ![Key(c)] = n] /\ Lists \in [Keys -> Nat]
    BY <1>6, HeldTyped DEF GetOrCreateList, TypeInv, Types, Extended
  <2>2. At(heap', <<Key(c), n>>) = << >> /\ \A q \in Objects(heap) : At(heap', q) = At(heap, q)
    BY <2>1, NewFacts
  <2>3. CASE k = Key(c)
    <3>1. o = <<Key(c), n>>
      BY <2>1, <2>3 DEF o
    <3>2. At(heap', o) = << >>
      BY <2>2, <3>1
    <3> QED BY <1>1, <3>2 DEF Elements
  <2>4. CASE k # Key(c)
    <3>1. Lists'[k] = Lists[k]
      BY <2>1, <2>4
    <3> QED BY <1>1, <2>2, <3>1
  <2> QED BY <2>3, <2>4
<1> QED BY <1>2, <1>3, <1>4, <1>5, <1>6, StepKinds

\* For any number of connections, keys and callbacks: while a blocking pop is
\* parked, every element of its lists was there when it parked or belongs to a push
\* whose broadcast is still to come (database.go:63-93 signalListPush, waitForListSignal).
THEOREM ParkedMissesNothing == Spec => []NoPushMissedWhileParked
<1>1. Init => NoPushMissedWhileParked
  BY DEF Init, NoPushMissedWhileParked
<1>2. ASSUME TypeInv, TypeInv', OnceInv, NoPushMissedWhileParked, [Next]_vars
      PROVE  NoPushMissedWhileParked'
  <2> SUFFICES ASSUME NEW c \in Clients, pc'[c] = "parked", NEW k \in Elements(call'[c].keys),
                      NEW x \in Reachable(k)', x \notin unseen'[c]
               PROVE  \E d \in Clients : pc'[d] = "signal" /\ x \in Elements(call'[d].vals)
    BY DEF NoPushMissedWhileParked
  <2>1. k \in Keys
    <3>1. call'[c].keys \in Seq(Keys)
      BY <1>2 DEF TypeInv, Types, Frames
    <3> QED BY <3>1, ElementsTyped
  <2>2. /\ \A d \in Clients : pc[d] = "signal" => pc'[d] = "signal" /\ call'[d] = call[d]
        /\ \/ pc[c] = "parked" /\ call'[c] = call[c] /\ unseen'[c] = unseen[c]
           \/ heap' = heap /\ Lists' = Lists /\ unseen'[c] = UNION {Reachable(j) : j \in Keys}
    BY <1>2, ParkedStep
  <2>3. CASE x \in Reachable(k)
    <3>1. CASE pc[c] = "parked" /\ call'[c] = call[c] /\ unseen'[c] = unseen[c]
      BY <1>2, <2>2, <2>3, <3>1 DEF NoPushMissedWhileParked
    <3>2. CASE unseen'[c] = UNION {Reachable(j) : j \in Keys}
      BY <2>1, <2>3, <3>2
    <3> QED BY <2>2, <3>1, <3>2
  <2>4. ASSUME NEW b \in Clients, Push(b), x \in Elements(call[b].vals)
        PROVE  pc'[b] = "signal" /\ x \in Elements(call'[b].vals)
    BY <1>2, <2>4 DEF Push, Goto, callVars, TypeInv, Types
  <2> QED BY <1>2, <2>1, <2>3, <2>4, ReachableGrows
<1>3. TypeInv /\ TypeInv' /\ OnceInv /\ NoPushMissedWhileParked /\ [Next]_vars
        => NoPushMissedWhileParked'
  BY <1>2
<1> QED BY <1>1, <1>3, OnceInvariant, PTL DEF Spec

-----------------------------------------------------------------------------
(* RPUSH and head pops only: an element is not overtaken.                  *)

\* A handler about to push holds the list it held before, or the one its key has.
LEMMA PushHolds ==
  ASSUME TypeInv, [Next]_vars, NEW d \in Clients, pc'[d] = "push"
  PROVE  \/ pc[d] = "push" /\ ref'[d] = ref[d]
         \/ GetOrCreateList(d) /\ ref'[d] = Lists'[Key(d)]
<1>1. Types /\ Handlers
  BY DEF TypeInv
<1>2. ASSUME NEW c \in Clients, Issue(c) \/ Step(c) \/ Advance(c) \/ TimerFires(c), d # c
      PROVE  pc[d] = "push" /\ ref'[d] = ref[d]
  BY <1>1, <1>2, OthersStay
<1>3. ASSUME Miss(d) \/ Return(d) \/ Restart(d) PROVE FALSE
  BY <1>1, <1>3 DEF Miss, Return, Restart, Goto, Types
<1>4. ASSUME NEW f, NEW step \in {"create", "find", "delete"}, Start(d, f, step) PROVE FALSE
  BY <1>1, <1>4 DEF Start, Types
<1>5. ~Issue(d)
  BY <1>4 DEF Issue, IssuePush, IssuePop, IssueBlockingPop, IssueLRem, IssueDel
<1>6. ~(Push(d) \/ SignalListPush(d) \/ GetList(d) \/ Pop(d) \/ Rem(d) \/ CheckLen(d))
  BY <1>1, <1>3 DEF Push, SignalListPush, GetList, Pop, Rem, CheckLen, Goto, Types, Broadcast
<1>7. ~(Unlink(d) \/ DeleteKey(d) \/ CheckDeadline(d) \/ WaitForListSignal(d) \/ WaitReturns(d))
  BY <1>1, <1>3 DEF Unlink, DeleteKey, CheckDeadline, WaitForListSignal, WaitReturns, Goto, Types
<1>8. ASSUME GetOrCreateList(d) PROVE ref'[d] = Lists'[Key(d)]
  <2>1. pc[d] = "create" /\ Key(d) \in Keys /\ Lists \in [Keys -> Nat] /\ ref \in [Clients -> Nat]
    BY <1>1, <1>8, HeldTyped DEF GetOrCreateList, Types
  <2> HIDE DEF Key
  <2>2. CASE Lists[Key(d)] # Absent
    BY <1>8, <2>1, <2>2 DEF GetOrCreateList, storeVars
  <2>3. CASE Lists[Key(d)] = Absent
    BY <1>8, <2>1, <2>3 DEF GetOrCreateList
  <2> QED BY <2>2, <2>3
<1>9. ASSUME Advance(d) \/ TimerFires(d) PROVE pc[d] = "push" /\ ref'[d] = ref[d]
  BY <1>9 DEF Advance, TimerFires, callVars
<1>10. ASSUME TimerCallback PROVE pc[d] = "push" /\ ref'[d] = ref[d]
  BY <1>1, <1>10 DEF TimerCallback, Broadcast, callVars, Types
<1>11. ASSUME UNCHANGED vars PROVE pc[d] = "push" /\ ref'[d] = ref[d]
  BY <1>11 DEF vars, callVars
<1> QED BY <1>2, <1>5, <1>6, <1>7, <1>8, <1>9, <1>10, <1>11 DEF Next, Step

\* A handler comes to such a section from another one of the same command.
LEMMA SeekingStays ==
  ASSUME TypeInv, [Next]_vars, NEW d \in Clients, pc'[d] \in Seeking
  PROVE  \/ pc[d] \in Seeking /\ call'[d] = call[d]
         \/ call'[d].cmd \in SeekingOK
<1> USE DEF Seeking
<1>1. Types
  BY DEF TypeInv
<1>2. ASSUME NEW c \in Clients, Issue(c) \/ Step(c) \/ Advance(c) \/ TimerFires(c), d # c
      PROVE  pc[d] \in Seeking /\ call'[d] = call[d]
  BY <1>1, <1>2, OthersStay
<1>3. ASSUME Return(d) PROVE FALSE
  BY <1>1, <1>3 DEF Return, Goto, Types
<1>4. ASSUME Miss(d) \/ Restart(d) PROVE call' = call
  BY <1>3, <1>4 DEF Miss, Restart, callVars
<1>5. ASSUME NEW f, NEW step \in {"create", "find", "delete"}, Start(d, f, step)
      PROVE  step = "find" /\ call'[d].cmd = f.cmd /\ f.cmd \in Commands
  BY <1>1, <1>5 DEF Start, Types
<1>6. ASSUME Issue(d) PROVE call'[d].cmd \in SeekingOK
  <2>1. ~IssuePush(d) /\ ~IssueDel(d)
    BY <1>5 DEF IssuePush, IssueDel
  <2>2. IssuePop(d) => call'[d].cmd \in Commands \cap Pops
    BY <1>5 DEF IssuePop, Frame
  <2>3. IssueBlockingPop(d) => call'[d].cmd \in Commands \cap Blocking
    BY <1>5 DEF IssueBlockingPop, Frame
  <2>4. IssueLRem(d) => call'[d].cmd \in Commands \cap {"LREM"}
    BY <1>5 DEF IssueLRem, Frame
  <2> QED BY <1>6, <2>1, <2>2, <2>3, <2>4 DEF Issue, SeekingOK, Pops, Blocking, Pushes
<1>7. ~(GetOrCreateList(d) \/ Push(d) \/ SignalListPush(d) \/ Rem(d) \/ CheckLen(d) \/ Unlink(d))
  BY <1>1, <1>3 DEF GetOrCreateList, Push, SignalListPush, Rem, CheckLen, Unlink, Goto, Types, Broadcast
<1>8. ~DeleteKey(d)
  BY <1>1, <1>3 DEF DeleteKey, Goto, Types
<1>9. ASSUME GetList(d) \/ Pop(d) PROVE pc[d] \in Seeking /\ call' = call
  BY <1>1, <1>4, <1>9 DEF GetList, Pop, callVars, Goto, Types
<1>10. ASSUME CheckDeadline(d) \/ WaitForListSignal(d) \/ WaitReturns(d)
       PROVE  pc[d] \in Seeking /\ call' = call
  BY <1>3, <1>4, <1>10 DEF CheckDeadline, WaitForListSignal, WaitReturns, callVars
<1>11. ASSUME Advance(d) \/ TimerFires(d) PROVE pc[d] \in Seeking /\ call' = call
  BY <1>11 DEF Advance, TimerFires, callVars
<1>12. ASSUME TimerCallback PROVE pc[d] \in Seeking /\ call' = call
  BY <1>1, <1>12 DEF TimerCallback, Broadcast, callVars, Types
<1>13. ASSUME UNCHANGED vars PROVE pc[d] \in Seeking /\ call' = call
  BY <1>13 DEF vars, callVars
<1> HIDE DEF Seeking
<1>14. ASSUME Step(d) PROVE pc[d] \in Seeking /\ call' = call
  BY <1>7, <1>8, <1>9, <1>10, <1>14 DEF Step
<1> QED BY <1>2, <1>6, <1>11, <1>12, <1>13, <1>14 DEF Next

\* What IssuePush does, in the terms of the invariants: the new elements are beyond
\* the issued ones and what the key's list holds is ahead of them.
LEMMA IssueFacts ==
  ASSUME TypeInv, NEW c \in Clients, IssuePush(c)
  PROVE  \E k \in Keys, N \in SUBSET Nat :
           /\ UNCHANGED <<heap, Lists, popped>> /\ N = New(c)'
           /\ \A x \in N : x \in 1 .. issued' /\ x \notin 1 .. issued
           /\ \A x \in 1 .. issued : x \in 1 .. issued'
           /\ \A i \in Items : ahead'[i] = IF i \in N THEN Reachable(k) ELSE ahead[i]
           /\ pc'[c] = "create" /\ Key(c)' = k /\ call'[c].cmd \in Commands \cap Pushes
           /\ \A d \in Clients : d # c => /\ pc'[d] = pc[d] /\ call'[d] = call[d]
                                          /\ ki'[d] = ki[d] /\ ref'[d] = ref[d]
<1>1. PICK name \in Pushes, k \in Keys, n \in Batches :
        /\ Start(c, Frame(name, <<k>>, NextItems(n), FALSE), "create")
        /\ issued' = issued + n
        /\ ahead' = [i \in Items |-> IF i \in Elements(NextItems(n)) THEN Reachable(k) ELSE ahead[i]]
  BY DEF IssuePush
<1>2. n \in Nat \ {0} /\ issued \in Nat /\ Types /\ Handlers
  BY ConstantsAssumption DEF TypeInv, Ghosts
<1>3. /\ UNCHANGED <<heap, Lists, popped, ki, ref>> /\ pc[c] = "idle" /\ name \in Commands
      /\ pc' = [pc EXCEPT ![c] = "create"]
      /\ call' = [call EXCEPT ![c] = Frame(name, <<k>>, NextItems(n), FALSE)]
  BY <1>1 DEF Start, storeVars, Frame
<1>4. /\ \A d \in Clients : d # c => call'[d] = call[d] /\ pc'[d] = pc[d]
      /\ call'[c].vals = NextItems(n) /\ call'[c].keys = <<k>> /\ call'[c].cmd = name
      /\ pc'[c] = "create"
  BY <1>2, <1>3 DEF Types, Frame
<1>5. ki'[c] = 1
  BY <1>2, <1>3 DEF Handlers, WellFormed
<1>6. /\ NextItems(n) \in Seq(Nat) /\ Len(NextItems(n)) = n
      /\ \A i \in 1 .. n : NextItems(n)[i] = issued + i
  BY <1>2 DEF NextItems
<1>7. \A x \in Elements(NextItems(n)) : x \in 1 .. issued' /\ x \notin 1 .. issued /\ x \in Nat
  BY <1>1, <1>2, <1>6 DEF Elements
<1>8. \A x \in 1 .. issued : x \in 1 .. issued'
  BY <1>1, <1>2
<1>9. New(c)' = Elements(NextItems(n)) /\ Key(c)' = k
  BY <1>4, <1>5 DEF New, Key
<1>10. \A i \in Items : ahead'[i] = IF i \in New(c)' THEN Reachable(k) ELSE ahead[i]
  BY <1>1, <1>9
<1>11. New(c)' \in SUBSET Nat
  BY <1>7, <1>9
<1> DEFINE N == New(c)'
<1>12. /\ N = New(c)' /\ N \in SUBSET Nat
       /\ \A x \in N : x \in 1 .. issued' /\ x \notin 1 .. issued
       /\ \A i \in Items : ahead'[i] = IF i \in N THEN Reachable(k) ELSE ahead[i]
  BY <1>7, <1>9, <1>10, <1>11
<1> HIDE DEF N
<1> QED BY <1>3, <1>4, <1>8, <1>9, <1>12, ZenonT(30)

\* Sections and commands keep matching.
LEMMA SectionsStep ==
  ASSUME TypeInv, SectionsMatch, [Next]_vars
  PROVE  SectionsMatch'
<1>1. \A c \in Clients : pc'[c] \in Seeking => call'[c].cmd \in SeekingOK
  BY SeekingStays DEF SectionsMatch
<1>2. ASSUME NEW d \in Clients, Pending(d)' PROVE call'[d].cmd \in Commands \cap Pushes
  <2>1. CASE \E c \in Clients : IssuePush(c)
    <3>1. PICK c \in Clients : IssuePush(c)
      BY <2>1
    <3>2. /\ call'[c].cmd \in Commands \cap Pushes
          /\ \A e \in Clients : e # c => pc'[e] = pc[e] /\ call'[e] = call[e]
      BY <3>1, IssueFacts
    <3> QED BY <1>2, <3>2 DEF SectionsMatch, Pending
  <2>2. CASE \A c \in Clients : ~IssuePush(c)
    BY <1>2, <2>2, PendingStays DEF SectionsMatch
  <2> QED BY <2>1, <2>2
<1> QED BY <1>1, <1>2 DEF SectionsMatch

\* What was ahead of a push is not waiting to be pushed itself, after any step.
LEMMA OldStep ==
  ASSUME TypeInv, TypeInv', OnceInv, AheadIsOld, [Next]_vars
  PROVE  AheadIsOld'
<1> SUFFICES ASSUME NEW i \in Items, NEW a \in ahead'[i]
             PROVE  a \in 1 .. issued' /\ \A d \in Clients : Pending(d)' => a \notin New(d)'
  BY DEF AheadIsOld
<1>0. ASSUME NEW k \in Keys, NEW x \in Reachable(k)
      PROVE  x \in 1 .. issued /\ \A d \in Clients : Pending(d) => x \notin New(d)
  <2> DEFINE o == <<k, Lists[k]>>
  <2>1. o \in Objects(heap) /\ x \in Elements(At(heap, o))
    BY <1>0, ReachableIs
  <2> HIDE DEF o
  <2> QED BY <2>1 DEF OnceInv, ListsAreDisjoint, PendingIsNew, Alive
<1>1. CASE \E c \in Clients : IssuePush(c)
  <2>1. PICK c \in Clients : IssuePush(c)
    BY <1>1
  <2>2. PICK k \in Keys, N \in SUBSET Nat :
          /\ N = New(c)' /\ \A x \in N : x \notin 1 .. issued
          /\ \A x \in 1 .. issued : x \in 1 .. issued'
          /\ \A j \in Items : ahead'[j] = IF j \in N THEN Reachable(k) ELSE ahead[j]
          /\ \A d \in Clients : d # c => pc'[d] = pc[d] /\ call'[d] = call[d]
    BY <2>1, IssueFacts
  <2>3. a \in 1 .. issued /\ \A d \in Clients : Pending(d) => a \notin New(d)
    BY <1>0, <2>2 DEF AheadIsOld
  <2>4. \A d \in Clients : d # c => New(d)' = New(d) /\ (Pending(d)' <=> Pending(d))
    BY <2>2 DEF New, Pending
  <2> QED BY <2>2, <2>3, <2>4
<1>2. CASE \A c \in Clients : ~IssuePush(c)
  <2>1. ahead' = ahead /\ issued' = issued
    <3>1. ASSUME NEW c \in Clients, Push(c) \/ Pop(c) \/ Rem(c) \/ GetOrCreateList(c)
          PROVE  ahead' = ahead /\ issued' = issued
      BY <3>1 DEF Push, Pop, Rem, GetOrCreateList, ghostVars
    <3> QED BY <1>2, <3>1, StepKinds DEF Quiet
  <2>2. \A d \in Clients : Pending(d)' => Pending(d) /\ New(d)' = New(d)
    BY <1>2, PendingStays DEF New
  <2> QED BY <2>1, <2>2 DEF AheadIsOld
<1> QED BY <1>1, <1>2

\* An element on its way to the list of k stays so, as long as k keeps its list.
LEMMA OnItsWayStays ==
  ASSUME TypeInv, [Next]_vars, \A c \in Clients : ~IssuePush(c),
         NEW i, NEW k \in Keys, OnItsWay(i, k), Lists'[k] = Lists[k]
  PROVE  OnItsWay(i, k)'
<1> SUFFICES ASSUME NEW d \in Clients, Pending(d)', i \in New(d)'
             PROVE  Key(d)' = k /\ (pc'[d] = "push" => ref'[d] = Lists'[k])
  BY DEF OnItsWay
<1>1. Pending(d) /\ New(d)' = New(d) /\ Key(d)' = Key(d)
  BY PendingStays DEF New, Key
<1>2. Key(d) = k /\ (pc[d] = "push" => ref[d] = Lists[k])
  BY <1>1 DEF OnItsWay
<1>3. pc'[d] = "push" => \/ pc[d] = "push" /\ ref'[d] = ref[d]
                         \/ ref'[d] = Lists'[Key(d)]
  BY PushHolds
<1> QED BY <1>1, <1>2, <1>3

\* A new push: what the key's list holds is ahead of it.
LEMMA IssueBehind ==
  ASSUME TypeInv, TypeInv', OnceInv, AheadIsBefore, NEW c \in Clients, IssuePush(c)
  PROVE  AheadIsBefore'
<1> SUFFICES ASSUME NEW i \in Items, NEW a \in ahead'[i], NEW k \in Keys, a \in Reachable(k)'
             PROVE  IsBehind(i, a, k)'
  BY DEF AheadIsBefore
<1>1. PICK j \in Keys, N \in SUBSET Nat :
        /\ UNCHANGED <<heap, Lists, popped>> /\ N = New(c)'
        /\ \A x \in N : x \in 1 .. issued' /\ x \notin 1 .. issued
        /\ \A y \in Items : ahead'[y] = IF y \in N THEN Reachable(j) ELSE ahead[y]
        /\ pc'[c] = "create" /\ Key(c)' = j
        /\ \A d \in Clients : d # c => /\ pc'[d] = pc[d] /\ call'[d] = call[d]
                                       /\ ki'[d] = ki[d] /\ ref'[d] = ref[d]
  BY IssueFacts
<1>2. Reachable(k)' = Reachable(k)
  BY <1>1 DEF Reachable
<1>3. \A d \in Clients : d # c => /\ New(d)' = New(d) /\ Key(d)' = Key(d)
                                  /\ (Pending(d)' <=> Pending(d))
  BY <1>1 DEF New, Key, Pending
<1>4. CASE i \notin N
  <2>1. IsBehind(i, a, k)
    BY <1>1, <1>2, <1>4 DEF AheadIsBefore
  <2>2. OnItsWay(i, k)'
    BY <1>1, <1>3, <1>4, <2>1 DEF IsBehind, OnItsWay
  <2> QED BY <1>1, <2>1, <2>2 DEF IsBehind
<1>5. CASE i \in N
  <2>1. a \in Reachable(j) /\ a \in Reachable(k) /\ i \notin 1 .. issued
    BY <1>1, <1>2, <1>5
  <2> DEFINE o == <<k, Lists[k]>>
             p == <<j, Lists[j]>>
  <2>2. /\ o \in Objects(heap) /\ a \in Elements(At(heap, o))
        /\ p \in Objects(heap) /\ a \in Elements(At(heap, p))
    BY <2>1, ReachableIs
  <2>3. o = p => k = j
    OBVIOUS
  <2>4. \A q \in Objects(heap) : i \notin Elements(At(heap, q))
    BY <2>1 DEF OnceInv, ListsAreDisjoint, Alive
  <2>5. i \notin popped
    BY <2>1 DEF OnceInv
  <2> HIDE DEF o, p
  <2>6. k = j
    BY <2>2, <2>3 DEF OnceInv, ListsAreDisjoint
  <2>7. Precedes(At(heap, o), a, i)
    <3>1. i \notin Elements(At(heap, o))
      BY <2>2, <2>4
    <3> QED BY <3>1 DEF Precedes, Elements
  <2>8. \A d \in Clients : d # c /\ Pending(d) => i \notin New(d)
    BY <2>1 DEF OnceInv, PendingIsNew, Alive
  <2>9. OnItsWay(i, k)'
    BY <1>1, <1>3, <2>6, <2>8 DEF OnItsWay
  <2> QED BY <1>1, <2>4, <2>5, <2>7, <2>9 DEF IsBehind, o
<1> QED BY <1>4, <1>5

\* The other steps: a was reachable before, through the same list object.
LEMMA KeepsItsList ==
  ASSUME TypeInv, TypeInv', OnceInv, [Next]_vars, NEW k \in Keys, NEW a \in Reachable(k)'
  PROVE  Lists'[k] = Lists[k]
<1>1. CASE Quiet
  BY <1>1, ReachableIs DEF Quiet
<1>2. ASSUME NEW c \in Clients, IssuePush(c) \/ Push(c) \/ Pop(c) \/ Rem(c) PROVE Lists' = Lists
  BY <1>2 DEF IssuePush, Start, Push, Pop, Rem, storeVars
<1>3. ASSUME NEW c \in Clients, GetOrCreateList(c), Lists[Key(c)] = Absent
      PROVE  Lists'[k] = Lists[k]
  <2> DEFINE n == Len(heap[Key(c)]) + 1
  <2>1. /\ Extended(heap', heap, Key(c)) /\ heap \in Heaps /\ Key(c) \in Keys
        /\ Lists' = [Lists EXCEPT ![Key(c)] = n] /\ Lists \in [Keys -> Nat]
    BY <1>3, HeldTyped DEF GetOrCreateList, TypeInv, Types, Extended
  <2>2. At(heap', <<Key(c), n>>) = << >>
    BY <2>1, NewFacts
  <2>3. a \in Elements(At(heap', <<k, Lists'[k]>>))
    BY ReachableIs
  <2>4. k # Key(c)
    <3> SUFFICES ASSUME k = Key(c) PROVE FALSE
      OBVIOUS
    <3>1. Lists'[k] = n
      BY <2>1
    <3> QED BY <2>2, <2>3, <3>1 DEF Elements
  <2> QED BY <2>1, <2>4
<1> QED BY <1>1, <1>2, <1>3, StepKinds

\* RPUSH puts its elements behind those that are ahead of them.
LEMMA PushBehind ==
  ASSUME TypeInv, OnceInv, NEW c \in Clients, Push(c), call[c].cmd # "LPUSH",
         NEW i, NEW a, NEW k \in Keys, IsBehind(i, a, k), OnItsWay(i, k)',
         <<k, Lists[k]>> \in Objects(heap),
         \A d \in Clients : Pending(d) => a \notin New(d)
  PROVE  IsBehind(i, a, k)'
<1> DEFINE o == <<Key(c), ref[c]>>
           p == <<k, Lists[k]>>
<1>1. /\ Pending(c) /\ UNCHANGED <<Lists, popped>>
      /\ o \in Objects(heap) /\ Objects(heap') = Objects(heap)
      /\ \A x \in Elements(At(heap', o)) : x \in Elements(At(heap, o)) \/ x \in New(c)
      /\ \A q \in Objects(heap) : q # o => At(heap', q) = At(heap, q)
      /\ At(heap', o) = At(heap, o) \o call[c].vals
      /\ At(heap, o) \in Seq(Items) /\ call[c].vals \in Seq(Items)
  BY PushFills
<1>2. i \in New(c) => o = p
  BY <1>1 DEF IsBehind, OnItsWay, Push
<1>3. /\ \A q \in Objects(heap) : i \in Elements(At(heap, q)) => q = p
      /\ Precedes(At(heap, p), a, i) /\ i \notin popped
  BY DEF IsBehind
<1>4. <<k, Lists'[k]>> = p /\ p \in Objects(heap)
  BY <1>1
<1> HIDE DEF o, p
<1>5. \A q \in Objects(heap') : i \in Elements(At(heap', q)) => q = p
  BY <1>1, <1>2, <1>3
<1>6. Precedes(At(heap', p), a, i)
  <2>1. CASE p = o
    <3>1. a \notin Elements(call[c].vals)
      BY <1>1 DEF New
    <3>2. Precedes(At(heap, o) \o call[c].vals, a, i)
      BY <1>1, <1>3, <2>1, <3>1, InARow
    <3> QED BY <1>1, <2>1, <3>2
  <2>2. CASE p # o
    BY <1>1, <1>3, <1>4, <2>2
  <2> QED BY <2>1, <2>2
<1> QED BY <1>1, <1>3, <1>4, <1>5, <1>6 DEF IsBehind

\* A head pop takes nothing that has another element before it.
LEMMA TakeBehind ==
  ASSUME TypeInv, OnceInv, NEW c \in Clients, NEW o, NEW v, NEW e, Takes(c, o, v, e),
         popped' # popped => v = At(heap, o)[1],
         NEW i, NEW a, NEW k \in Keys, IsBehind(i, a, k), OnItsWay(i, k)',
         <<k, Lists[k]>> \in Objects(heap), a \in Elements(At(heap', <<k, Lists[k]>>))
  PROVE  IsBehind(i, a, k)'
<1> DEFINE p == <<k, Lists[k]>>
<1>1. /\ o \in Objects(heap) /\ v \in Elements(At(heap, o)) /\ Lists' = Lists
      /\ Objects(heap') = Objects(heap) /\ At(heap', o) = e
      /\ \A q \in Objects(heap) : q # o => At(heap', q) = At(heap, q)
      /\ v \notin Elements(e) /\ \A x \in Elements(e) : x \in Elements(At(heap, o))
      /\ \A x, y : Precedes(At(heap, o), x, y) => Precedes(e, x, y)
      /\ popped' = popped \/ popped' = popped \cup {v}
  BY DEF Takes
<1>2. /\ \A q \in Objects(heap) : i \in Elements(At(heap, q)) => q = p
      /\ Precedes(At(heap, p), a, i) /\ i \notin popped
      /\ p \in Objects(heap) /\ a \in Elements(At(heap', p)) /\ <<k, Lists'[k]>> = p
  BY <1>1 DEF IsBehind
<1> HIDE DEF p
<1>3. \A q \in Objects(heap') : i \in Elements(At(heap', q)) => q = p
  BY <1>1, <1>2
<1>4. Precedes(At(heap', p), a, i)
  <2>1. CASE p = o
    BY <1>1, <1>2, <2>1
  <2>2. CASE p # o
    BY <1>1, <1>2, <2>2
  <2> QED BY <2>1, <2>2
<1>5. ASSUME i = v, popped' # popped PROVE FALSE
  <2>1. p = o /\ a \in Elements(At(heap, o)) /\ Precedes(At(heap, o), a, i)
    BY <1>1, <1>2, <1>5
  <2>2. PICK m \in 1 .. Len(At(heap, o)) : At(heap, o)[m] = a
    BY <2>1 DEF Elements
  <2>3. 1 \in 1 .. Len(At(heap, o)) /\ At(heap, o)[1] = i
    <3>1. At(heap, o) \in Seq(Items)
      <4>1. heap \in Heaps
        BY DEF TypeInv, Types
      <4>2. \A q \in Objects(heap) : At(heap, q) \in Seq(Items)
        BY <4>1, ObjectFacts
      <4> QED BY <1>1, <4>2
    <3>2. Len(At(heap, o)) \in Nat
      BY <3>1
    <3> QED BY <1>5, <2>2, <3>2
  <2>4. m < 1
    BY <2>1, <2>2, <2>3 DEF Precedes
  <2> QED BY <2>4
<1>6. i \notin popped'
  BY <1>1, <1>2, <1>5
<1> QED BY <1>1, <1>2, <1>3, <1>4, <1>6 DEF IsBehind

\* The commands of NotOvertaken: elements go in at the tail and out at the head.
HeadPopsOnly == Commands \cap {"LPUSH", "RPOP", "BRPOP"} = {}

\* With these commands the invariant on the order is inductive.
LEMMA BehindStep ==
  ASSUME HeadPopsOnly, TypeInv, TypeInv', OnceInv, OrderInv, [Next]_vars
  PROVE  AheadIsBefore'
<1>0. AheadIsOld /\ AheadIsBefore /\ SectionsMatch
  BY DEF OrderInv
<1>1. CASE \E c \in Clients : IssuePush(c)
  BY <1>0, <1>1, IssueBehind
<1>2. CASE \A c \in Clients : ~IssuePush(c)
  <2> SUFFICES ASSUME NEW i \in Items, NEW a \in ahead'[i], NEW k \in Keys, a \in Reachable(k)'
               PROVE  IsBehind(i, a, k)'
    BY DEF AheadIsBefore
  <2>1. ahead' = ahead
    <3>1. ASSUME NEW c \in Clients, Push(c) \/ Pop(c) \/ Rem(c) \/ GetOrCreateList(c)
          PROVE  ahead' = ahead
      BY <3>1 DEF Push, Pop, Rem, GetOrCreateList, ghostVars
    <3> QED BY <1>2, <3>1, StepKinds DEF Quiet
  <2>2. \A d \in Clients : Pending(d) => a \notin New(d)
    BY <1>0, <2>1 DEF AheadIsOld
  <2>3. a \in Reachable(k)
    BY <2>2, ReachableGrows DEF Push, Pending, New
  <2>4. IsBehind(i, a, k)
    BY <1>0, <2>1, <2>3 DEF AheadIsBefore
  <2>5. Lists'[k] = Lists[k]
    BY KeepsItsList
  <2>6. OnItsWay(i, k)'
    BY <1>2, <2>4, <2>5, OnItsWayStays DEF IsBehind
  <2>7. <<k, Lists[k]>> \in Objects(heap) /\ a \in Elements(At(heap', <<k, Lists[k]>>))
    BY <2>3, <2>5, ReachableIs
  <2>8. CASE UNCHANGED <<heap, popped>>
    BY <2>4, <2>5, <2>6, <2>8 DEF IsBehind
  <2>9. ASSUME NEW c \in Clients, Push(c) PROVE IsBehind(i, a, k)'
    <3>1. call[c].cmd # "LPUSH"
      BY <1>0, <2>9 DEF Push, Pending, SectionsMatch, HeadPopsOnly
    <3> QED BY <2>2, <2>4, <2>6, <2>7, <2>9, <3>1, PushBehind
  <2>10. ASSUME NEW c \in Clients, Pop(c) \/ Rem(c) PROVE IsBehind(i, a, k)'
    <3> DEFINE o == <<Key(c), ref[c]>>
    <3>1. pc[c] = "pop"
      BY <2>10 DEF Pop, Rem
    <3>2. At(heap, o) = Held(c)
      BY <3>1, HoldsObject
    <3>3. Pop(c) => call[c].cmd \in {"LPOP", "BLPOP"}
      <4>1. call[c].cmd \in SeekingOK
        BY <1>0, <3>1 DEF SectionsMatch, Seeking
      <4>2. SeekingOK \subseteq {"LPOP", "BLPOP", "LREM"}
        BY ConstantsAssumption DEF SeekingOK, HeadPopsOnly, AllCommands, Pushes, Pops, Blocking
      <4> QED BY <4>1, <4>2 DEF Pop
    <3> HIDE DEF o
    <3>4. ASSUME NEW v, NEW e, Takes(c, o, v, e),
                 Pop(c) /\ call[c].cmd \in {"LPOP", "BLPOP"} => v = Held(c)[1],
                 Rem(c) => popped' = popped
          PROVE  IsBehind(i, a, k)'
      <4>1. popped' # popped => v = At(heap, o)[1]
        BY <2>10, <3>2, <3>3, <3>4
      <4> QED BY <2>4, <2>6, <2>7, <3>4, <4>1, TakeBehind
    <3>5. \/ UNCHANGED <<heap, popped>>
          \/ \E v, e : /\ Takes(c, o, v, e)
                       /\ Pop(c) /\ call[c].cmd \in {"LPOP", "BLPOP"} => v = Held(c)[1]
                       /\ Rem(c) => popped' = popped
      BY <2>10, PopTakes DEF o
    <3> QED BY <2>8, <3>4, <3>5
  <2>11. ASSUME NEW c \in Clients, GetOrCreateList(c), Lists[Key(c)] = Absent
         PROVE  IsBehind(i, a, k)'
    <3> DEFINE n == <<Key(c), Len(heap[Key(c)]) + 1>>
               p == <<k, Lists[k]>>
    <3>1. Extended(heap', heap, Key(c)) /\ heap \in Heaps /\ Key(c) \in Keys /\ popped' = popped
      BY <2>11, HeldTyped DEF GetOrCreateList, TypeInv, Types, Extended, ghostVars
    <3>2. /\ Objects(heap') = Objects(heap) \cup {n} /\ At(heap', n) = << >>
          /\ \A q \in Objects(heap) : At(heap', q) = At(heap, q)
      BY <3>1, NewFacts
    <3>3. /\ p \in Objects(heap) /\ <<k, Lists'[k]>> = p
          /\ \A q \in Objects(heap) : i \in Elements(At(heap, q)) => q = p
          /\ Precedes(At(heap, p), a, i) /\ i \notin popped
      BY <2>4, <2>5, <2>7 DEF IsBehind
    <3> HIDE DEF n, p
    <3>4. i \notin Elements(<< >>)
      BY DEF Elements
    <3> QED BY <2>6, <3>1, <3>2, <3>3, <3>4 DEF IsBehind
  <2> QED BY <1>2, <2>8, <2>9, <2>10, <2>11, StepKinds DEF Quiet
<1> QED BY <1>1, <1>2

\* For any number of connections, keys and elements, and any of the commands but
\* LPUSH, RPOP and BRPOP: once a pop has taken an element, none that was in its list
\* when its push was issued can be found any more. Handlers that hold an unlinked
\* list, keys that get a new one, DEL and LREM included (datastruct.go RPush, LPop).
THEOREM PopsInOrder == HeadPopsOnly /\ Spec => []NotOvertaken
<1>1. Init => OrderInv
  <2> SUFFICES ASSUME Init PROVE OrderInv
    OBVIOUS
  <2>1. /\ \A c \in Clients : ~Pending(c) /\ pc[c] \notin Seeking
        /\ \A i \in Items : \A a \in ahead[i] : FALSE
    BY DEF Init, Pending, Seeking
  <2> QED BY <2>1 DEF OrderInv, AheadIsOld, AheadIsBefore, SectionsMatch
<1>2. ASSUME HeadPopsOnly, TypeInv, TypeInv', OnceInv, OrderInv, [Next]_vars PROVE OrderInv'
  <2>1. AheadIsBefore'
    BY <1>2, BehindStep
  <2>2. AheadIsOld' /\ SectionsMatch'
    BY <1>2, OldStep, SectionsStep DEF OrderInv
  <2> QED BY <2>1, <2>2 DEF OrderInv
<1>3. TypeInv /\ OrderInv => NotOvertaken
  <2> SUFFICES ASSUME TypeInv, OrderInv, NEW i \in popped, NEW k \in Keys, NEW a \in ahead[i],
                      a \in Reachable(k)
               PROVE  FALSE
    BY DEF NotOvertaken
  <2>1. i \in Items
    BY DEF TypeInv, Ghosts
  <2> QED BY <2>1 DEF OrderInv, AheadIsBefore, IsBehind
<1>4. HeadPopsOnly /\ TypeInv /\ TypeInv' /\ OnceInv /\ OrderInv /\ [Next]_vars => OrderInv'
  BY <1>2
<1>5. HeadPopsOnly => HeadPopsOnly'
  BY DEF HeadPopsOnly
<1> QED BY <1>1, <1>3, <1>4, <1>5, OnceInvariant, PTL DEF Spec

=============================================================================
