------------------------------ MODULE SetLocks ------------------------------
(***************************************************************************)
(* The set commands and the mutexes of the Set objects                     *)
(* (pkg/datastruct/datastruct.go, pkg/commands/set_commands.go).           *)
(*                                                                         *)
(* SInter, SUnion and SDiff hold the read lock of their first set while    *)
(* they call methods of the others, each of which takes a read lock of its *)
(* own.  A Go RWMutex admits no new reader while a writer waits, so a      *)
(* writer that arrives in between makes the inner read lock wait for the   *)
(* writer, and the writer waits for the outer one.                         *)
(*                                                                         *)
(* The handlers have looked their sets up: a set here is an object.  A     *)
(* command combines one or two sets; what it replies is left out, how      *)
(* often it takes which lock is not.                                       *)
(***************************************************************************)
EXTENDS Naturals, FiniteSets, SequencesExt

CONSTANTS
  Clients,
  Sets,
  Members,
  Nobody    \* no client

VARIABLES
  items,    \* set -> its members
  pending,  \* set -> the writer that has announced itself to the RWMutex
  job       \* client -> its command

vars == <<items, pending, job>>

Combining == {"SINTER", "SUNION", "SDIFF"}
Changing  == {"SADD", "SREM", "SPOP"}

\* calls: how many calls on the last of its sets a combining command has yet to
\* make.
Idle == [op |-> "none", at |-> "idle", sets |-> << >>, calls |-> 0]

First(c) == Head(job[c].sets)

Init ==
  /\ items = [s \in Sets |-> Members]
  /\ pending = [s \in Sets |-> Nobody]
  /\ job = [c \in Clients |-> Idle]

Issue(c) ==
  /\ job[c].at = "idle"
  /\ \E op \in Combining \cup Changing, n \in 1 .. 2 : \E ss \in [1 .. n -> Sets] :
       /\ op \in Changing => n = 1
       /\ job' = [job EXCEPT ![c] = [Idle EXCEPT !.op = op, !.at = "lock", !.sets = ss]]
  /\ UNCHANGED <<items, pending>>

\* sync.RWMutex, external: RLock waits while a writer is announced; Lock
\* announces the writer and waits for the readers inside to leave.
MayRLock(s)  == pending[s] = Nobody
MayLock(c, s) == pending[s] = c /\ \A d \in Clients : job[d].at = "inside" => First(d) # s

-----------------------------------------------------------------------------
(* SAdd, SRem and SPop.                                                    *)

Announce(c) ==
  /\ job[c].op \in Changing /\ job[c].at = "lock"
  /\ MayRLock(First(c))
  /\ pending' = [pending EXCEPT ![First(c)] = c]
  /\ job' = [job EXCEPT ![c].at = "wait"]
  /\ UNCHANGED items

Change(c) ==
  LET s == First(c) IN
  /\ job[c].at = "wait"
  /\ MayLock(c, s)
  /\ \/ job[c].op = "SADD" /\ \E m \in Members : items' = [items EXCEPT ![s] = @ \cup {m}]
     \/ job[c].op = "SREM" /\ \E m \in Members : items' = [items EXCEPT ![s] = @ \ {m}]
     \/ job[c].op = "SPOP" /\ items[s] = {} /\ UNCHANGED items
     \/ job[c].op = "SPOP" /\ \E m \in items[s] : items' = [items EXCEPT ![s] = @ \ {m}]
  /\ pending' = [pending EXCEPT ![s] = Nobody]
  /\ job' = [job EXCEPT ![c] = Idle]

-----------------------------------------------------------------------------
(* SInter, SUnion and SDiff.                                               *)

\* Calls on other sets: SIsMember for each member of the first set, or SMembers
\* once for SUnion.  SInter of one set calls SMembers of that set itself.
InnerCalls(c) ==
  IF Len(job[c].sets) = 1 THEN (IF job[c].op = "SINTER" THEN 1 ELSE 0)
  ELSE IF job[c].op = "SUNION" THEN 1 ELSE Cardinality(items[First(c)])

\* The outer read lock.
Enter(c) ==
  /\ job[c].op \in Combining /\ job[c].at = "lock"
  /\ MayRLock(First(c))
  /\ job' = [job EXCEPT ![c].at = "inside", ![c].calls = InnerCalls(c)]
  /\ UNCHANGED <<items, pending>>

\* An inner one, taken and given back.
Inner(c) ==
  /\ job[c].at = "inside" /\ job[c].calls > 0
  /\ MayRLock(Last(job[c].sets))
  /\ job' = [job EXCEPT ![c].calls = @ - 1]
  /\ UNCHANGED <<items, pending>>

Leave(c) ==
  /\ job[c].at = "inside" /\ job[c].calls = 0
  /\ job' = [job EXCEPT ![c] = Idle]
  /\ UNCHANGED <<items, pending>>

Step(c) == Announce(c) \/ Change(c) \/ Enter(c) \/ Inner(c) \/ Leave(c)

Next == \E c \in Clients : Issue(c) \/ Step(c)

\* Strong fairness: whoever waits for a mutex is admitted if it becomes free
\* again and again, which is more than the scheduler and the RWMutex owe.
FairSpec == Init /\ [][Next]_vars /\ \A c \in Clients : SF_vars(Step(c))

\* The Set is safe to use from several goroutines: every set command returns
\* (README.md:111, "List / Set / Hash implementations (thread-safe)").
SetCommandsReturn == \A c \in Clients : job[c].at # "idle" ~> job[c].at = "idle"
=============================================================================
