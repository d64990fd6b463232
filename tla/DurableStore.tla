---------------------------- MODULE DurableStore ----------------------------
(***************************************************************************)
(* What the snapshots promise, without files, locks or databases: a store  *)
(* in memory and a copy of it on disk.                                     *)
(*                                                                         *)
(* A caller asks for a save of what it knows to be there.  A save is one   *)
(* step: the copy becomes something between the old copy together with     *)
(* what the caller asked for, and what is in memory at that moment.  A     *)
(* process that starts has exactly the copy in memory.                     *)
(***************************************************************************)
CONSTANTS
  Items,    \* what can be stored
  Callers   \* whoever may ask for a save

VARIABLES mem, disk, owed

vars == <<mem, disk, owed>>

Nothing == [s \in Callers |-> {}]

Init == mem \subseteq Items /\ disk = mem /\ owed = Nothing

Write ==
  /\ mem \subseteq mem' /\ mem' \subseteq Items
  /\ UNCHANGED <<disk, owed>>

Ask(s) ==
  /\ owed'[s] \subseteq mem
  /\ owed' = [owed EXCEPT ![s] = owed'[s]]
  /\ UNCHANGED <<mem, disk>>

\* A copy that is good enough for s, and never worse than the one there was.
Copied(s) == disk \cup owed[s] \subseteq disk' /\ disk' \subseteq mem

Save(s) ==
  /\ Copied(s)
  /\ owed' = [owed EXCEPT ![s] = {}]
  /\ UNCHANGED mem

Fail(s) ==
  /\ owed' = [owed EXCEPT ![s] = {}]
  /\ UNCHANGED <<mem, disk>>

\* The process ends, after a save or without one, and the next one starts.
Restart ==
  /\ UNCHANGED disk \/ \E s \in Callers : Copied(s)
  /\ mem' = disk'
  /\ owed' = Nothing

Next == Write \/ Restart \/ \E s \in Callers : Ask(s) \/ Save(s) \/ Fail(s)

Spec == Init /\ [][Next]_vars
=============================================================================
