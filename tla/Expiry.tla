------------------------------- MODULE Expiry -------------------------------
(***************************************************************************)
(* Lazy and active expiry of keys under concurrent commands                *)
(* (pkg/commands/database.go, expire_commands.go, admin_commands.go and    *)
(* the expiry loop of pkg/server).                                         *)
(*                                                                         *)
(* expireIfNeeded reads the deadline under the read lock, gives it back    *)
(* and deletes under the write lock without looking again.  Every command  *)
(* but SET and MSET calls it before its own lock section, so a command has *)
(* three kinds of step: check, evict, and the section of its own.          *)
(*                                                                         *)
(* An entry is a place <<map, key>>; "Lists" stands for the three maps of  *)
(* containers, which the commands treat alike.  What is stored is not      *)
(* modelled, only how a place came by it: mortal and stale are history,    *)
(* kept for the entries that exist.                                        *)
(***************************************************************************)
EXTENDS FiniteSets, Naturals

CONSTANTS
  Writers,   \* connections whose commands change something
  Readers,   \* connections whose commands look something up
  Sweeper,   \* the goroutine of expiryLoop
  Keys,
  MaxArgs    \* bound: keys of one MGET

ASSUME ExpiryAssumption ==
  /\ Writers \cap Readers = {}
  /\ Sweeper \notin Writers \cup Readers
  /\ MaxArgs \in Nat

VARIABLES
  entries,   \* places that hold something
  Expires,   \* key -> no deadline, or where it lies relative to the clock
  job,       \* goroutine -> its command and how far it is
  mortal,    \* entries whose deadline has come since their lifetime was settled,
             \* or that were settled while an expireIfNeeded was about to delete them
  stale      \* reader -> entries that were due when its command arrived

vars == <<entries, Expires, job, mortal, stale>>

Procs     == Writers \cup Readers \cup {Sweeper}
Places    == {"Store", "Lists"} \X Keys
Deadlines == {"none", "ahead", "past"}

\* EXPIRE is two commands, with an amount above zero and with another one.
Rewrites == {"INCR", "PUSH", "POP", "DEL", "EXPIRE ahead", "EXPIRE past", "PERSIST"}
Lookups  == {"MGET", "KEYS", "SWEEP"}

\* todo: keys whose deadline is still to be checked; doom: the key that was
\* found due and is deleted next; at "section" is the command's own step,
\* once there is nothing left in todo and doom.
Jobs ==
  [op : Rewrites \cup Lookups \cup {"none"},
   at : {"idle", "collect", "section", "drop"},
   keys : SUBSET Keys, todo : SUBSET Keys, doom : SUBSET Keys]

Idle == [op |-> "none", at |-> "idle", keys |-> {}, todo |-> {}, doom |-> {}]

\* What is stored under some keys.
Of(ks) == {e \in entries : e[2] \in ks}

\* The clock has passed the deadline.  (At the very instant of the deadline
\* expireIfNeeded takes the key and SweepExpired does not; that instant is left
\* out.)
Due(k) == Expires[k] = "past"

\* An expireIfNeeded has found k due and has not deleted it yet.
Doomed(k) == \E p \in Procs : k \in job[p].doom

TypeOK ==
  /\ entries \subseteq Places
  /\ Expires \in [Keys -> Deadlines]
  /\ job \in [Procs -> Jobs]
  /\ \A p \in Procs : Cardinality(job[p].doom) <= 1
  /\ mortal \subseteq entries
  /\ stale \in [Procs -> SUBSET entries]

Init ==
  /\ entries = {}
  /\ Expires = [k \in Keys |-> "none"]
  /\ job = [p \in Procs |-> Idle]
  /\ mortal = {}
  /\ stale = [p \in Procs |-> {}]

\* The history after a step that leaves entries' and Expires' and settles the
\* lifetime of some places: writes them, gives them a deadline or takes it away.
Record(settled) ==
  /\ mortal' = {e \in entries' : \/ Expires'[e[2]] = "past"
                                 \/ e \in mortal \ settled
                                 \/ e \in settled /\ Doomed(e[2])}
  /\ stale' = [p \in Procs |-> (stale[p] \ settled) \cap entries']

Unwritten == UNCHANGED <<entries, Expires, mortal>>

-----------------------------------------------------------------------------
(* A command arrives.                                                      *)

Begin(p, op, at, ks, todo, doom) ==
  /\ job[p].at = "idle"
  /\ job' = [job EXCEPT ![p] =
       [op |-> op, at |-> at, keys |-> ks, todo |-> todo, doom |-> doom]]
  /\ Unwritten

\* Every command that writes, but SET, starts with expireIfNeeded; its look at
\* the deadline is this step.
Write(p) ==
  /\ \E op \in Rewrites, k \in Keys :
       Begin(p, op, "section", {k}, {}, IF Due(k) THEN {k} ELSE {})
  /\ UNCHANGED stale

\* A command that reads some keys; what is due among them must not be in its reply.
Ask(p, op, at, ks, todo) ==
  /\ Begin(p, op, at, ks, todo, {})
  /\ stale' = [stale EXCEPT ![p] = {e \in Of(ks) : Due(e[2])}]

\* MGET checks all of its keys before it reads; with one key it stands also for
\* GET, TYPE, TTL, each key of EXISTS, and the lookups of the container commands.
mget(p) ==
  \E ks \in SUBSET Keys :
    Cardinality(ks) \in 1 .. MaxArgs /\ Ask(p, "MGET", "section", ks, ks)

\* KEYS, and with it SCAN and DBSIZE: a sweep, then a look at all keys.
keysCmd(p) == Ask(p, "KEYS", "collect", Keys, {})

\* A tick of the expiry loop.
expiryLoop == Begin(Sweeper, "SWEEP", "collect", Keys, {}, {}) /\ UNCHANGED stale

\* Mutant: SweepExpired deletes all it has collected under one write lock.
CollectAndDoom(p) ==
  /\ job[p].at = "collect"
  /\ job' = [job EXCEPT ![p].at = "section", ![p].doom = {k \in Keys : Due(k)}]
  /\ UNCHANGED stale
  /\ Unwritten

\* Mutant: SweepExpired goes through the keys that hold something.
CollectStored(p) ==
  /\ job[p].at = "collect"
  /\ job' = [job EXCEPT ![p].at = "section",
                        ![p].todo = {k \in Keys : Due(k) /\ Of({k}) # {}}]
  /\ UNCHANGED stale
  /\ Unwritten

\* SweepExpired reads all deadlines under one read lock.
Collect(p) ==
  /\ job[p].at = "collect"
  /\ job' = [job EXCEPT ![p].at = "section",
                        ![p].todo = {k \in Keys : Due(k)}]
  /\ UNCHANGED stale
  /\ Unwritten

\* Mutant: what a sweep has collected is deleted without a look at the deadline
\* it has now.
CheckMget(p) ==
  /\ job[p].at = "section"
  /\ job[p].doom = {}
  /\ \E k \in job[p].todo :
       job' = [job EXCEPT ![p].todo = @ \ {k},
                          ![p].doom = IF Due(k) \/ job[p].op # "MGET" THEN {k} ELSE {}]
  /\ UNCHANGED stale
  /\ Unwritten

\* expireIfNeeded for one key after the other: the look at the deadline ...
CheckDeadline(p) ==
  /\ job[p].at = "section"
  /\ job[p].doom = {}
  /\ \E k \in job[p].todo :
       job' = [job EXCEPT ![p].todo = @ \ {k},
                          ![p].doom = IF Due(k) THEN {k} ELSE {}]
  /\ UNCHANGED stale
  /\ Unwritten

\* Mutant: a map is forgotten.
EvictStrings(p) ==
  /\ job[p].doom # {}
  /\ entries' = entries \ ({"Store"} \X job[p].doom)
  /\ Expires' = [k \in Keys |-> IF k \in job[p].doom THEN "none" ELSE Expires[k]]
  /\ job' = [job EXCEPT ![p].doom = {}]
  /\ Record({})

\* ... and the deletion.
Evict(p) ==
  /\ job[p].doom # {}
  /\ entries' = entries \ Of(job[p].doom)
  /\ Expires' = [k \in Keys |-> IF k \in job[p].doom THEN "none" ELSE Expires[k]]
  /\ job' = [job EXCEPT ![p].doom = {}]
  /\ Record({})

-----------------------------------------------------------------------------
(* The lock section of each command, on its key k.                         *)

Section(p, op) ==
  /\ job[p].op = op
  /\ job[p].at = "section"
  /\ job[p].todo = {}
  /\ job[p].doom = {}

Finish(p) == job' = [job EXCEPT ![p] = Idle]

\* SET and MSET do not look at the deadline: they drop it and leave a container
\* of that name alone.
set(p) ==
  \E k \in Keys :
    /\ job[p].at = "idle"
    /\ entries' = entries \cup {<<"Store", k>>}
    /\ Expires' = [Expires EXCEPT ![k] = "none"]
    /\ UNCHANGED job
    /\ Record({<<"Store", k>>, <<"Lists", k>>})

\* INCR writes a value of its own over the old one, the deadline stays;
\* an old one that is no integer is an error.
increment(p) ==
  \E k \in Keys :
    /\ Section(p, "INCR") /\ k \in job[p].keys
    /\ entries' = entries \cup {<<"Store", k>>}
    /\ UNCHANGED Expires
    /\ Finish(p)
    /\ Record(IF Due(k) THEN {} ELSE {<<"Store", k>>})

incrementFails(p) ==
  /\ Section(p, "INCR")
  /\ \E k \in job[p].keys : <<"Store", k>> \in entries
  /\ Finish(p)
  /\ UNCHANGED stale
  /\ Unwritten

\* GetOrCreateList, GetOrCreateSet, GetOrCreateHash.
getOrCreate(p) ==
  \E k \in Keys :
    /\ Section(p, "PUSH") /\ k \in job[p].keys
    /\ entries' = entries \cup {<<"Lists", k>>}
    /\ UNCHANGED Expires
    /\ Finish(p)
    /\ Record({<<"Lists", k>>} \ entries)

\* LPOP, RPOP, LREM, SREM, SPOP and HDEL find the container, and drop it from
\* its map if they have emptied it; the deadline stays.
remove(p) ==
  /\ Section(p, "POP")
  /\ \/ Finish(p)
     \/ /\ \E k \in job[p].keys : <<"Lists", k>> \in entries
        /\ job' = [job EXCEPT ![p].at = "drop"]
  /\ UNCHANGED stale
  /\ Unwritten

dropEmptied(p) ==
  /\ job[p].at = "drop"
  /\ entries' = entries \ {<<"Lists", k>> : k \in job[p].keys}
  /\ UNCHANGED Expires
  /\ Finish(p)
  /\ Record({})

DeleteKey(p) ==
  /\ Section(p, "DEL")
  /\ entries' = entries \ Of(job[p].keys)
  /\ Expires' = [k \in Keys |-> IF k \in job[p].keys THEN "none" ELSE Expires[k]]
  /\ Finish(p)
  /\ Record({})

\* EXPIRE and PEXPIRE: only a key that is there gets a deadline.
setExpire(p) ==
  \E d \in {"ahead", "past"}, k \in Keys :
    /\ Section(p, IF d = "ahead" THEN "EXPIRE ahead" ELSE "EXPIRE past")
    /\ k \in job[p].keys
    /\ Expires' = IF Of({k}) = {} THEN Expires ELSE [Expires EXCEPT ![k] = d]
    /\ UNCHANGED entries
    /\ Finish(p)
    /\ Record(Of({k}))

persist(p) ==
  \E k \in Keys :
    /\ Section(p, "PERSIST") /\ k \in job[p].keys
    /\ Expires' = [Expires EXCEPT ![k] = "none"]
    /\ UNCHANGED entries
    /\ Finish(p)
    /\ Record(Of({k}))

\* What a reply is made of is what is stored under the keys (GET and MGET look
\* into one of the maps only).
read(p) ==
  /\ \E op \in Lookups : Section(p, op)
  /\ Finish(p)
  /\ stale' = [stale EXCEPT ![p] = {}]
  /\ Unwritten

\* The clock passes the deadline of a key.
Elapse(k) ==
  /\ Expires[k] = "ahead"
  /\ Expires' = [Expires EXCEPT ![k] = "past"]
  /\ UNCHANGED <<entries, job>>
  /\ Record({})

-----------------------------------------------------------------------------

Step(p) ==
  \/ Collect(p) \/ CheckDeadline(p) \/ Evict(p)
  \/ increment(p) \/ incrementFails(p) \/ getOrCreate(p) \/ remove(p) \/ dropEmptied(p)
  \/ DeleteKey(p) \/ setExpire(p) \/ persist(p) \/ read(p)

Next ==
  \/ \E p \in Writers : Write(p) \/ set(p)
  \/ \E p \in Readers : mget(p) \/ keysCmd(p)
  \/ expiryLoop
  \/ \E p \in Procs : Step(p)
  \/ \E k \in Keys : Elapse(k)

Spec == Init /\ [][Next]_vars

\* The ticker ticks, and the goroutine of the expiry loop gets db.Mu each time
\* it asks for it: the sections under it are short and a waiting writer goes
\* before new readers.
FairSpec == Spec /\ WF_vars(expiryLoop) /\ WF_vars(Step(Sweeper))

-----------------------------------------------------------------------------
(* Properties.                                                             *)

\* What expireIfNeeded deletes was due, at some time since its lifetime was
\* last settled, or it was settled between the look at the deadline and the
\* deletion (database.go:195-212 does not look again).  So a value written,
\* persisted or given a later deadline while no deletion of its key is under
\* way is not taken away early, whoever sweeps.
EvictsOnlyDue ==
  \A p \in Procs : Of(job[p].doom) \subseteq mortal

\* A lookup does not return a value that was due when the command arrived, and
\* that no SET, EXPIRE or PERSIST has let live on since: expireIfNeeded runs
\* before the section that reads, and nobody can bring the value back between
\* the two (string_commands.go:42, database.go:339-356, admin_commands.go:17).
ReadsNothingExpired ==
  \A p \in Procs :
    (\E op \in Lookups : Section(p, op)) => Of(job[p].keys) \cap stale[p] = {}

\* Liveness: a key past its deadline loses it, also one that nobody asks for,
\* and also a deadline that an emptied container has left behind
\* (server.go:90-102).
SweepCatchesAll ==
  \A k \in Keys : Due(k) ~> ~Due(k)

=============================================================================
