---------------------------- MODULE ExpiryProofs ----------------------------
(***************************************************************************)
(* Theorems about Expiry, for any number of connections and keys.          *)
(***************************************************************************)
EXTENDS Expiry, FiniteSetTheorems, TLAPS

-----------------------------------------------------------------------------
(* The inductive invariant.                                                *)

\* What is stored under a key that is past its deadline is mortal.
PastIsMortal == \A e \in entries : Due(e[2]) => e \in mortal

\* What a lookup found due when it arrived, and nobody has let live on, is
\* still due.
StaleIsDue == \A p \in Procs : \A e \in stale[p] : Due(e[2])

\* And the lookup has its key still ahead of it: to be collected, to be
\* checked, or to be deleted.
StaleIsAhead ==
  \A p \in Procs : job[p].op \in Lookups /\ job[p].at # "collect" =>
    \A e \in stale[p] : e[2] \in job[p].todo \cup job[p].doom

ExpiryInv ==
  TypeOK /\ PastIsMortal /\ EvictsOnlyDue /\ StaleIsDue /\ StaleIsAhead

-----------------------------------------------------------------------------
(* The two kinds of step.                                                  *)

\* A set with at most the one key that was found due has at most one element.
LEMMA DoomIsSmall ==
  ASSUME NEW b \in BOOLEAN, NEW k
  PROVE  Cardinality(IF b THEN {k} ELSE {}) <= 1 /\ Cardinality({}) <= 1
  BY FS_EmptySet, FS_Singleton

\* A step that stores nothing and moves goroutine p alone: a command arrives,
\* expireIfNeeded or SweepExpired looks at deadlines, a command ends without
\* effect.
LEMMA LookingStep ==
  ASSUME ExpiryInv, Unwritten, NEW p \in Procs,
         NEW j \in Jobs, job' = [job EXCEPT ![p] = j],
         Cardinality(j.doom) <= 1, \A k \in j.doom : Due(k) \/ k \in job[p].doom,
         NEW found \in SUBSET entries, stale' = [stale EXCEPT ![p] = found],
         \A e \in found : Due(e[2]),
         j.op \in Lookups /\ j.at # "collect" => \A e \in found : e[2] \in j.todo \cup j.doom
  PROVE  ExpiryInv'
<1> USE DEF ExpiryInv
<1>1. /\ entries' = entries /\ Expires' = Expires /\ mortal' = mortal
      /\ \A q \in Procs : job'[q] = (IF q = p THEN j ELSE job[q])
      /\ \A q \in Procs : stale'[q] = (IF q = p THEN found ELSE stale[q])
  BY DEF Unwritten, TypeOK
<1>2. TypeOK'
  <2>1. job' \in [Procs -> Jobs] /\ stale' \in [Procs -> SUBSET entries]
    BY DEF TypeOK
  <2>2. \A q \in Procs : Cardinality(job'[q].doom) <= 1
    BY <1>1 DEF TypeOK
  <2> QED BY <1>1, <2>1, <2>2 DEF TypeOK
<1>3. PastIsMortal'
  BY <1>1 DEF PastIsMortal, Due
<1>4. EvictsOnlyDue'
  <2> SUFFICES ASSUME NEW q \in Procs, NEW e \in entries', e[2] \in job'[q].doom
               PROVE  e \in mortal'
    BY DEF EvictsOnlyDue, Of
  <2> QED BY <1>1 DEF EvictsOnlyDue, PastIsMortal, Of
<1>5. StaleIsDue'
  BY <1>1 DEF StaleIsDue, Due
<1>6. StaleIsAhead'
  BY <1>1 DEF StaleIsAhead
<1> QED BY <1>2, <1>3, <1>4, <1>5, <1>6

\* A step that stores, deletes or changes a deadline, and settles the lifetime
\* of some places.  Deletions under way stay under way, or are done; what is
\* new is settled or due; and what is left as it is stays due.
LEMMA StoringStep ==
  ASSUME ExpiryInv, NEW settled, Record(settled),
         entries' \subseteq Places, Expires' \in [Keys -> Deadlines],
         job' \in [Procs -> Jobs],
         \A q \in Procs : job'[q].doom = job[q].doom \/ job'[q].doom = {},
         \A e \in entries' \ entries : e \in settled \/ Expires'[e[2]] = "past",
         \A e \in (entries \cap entries') \ settled :
           Expires[e[2]] = "past" => Expires'[e[2]] = "past",
         \A q \in Procs : job'[q].op \in Lookups /\ job'[q].at # "collect" =>
           /\ job[q].op \in Lookups /\ job[q].at # "collect"
           /\ \A e \in entries' : e[2] \in job[q].todo \cup job[q].doom
                                   => e[2] \in job'[q].todo \cup job'[q].doom
  PROVE  ExpiryInv'
<1> USE DEF ExpiryInv
<1>1. /\ \A e : e \in mortal' <=>
           /\ e \in entries'
           /\ \/ Expires'[e[2]] = "past"
              \/ e \in mortal \ settled
              \/ (e \in settled /\ Doomed(e[2]))
      /\ \A q \in Procs : stale'[q] = (stale[q] \ settled) \cap entries'
      /\ stale' \in [Procs -> SUBSET entries']
  BY DEF Record
<1>2. TypeOK'
  <2>1. \A q \in Procs : Cardinality(job'[q].doom) <= 1
    BY DoomIsSmall DEF TypeOK
  <2> QED BY <1>1, <2>1 DEF TypeOK
<1>3. PastIsMortal'
  BY <1>1 DEF PastIsMortal, Due
<1>4. EvictsOnlyDue'
  <2> SUFFICES ASSUME NEW q \in Procs, NEW e \in entries', e[2] \in job'[q].doom
               PROVE  e \in mortal'
    BY DEF EvictsOnlyDue, Of
  <2>1. e[2] \in job[q].doom /\ Doomed(e[2])
    BY DEF Doomed
  <2>2. CASE e \in settled \/ Expires'[e[2]] = "past"
    BY <1>1, <2>1, <2>2
  <2>3. CASE ~(e \in settled \/ Expires'[e[2]] = "past")
    <3>1. e \in entries
      BY <2>3
    <3>2. e \in mortal
      BY <2>1, <3>1 DEF EvictsOnlyDue, Of
    <3> QED BY <1>1, <2>3, <3>2
  <2> QED BY <2>2, <2>3
<1>5. StaleIsDue'
  <2> SUFFICES ASSUME NEW q \in Procs, NEW e \in stale'[q]
               PROVE  Expires'[e[2]] = "past"
    BY DEF StaleIsDue, Due
  <2>1. e \in stale[q] /\ e \in entries /\ e \in entries' /\ e \notin settled
    BY <1>1 DEF TypeOK
  <2>2. Expires[e[2]] = "past"
    BY <2>1 DEF StaleIsDue, Due
  <2> QED BY <2>1, <2>2
<1>6. StaleIsAhead'
  <2> SUFFICES ASSUME NEW q \in Procs, job'[q].op \in Lookups, job'[q].at # "collect",
                      NEW e \in stale'[q]
               PROVE  e[2] \in job'[q].todo \cup job'[q].doom
    BY DEF StaleIsAhead
  <2>1. e \in stale[q] /\ e \in entries'
    BY <1>1
  <2>2. e[2] \in job[q].todo \cup job[q].doom
    BY <2>1 DEF StaleIsAhead
  <2> QED BY <2>1, <2>2
<1> QED BY <1>2, <1>3, <1>4, <1>5, <1>6

-----------------------------------------------------------------------------
(* The actions.                                                            *)

\* A command arrives, or a tick of the expiry loop.
LEMMA ArrivalKeeps ==
  ASSUME ExpiryInv, NEW p \in Procs, Write(p) \/ mget(p) \/ keysCmd(p) \/ expiryLoop
  PROVE  ExpiryInv'
<1> USE DEF Procs
<1>1. \A q \in Procs : stale[q] \subseteq entries /\ stale = [stale EXCEPT ![q] = stale[q]]
  BY DEF ExpiryInv, TypeOK
<1>2. \A q \in Procs : \A e \in stale[q] : Due(e[2])
  BY DEF ExpiryInv, StaleIsDue
<1>3. CASE Write(p)
  <2>1. PICK op \in Rewrites, k \in Keys :
          Begin(p, op, "section", {k}, {}, IF Due(k) THEN {k} ELSE {})
    BY <1>3 DEF Write
  <2> DEFINE j == [op |-> op, at |-> "section", keys |-> {k}, todo |-> {},
                   doom |-> IF Due(k) THEN {k} ELSE {}]
  <2>2. j \in Jobs /\ j.op \notin Lookups
    BY DEF Jobs, Rewrites, Lookups
  <2>3. job' = [job EXCEPT ![p] = j] /\ Unwritten /\ stale' = [stale EXCEPT ![p] = stale[p]]
    BY <1>1, <1>3, <2>1 DEF Begin, Write
  <2>4. Cardinality(j.doom) <= 1 /\ \A x \in j.doom : Due(x)
    BY DoomIsSmall DEF Due
  <2> HIDE DEF j
  <2> QED BY <1>1, <1>2, <2>2, <2>3, <2>4, LookingStep
<1>4. ASSUME NEW op \in {"MGET", "KEYS"}, NEW at \in {"collect", "section"},
             NEW ks \in SUBSET Keys, NEW todo \in SUBSET Keys, Ask(p, op, at, ks, todo),
             at = "section" => todo = ks
      PROVE  ExpiryInv'
  <2> DEFINE j == [op |-> op, at |-> at, keys |-> ks, todo |-> todo, doom |-> {}]
             found == {e \in Of(ks) : Due(e[2])}
  <2>1. j \in Jobs
    BY DEF Jobs, Lookups
  <2>2. /\ job' = [job EXCEPT ![p] = j] /\ Unwritten
        /\ stale' = [stale EXCEPT ![p] = found] /\ found \in SUBSET entries
    BY <1>4 DEF Ask, Begin, Of
  <2>3. Cardinality(j.doom) <= 1 /\ \A x \in j.doom : Due(x)
    BY FS_EmptySet
  <2>4. j.op \in Lookups /\ j.at # "collect" => \A e \in found : e[2] \in j.todo \cup j.doom
    BY <1>4 DEF Of
  <2>5. \A e \in found : Due(e[2])
    OBVIOUS
  <2> HIDE DEF j, found
  <2> QED BY <2>1, <2>2, <2>3, <2>4, <2>5, LookingStep
<1>5. CASE mget(p)
  BY <1>4, <1>5 DEF mget
<1>6. CASE keysCmd(p)
  BY <1>4, <1>6 DEF keysCmd
<1>7. CASE expiryLoop
  <2> DEFINE j == [op |-> "SWEEP", at |-> "collect", keys |-> Keys, todo |-> {}, doom |-> {}]
  <2>1. j \in Jobs /\ j.at = "collect" /\ Sweeper \in Procs
    BY DEF Jobs, Lookups
  <2>2. job' = [job EXCEPT ![Sweeper] = j] /\ Unwritten /\ stale' = stale
    BY <1>7 DEF Begin, expiryLoop
  <2>3. Cardinality(j.doom) <= 1 /\ \A x \in j.doom : Due(x)
    BY FS_EmptySet
  <2>4. stale' = [stale EXCEPT ![Sweeper] = stale[Sweeper]]
    BY <1>1, <2>1, <2>2
  <2> HIDE DEF j
  <2> QED BY <1>1, <1>2, <2>1, <2>2, <2>3, <2>4, LookingStep
<1> QED BY <1>3, <1>5, <1>6, <1>7

\* The steps of a command, or of a sweep, that only look.
LEMMA LookKeeps ==
  ASSUME ExpiryInv, NEW p \in Procs,
         Collect(p) \/ CheckDeadline(p) \/ incrementFails(p) \/ remove(p) \/ read(p)
  PROVE  ExpiryInv'
<1>1. /\ stale[p] \in SUBSET entries /\ stale = [stale EXCEPT ![p] = stale[p]]
      /\ job[p] \in Jobs /\ Cardinality(job[p].doom) <= 1
      /\ job = [job EXCEPT ![p] = job[p]]
  BY DEF ExpiryInv, TypeOK
<1>2. /\ \A e \in stale[p] : Due(e[2])
      /\ \A e \in stale[p] : e[2] \in Keys
  BY <1>1 DEF ExpiryInv, StaleIsDue, TypeOK, Places
<1>3. Idle \in Jobs /\ Idle.doom = {} /\ Idle.op \notin Lookups /\ Cardinality(Idle.doom) <= 1
  BY FS_EmptySet DEF Idle, Jobs, Lookups
<1>4. ASSUME Finish(p), Unwritten, NEW found \in {{}, stale[p]},
             stale' = [stale EXCEPT ![p] = found]
      PROVE  ExpiryInv'
  <2>1. job' = [job EXCEPT ![p] = Idle]
    BY <1>4 DEF Finish
  <2> QED BY <1>1, <1>2, <1>3, <1>4, <2>1, LookingStep
<1>5. CASE Collect(p)
  <2> DEFINE j == [job[p] EXCEPT !.at = "section", !.todo = {k \in Keys : Due(k)}]
  <2>1. job[p].at = "collect" /\ Unwritten /\ stale' = stale /\ job' = [job EXCEPT ![p] = j]
    BY <1>1, <1>5 DEF Collect, Jobs
  <2>2. j \in Jobs /\ j.doom = job[p].doom
    BY <1>1 DEF Jobs
  <2>3. \A e \in stale[p] : e[2] \in j.todo
    BY <1>1, <1>2 DEF Jobs
  <2> HIDE DEF j
  <2> QED BY <1>1, <1>2, <2>1, <2>2, <2>3, LookingStep
<1>6. CASE CheckDeadline(p)
  <2>1. PICK k \in job[p].todo :
          job' = [job EXCEPT ![p].todo = @ \ {k}, ![p].doom = IF Due(k) THEN {k} ELSE {}]
    BY <1>6 DEF CheckDeadline
  <2> DEFINE j == [job[p] EXCEPT !.todo = @ \ {k}, !.doom = IF Due(k) THEN {k} ELSE {}]
  <2>2. /\ job[p].at = "section" /\ job[p].doom = {} /\ Unwritten /\ stale' = stale
        /\ job' = [job EXCEPT ![p] = j]
    BY <1>1, <1>6, <2>1, ZenonT(30) DEF CheckDeadline, Jobs
  <2>3. /\ j \in Jobs /\ j.op = job[p].op /\ j.todo = job[p].todo \ {k}
        /\ j.doom = (IF Due(k) THEN {k} ELSE {})
    BY <1>1, <2>1 DEF Jobs
  <2> HIDE DEF j
  <2>4. Cardinality(j.doom) <= 1 /\ \A x \in j.doom : Due(x)
    <3>1. CASE Due(k)
      <4>1. j.doom = {k}
        BY <2>3, <3>1
      <4> QED BY <3>1, <4>1, FS_Singleton
    <3>2. CASE ~Due(k)
      <4>1. j.doom = {}
        BY <2>3, <3>2
      <4> QED BY <4>1, FS_EmptySet
    <3> QED BY <3>1, <3>2
  <2>5. j.op \in Lookups => \A e \in stale[p] : e[2] \in j.todo \cup j.doom
    <3> SUFFICES ASSUME j.op \in Lookups, NEW e \in stale[p]
                 PROVE  e[2] \in j.todo \cup j.doom
      OBVIOUS
    <3>1. e[2] \in job[p].todo
      BY <2>2, <2>3 DEF ExpiryInv, StaleIsAhead
    <3> QED BY <1>2, <2>3, <3>1
  <2> QED BY <1>1, <1>2, <2>2, <2>3, <2>4, <2>5, LookingStep
<1>7. CASE incrementFails(p)
  BY <1>1, <1>4, <1>7 DEF incrementFails
<1>8. CASE remove(p)
  <2>1. Unwritten /\ stale' = stale /\ job[p].op = "POP" /\ job[p].doom = {}
    BY <1>8 DEF remove, Section
  <2>2. CASE Finish(p)
    BY <1>1, <1>4, <2>1, <2>2
  <2>3. CASE job' = [job EXCEPT ![p].at = "drop"]
    <3> DEFINE j == [job[p] EXCEPT !.at = "drop"]
    <3>1. /\ job' = [job EXCEPT ![p] = j] /\ j \in Jobs
          /\ j.op \notin Lookups /\ j.doom = job[p].doom
      BY <1>1, <2>1, <2>3 DEF Jobs, Lookups
    <3> HIDE DEF j
    <3> QED BY <1>1, <1>2, <2>1, <3>1, LookingStep
  <2> QED BY <1>8, <2>2, <2>3 DEF remove
<1>9. CASE read(p)
  BY <1>4, <1>9 DEF read
<1> QED BY <1>5, <1>6, <1>7, <1>8, <1>9

\* The deletion of expireIfNeeded, under any number of other goroutines.
LEMMA EvictKeeps ==
  ASSUME ExpiryInv, NEW p \in Procs, Evict(p)
  PROVE  ExpiryInv'
<1> DEFINE doom == job[p].doom
<1>1. /\ entries' = entries \ Of(doom) /\ Record({})
      /\ Expires' = [k \in Keys |-> IF k \in doom THEN "none" ELSE Expires[k]]
      /\ job' = [job EXCEPT ![p].doom = {}]
  BY DEF Evict
<1>2. entries' \subseteq Places /\ Expires' \in [Keys -> Deadlines]
  BY <1>1 DEF ExpiryInv, TypeOK, Deadlines
<1>3. /\ job' \in [Procs -> Jobs]
      /\ \A q \in Procs : q # p => job'[q] = job[q]
      /\ job'[p].doom = {} /\ job'[p].op = job[p].op /\ job'[p].at = job[p].at
      /\ job'[p].todo = job[p].todo
  BY <1>1 DEF ExpiryInv, TypeOK, Jobs
<1>4. \A e \in entries' : e \in entries /\ e[2] \notin doom /\ Expires'[e[2]] = Expires[e[2]]
  BY <1>1 DEF Of, ExpiryInv, TypeOK, Places
<1> HIDE DEF doom
<1>5. \A q \in Procs : \A e \in entries' :
        e[2] \in job[q].todo \cup job[q].doom => e[2] \in job'[q].todo \cup job'[q].doom
  BY <1>3, <1>4 DEF doom
<1> QED BY <1>1, <1>2, <1>3, <1>4, <1>5, StoringStep, ZenonT(30)

\* The sections of the commands that store, delete or change a deadline.
LEMMA SectionKeeps ==
  ASSUME ExpiryInv, NEW p \in Procs, NEW settled, Record(settled), Finish(p),
         entries' \subseteq Places, Expires' \in [Keys -> Deadlines],
         \A e \in entries' \ entries : e \in settled \/ Expires'[e[2]] = "past",
         \A e \in (entries \cap entries') \ settled :
           Expires[e[2]] = "past" => Expires'[e[2]] = "past"
  PROVE  ExpiryInv'
<1>1. /\ job' \in [Procs -> Jobs]
      /\ \A q \in Procs : job'[q] = (IF q = p THEN Idle ELSE job[q])
  BY DEF ExpiryInv, TypeOK, Finish, Idle, Jobs
<1>2. Idle.op \notin Lookups /\ Idle.doom = {}
  BY DEF Idle, Lookups
<1>3. \A q \in Procs : job'[q].doom = job[q].doom \/ job'[q].doom = {}
  BY <1>1, <1>2
<1>4. \A q \in Procs : job'[q].op \in Lookups => job'[q] = job[q]
  BY <1>1, <1>2
<1> QED BY <1>1, <1>3, <1>4, StoringStep

\* INCR, the pushes, the removals, DEL, EXPIRE and PERSIST.
LEMMA CommandKeeps ==
  ASSUME ExpiryInv, NEW p \in Procs,
         \/ increment(p) \/ getOrCreate(p) \/ dropEmptied(p) \/ DeleteKey(p)
         \/ setExpire(p) \/ persist(p)
  PROVE  ExpiryInv'
<1>1. /\ entries \subseteq Places /\ Expires \in [Keys -> Deadlines]
      /\ \A m \in {"Store", "Lists"}, k \in Keys : <<m, k>> \in Places /\ <<m, k>>[2] = k
      /\ \A e \in Places : e[2] \in Keys
  BY DEF ExpiryInv, TypeOK, Places
<1>2. CASE increment(p)
  <2>1. PICK k \in Keys : /\ entries' = entries \cup {<<"Store", k>>} /\ Expires' = Expires
                          /\ Finish(p)
                          /\ Record(IF Due(k) THEN {} ELSE {<<"Store", k>>})
    BY <1>2 DEF increment
  <2> QED BY <1>1, <2>1, SectionKeeps DEF Due
<1>3. CASE getOrCreate(p)
  <2>1. PICK k \in Keys : /\ entries' = entries \cup {<<"Lists", k>>} /\ Expires' = Expires
                          /\ Finish(p) /\ Record({<<"Lists", k>>} \ entries)
    BY <1>3 DEF getOrCreate
  <2> QED BY <1>1, <2>1, SectionKeeps
<1>4. CASE dropEmptied(p)
  <2>1. entries' \subseteq entries /\ Expires' = Expires /\ Finish(p) /\ Record({})
    BY <1>4 DEF dropEmptied
  <2> QED BY <1>1, <2>1, SectionKeeps
<1>5. CASE DeleteKey(p)
  <2> DEFINE ks == job[p].keys
  <2>1. /\ entries' = entries \ Of(ks) /\ Finish(p) /\ Record({})
        /\ Expires' = [k \in Keys |-> IF k \in ks THEN "none" ELSE Expires[k]]
    BY <1>5 DEF DeleteKey
  <2> HIDE DEF ks
  <2>2. entries' \subseteq entries /\ \A e \in entries' : Expires'[e[2]] = Expires[e[2]]
    BY <1>1, <2>1 DEF Of
  <2>3. Expires' \in [Keys -> Deadlines]
    BY <1>1, <2>1 DEF Deadlines
  <2> QED BY <1>1, <2>1, <2>2, <2>3, SectionKeeps
<1>6. ASSUME NEW d \in Deadlines, NEW k \in Keys, entries' = entries,
             Expires' = [Expires EXCEPT ![k] = d] \/ Expires' = Expires,
             Finish(p), Record(Of({k}))
      PROVE  ExpiryInv'
  <2>1. Expires' \in [Keys -> Deadlines]
    BY <1>1, <1>6
  <2>2. \A e \in entries \ Of({k}) : Expires'[e[2]] = Expires[e[2]]
    BY <1>1, <1>6 DEF Of
  <2> QED BY <1>1, <1>6, <2>1, <2>2, SectionKeeps
<1>7. CASE setExpire(p)
  BY <1>6, <1>7 DEF setExpire, Deadlines
<1>8. CASE persist(p)
  BY <1>6, <1>8 DEF persist, Deadlines
<1> QED BY <1>2, <1>3, <1>4, <1>5, <1>7, <1>8

\* SET, and the clock.
LEMMA SetAndClockKeep ==
  ASSUME ExpiryInv, NEW k \in Keys,
         \/ /\ entries' = entries \cup {<<"Store", k>>}
            /\ Expires' = [Expires EXCEPT ![k] = "none"]
            /\ UNCHANGED job
            /\ Record({<<"Store", k>>, <<"Lists", k>>})
         \/ Elapse(k)
  PROVE  ExpiryInv'
<1>1. /\ entries \subseteq Places /\ Expires \in [Keys -> Deadlines] /\ job \in [Procs -> Jobs]
      /\ <<"Store", k>> \in Places
      /\ \A e \in Places : e[2] \in Keys /\ (e[2] = k => e \in {<<"Store", k>>, <<"Lists", k>>})
  BY DEF ExpiryInv, TypeOK, Places
<1>2. CASE Elapse(k)
  <2>1. /\ entries' = entries /\ job' = job /\ Record({})
        /\ Expires' = [Expires EXCEPT ![k] = "past"]
    BY <1>2 DEF Elapse
  <2>2. Expires' \in [Keys -> Deadlines] /\ \A x \in Keys : Expires'[x] = Expires[x] \/ Expires'[x] = "past"
    BY <1>1, <2>1 DEF Deadlines
  <2> QED BY <1>1, <2>1, <2>2, StoringStep
<1>3. CASE ~Elapse(k)
  <2>1. /\ entries' = entries \cup {<<"Store", k>>} /\ job' = job
        /\ Expires' = [Expires EXCEPT ![k] = "none"]
        /\ Record({<<"Store", k>>, <<"Lists", k>>})
    BY <1>3
  <2>2. Expires' \in [Keys -> Deadlines] /\ \A x \in Keys \ {k} : Expires'[x] = Expires[x]
    BY <1>1, <2>1 DEF Deadlines
  <2>3. \A e \in entries \ {<<"Store", k>>, <<"Lists", k>>} : Expires'[e[2]] = Expires[e[2]]
    BY <1>1, <2>2
  <2> QED BY <1>1, <2>1, <2>2, <2>3, StoringStep
<1> QED BY <1>2, <1>3

-----------------------------------------------------------------------------
(* The theorems.                                                           *)

\* The inductive invariant holds.
LEMMA ExpiryInvariant == Spec => []ExpiryInv
<1>1. Init => ExpiryInv
  <2> SUFFICES ASSUME Init PROVE ExpiryInv
    OBVIOUS
  <2>1. Idle \in Jobs /\ Idle.doom = {} /\ Idle.op \notin Lookups
    BY DEF Idle, Jobs, Lookups
  <2>2. TypeOK
    BY <2>1, FS_EmptySet DEF Init, TypeOK, Deadlines
  <2>3. PastIsMortal /\ EvictsOnlyDue /\ StaleIsDue /\ StaleIsAhead
    BY DEF Init, PastIsMortal, EvictsOnlyDue, StaleIsDue, StaleIsAhead, Of
  <2> QED BY <2>2, <2>3 DEF ExpiryInv
<1>2. ExpiryInv /\ [Next]_vars => ExpiryInv'
  <2> SUFFICES ASSUME ExpiryInv, [Next]_vars PROVE ExpiryInv'
    OBVIOUS
  <2>1. CASE UNCHANGED vars
    BY <2>1 DEF vars, ExpiryInv, TypeOK, PastIsMortal, EvictsOnlyDue, StaleIsDue, StaleIsAhead,
                Of, Due
  <2>2. ASSUME NEW p \in Writers, Write(p) \/ set(p) PROVE ExpiryInv'
    BY <2>2, ArrivalKeeps, SetAndClockKeep DEF set, Procs
  <2>3. ASSUME NEW p \in Readers, mget(p) \/ keysCmd(p) PROVE ExpiryInv'
    BY <2>3, ArrivalKeeps DEF Procs
  <2>4. CASE expiryLoop
    BY <2>4, ArrivalKeeps DEF Procs
  <2>5. ASSUME NEW p \in Procs, Step(p) PROVE ExpiryInv'
    BY <2>5, LookKeeps, EvictKeeps, CommandKeeps DEF Step
  <2>6. ASSUME NEW k \in Keys, Elapse(k) PROVE ExpiryInv'
    BY <2>6, SetAndClockKeep
  <2> QED BY <2>1, <2>2, <2>3, <2>4, <2>5, <2>6 DEF Next
<1> QED BY <1>1, <1>2, PTL DEF Spec

\* For any connections and keys: a goroutine deletes one key at a time, and
\* what the history records is about entries that exist.
THEOREM TypeCorrect == Spec => []TypeOK
  BY ExpiryInvariant, PTL DEF ExpiryInv

\* For any number of writers, readers and keys, expireIfNeeded deletes only what
\* was due since its lifetime was settled, or was settled between its look at
\* the deadline and its deletion (database.go 195-212).
THEOREM EvictionIsDue == Spec => []EvictsOnlyDue
  BY ExpiryInvariant, PTL DEF ExpiryInv

\* For any number of writers, readers and keys, a lookup whose checks are done
\* does not see what was due when it arrived (string_commands.go 42,
\* database.go 339-356, admin_commands.go 17): its checks have found each such
\* entry still due and deleted it.
THEOREM LookupsSeeNothingExpired == Spec => []ReadsNothingExpired
<1>1. ExpiryInv => ReadsNothingExpired
  <2> SUFFICES ASSUME ExpiryInv, NEW p \in Procs, NEW op \in Lookups, Section(p, op)
               PROVE  stale[p] = {}
    BY DEF ReadsNothingExpired
  <2> QED BY DEF ExpiryInv, StaleIsAhead, Section
<1> QED BY <1>1, ExpiryInvariant, PTL
=============================================================================
