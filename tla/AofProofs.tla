----------------------------- MODULE AofProofs -----------------------------
(***************************************************************************)
(* Theorems about Aof, for any number of connections, databases, commands, *)
(* elements of a command and restarts: types, what a replay applies, in    *)
(* which order, and how much of it a half-written entry can swallow.       *)
(***************************************************************************)
EXTENDS Aof, Extrema, FiniteSetTheorems, SequenceTheorems, TLAPS

-----------------------------------------------------------------------------
(* The inductive invariant.                                                *)

\* The entries in the file that are not being written.
Settled == IF pending # << >> /\ pending[1].got > 0 THEN Len(file) - 1 ELSE Len(file)

\* The state of Read before the entry that is being written, or comes next.
AtEnd == Reading(file)[Settled]

\* The holder of aof.mutex has to write a marker, if there is one, and its command,
\* and has begun with the first of these at most.
PendingIsRest ==
  /\ writer = None => pending = << >>
  /\ writer # None =>
       /\ open /\ lastDB = job[writer].db
       /\ Len(pending) \in {1, 2} /\ ~Whole(pending[1])
       /\ Len(pending) = 2 => /\ pending[1].kind = "SELECT" /\ pending[1].n = lastDB
                              /\ pending[2] = WriteEntry(job[writer].id, job[writer].size)
       /\ Len(pending) = 1 => pending[1].kind = "WRITE" /\ pending[1].n = job[writer].id
       /\ pending[1].got > 0 => Len(file) > 0 /\ file[Len(file)] = pending[1]

\* As long as no process has found half an entry, no array is open before the
\* entry that is being written, and that goes to the database of the last marker.
EntriesAreWhole ==
  ~torn => /\ AtEnd.wanted = 0
           /\ lastDB # None /\ Len(pending) # 2 => AtEnd.db = lastDB

\* A connection with a command, and one whose command is not in the log yet.
Busy(c)   == pc[c] # "idle"
Behind(c) == pc[c] \in {"execute", "append", "write"}

\* A command is appended once and answered after that.
CommandsAreNew ==
  /\ acked \subseteq 1 .. issued
  /\ \A c \in Clients : Busy(c) => /\ job[c].id \in (1 .. issued) \ acked
                                   /\ home[job[c].id] = job[c].db /\ job[c].size \in Sizes
  /\ \A b, c \in Clients : Busy(b) /\ Busy(c) /\ job[b].id = job[c].id => b = c
  /\ \A i \in Replayed(file) : WriteAt(file, i) \in 1 .. issued
  /\ \A c \in Clients, i \in Replayed(file) : Behind(c) => WriteAt(file, i) # job[c].id

\* Commands come after what was answered before them.
BeforeIsAcked == \A w \in Writes : before[w] \subseteq acked /\ w \notin before[w]

\* What was answered before a sync and is replayed is in the part of the file that
\* was synced.
KeptIsSynced ==
  \A w \in kept : /\ w \in acked \ (refused \cup lost)
                  /\ \A i \in Replayed(file) : WriteAt(file, i) = w => i <= synced

\* Commands are replayed once, and on their database if no entry was torn.
ReplayIsFaithful ==
  /\ \A i, j \in Replayed(file) : WriteAt(file, i) = WriteAt(file, j) => i = j
  /\ torn \/ \A i \in Replayed(file) : CurrentDB(file, i) = home[WriteAt(file, i)]

\* The commands that are answered, or about to be, and are not replayed.
Answered == acked \cup {job[c].id : c \in {d \in Clients : pc[d] = "reply"}}
Missed   == Answered \ (refused \cup lost \cup WritesIn(file))

\* The commands that may still go that way: one for every value that Read wants,
\* but for the one that is going to be a marker.
Outstanding ==
  IF lastDB = None THEN 0
  ELSE IF Len(pending) = 2 /\ AtEnd.wanted > 0 THEN AtEnd.wanted - 1 ELSE AtEnd.wanted

LossIsOwed == Cardinality(Missed) + Outstanding <= owed

AofInv ==
  /\ TypeOK /\ PendingIsRest /\ EntriesAreWhole /\ CommandsAreNew /\ BeforeIsAcked
  /\ KeptIsSynced /\ ReplayIsFaithful /\ LossIsOwed /\ LogInRealTimeOrder

\* A database as the log has it once the append under way is done: file f, writer
\* w, jobs j.
InLog(f, w, j, d) ==
  IF w # None /\ j[w].db = d THEN Append(Read(f)[d], j[w].id) ELSE Read(f)[d]

\* The connections with a command on d that is executed and not in line for the log.
Ahead(at, j, d) == {c \in Clients : at[c] = "append" /\ j[c].db = d}

\* The connections ahead are at most one, and its command is all that memory m has
\* more than the log l.
Follows(m, l, ahead, j) ==
  /\ \A b, c \in ahead : b = c
  /\ \A c \in ahead : m = Append(l, j[c].id)
  /\ ahead = {} => m = l

\* So it is with every database that had no race, as long as the file is open.
MemoryFollowsLog ==
  open /\ ~torn => \A d \in Databases \ raced :
    Follows(mem[d], InLog(file, writer, job, d), Ahead(pc, job, d), job)

-----------------------------------------------------------------------------
(* Reading a file.                                                         *)

\* Values that are there in any case.
LEMMA SmallestValues ==
  /\ 0 \in Databases /\ NoJob \in [db : Databases, id : 0 .. MaxWrites, size : {0} \cup Sizes]
  /\ None \notin Clients /\ None \notin Databases
  /\ NumDatabases \in Nat \ {0} /\ MaxWrites \in Nat
  BY AofAssumption DEF Databases, NoJob, None

\* The fields of an entry.
LEMMA EntryFields ==
  ASSUME NEW e \in Entries
  PROVE  /\ e.kind \in {"SELECT", "WRITE"} /\ e.size \in Nat \ {0, 1} /\ e.got \in 0 .. e.size
         /\ Lacks(e) \in Nat
         /\ e.kind = "SELECT" => e.n \in Databases /\ e.size = 2
         /\ e.kind = "WRITE" => e.n \in Writes /\ e.size \in Sizes
<1>1. /\ \/ e \in [kind : {"SELECT"}, n : Databases, size : {2}, got : Nat]
         \/ e \in [kind : {"WRITE"}, n : Writes, size : Sizes, got : Nat]
      /\ e.got <= e.size
  BY DEF Entries
<1>2. \A x \in Sizes : x \in Nat /\ x # 0 /\ x # 1
  BY AofAssumption
<1>3. CASE e \in [kind : {"SELECT"}, n : Databases, size : {2}, got : Nat]
  <2>1. e.kind = "SELECT" /\ e.n \in Databases /\ e.size = 2 /\ e.got \in Nat
    BY <1>3
  <2> QED BY <1>1, <2>1 DEF Lacks
<1>4. CASE e \in [kind : {"WRITE"}, n : Writes, size : Sizes, got : Nat]
  <2>1. e.kind = "WRITE" /\ e.n \in Writes /\ e.size \in Sizes /\ e.got \in Nat
    BY <1>4
  <2> QED BY <1>1, <1>2, <2>1 DEF Lacks
<1> QED BY <1>1, <1>3, <1>4

\* An entry is made of its fields.
LEMMA EntryTyped ==
  ASSUME NEW kind, NEW n, NEW size, NEW got \in Nat, got <= size,
         \/ kind = "SELECT" /\ n \in Databases /\ size = 2
         \/ kind = "WRITE" /\ n \in Writes /\ size \in Sizes
  PROVE  [kind |-> kind, n |-> n, size |-> size, got |-> got] \in Entries
  BY DEF Entries

\* The states of Read.
ReadStates == [wanted : Nat, command : BOOLEAN, db : Databases,
               dbs : [Databases -> Seq(0 .. MaxWrites)]]

\* Executing a command keeps the databases' type.
LEMMA ApplyTyped ==
  ASSUME NEW s \in ReadStates, NEW n \in 0 .. MaxWrites
  PROVE  Apply(s, n) \in [Databases -> Seq(0 .. MaxWrites)]
<1>1. s.dbs \in [Databases -> Seq(0 .. MaxWrites)] /\ s.db \in Databases
  BY DEF ReadStates
<1>2. s.dbs[s.db] \in Seq(0 .. MaxWrites)
  BY <1>1
<1>3. Append(s.dbs[s.db], n) \in Seq(0 .. MaxWrites)
  BY <1>2, AppendProperties
<1> QED BY <1>1, <1>3 DEF Apply

\* What Read does with an entry.
LEMMA ReadEntryFacts ==
  ASSUME NEW s \in ReadStates, NEW e \in Entries
  PROVE  /\ ReadEntry(s, e) \in ReadStates
         /\ s.wanted = 0 => ReadEntry(s, e).wanted = Lacks(e)
         /\ s.wanted > 0 => ReadEntry(s, e).wanted = (s.wanted - 1) + Lacks(e)
         /\ s.wanted = 0 /\ ~Whole(e) => /\ ReadEntry(s, e).db = s.db
                                         /\ ReadEntry(s, e).dbs = s.dbs
         /\ s.wanted = 0 /\ Whole(e) /\ e.kind = "SELECT" => /\ ReadEntry(s, e).db = e.n
                                                             /\ ReadEntry(s, e).dbs = s.dbs
         /\ s.wanted = 0 /\ Whole(e) /\ e.kind = "WRITE" =>
              /\ ReadEntry(s, e).db = s.db
              /\ ReadEntry(s, e).dbs = [s.dbs EXCEPT ![s.db] = Append(s.dbs[s.db], e.n)]
<1> DEFINE begins == s.wanted = 0
           wanted == (IF begins THEN 0 ELSE s.wanted - 1) + Lacks(e)
           command == IF begins THEN e.kind = "WRITE" ELSE s.command
           db == IF begins /\ isSelectEntry(e) THEN e.n ELSE s.db
           dbs == IF begins /\ Whole(e) /\ e.kind = "WRITE" THEN Apply(s, e.n)
                  ELSE IF ~begins /\ wanted = 0 /\ s.command THEN Apply(s, 0)
                  ELSE s.dbs
<1>1. ReadEntry(s, e) = [wanted |-> wanted, command |-> command, db |-> db, dbs |-> dbs]
  BY Zenon DEF ReadEntry
<1>2. /\ s.wanted \in Nat /\ s.command \in BOOLEAN /\ s.db \in Databases
      /\ s.dbs \in [Databases -> Seq(0 .. MaxWrites)]
  BY DEF ReadStates
<1>3. /\ Lacks(e) \in Nat /\ e.kind \in {"SELECT", "WRITE"}
      /\ e.kind = "SELECT" => e.n \in Databases
      /\ e.kind = "WRITE" => e.n \in 0 .. MaxWrites
  <2>1. \A w \in Writes : w \in 0 .. MaxWrites
    BY SmallestValues DEF Writes
  <2> QED BY <2>1, EntryFields
<1>4. wanted \in Nat
  BY <1>2, <1>3
<1>5. db \in Databases
  BY <1>2, <1>3 DEF isSelectEntry
<1>6. dbs \in [Databases -> Seq(0 .. MaxWrites)]
  <2>1. Apply(s, 0) \in [Databases -> Seq(0 .. MaxWrites)]
    BY ApplyTyped, SmallestValues
  <2>2. e.kind = "WRITE" => Apply(s, e.n) \in [Databases -> Seq(0 .. MaxWrites)]
    BY <1>3, ApplyTyped
  <2> QED BY <1>2, <2>1, <2>2, Zenon
<1>7. command \in BOOLEAN
  BY <1>2, Zenon
<1>8. /\ ReadEntry(s, e).wanted = wanted /\ ReadEntry(s, e).db = db /\ ReadEntry(s, e).dbs = dbs
  <2> HIDE DEF wanted, command, db, dbs
  <2> QED BY <1>1
<1>9. ReadEntry(s, e) \in ReadStates
  <2> HIDE DEF wanted, command, db, dbs
  <2> QED BY <1>1, <1>4, <1>5, <1>6, <1>7 DEF ReadStates
<1>10. /\ s.wanted = 0 => wanted = Lacks(e)
       /\ s.wanted > 0 => wanted = (s.wanted - 1) + Lacks(e)
  BY <1>2, <1>3
<1>11. s.wanted = 0 /\ ~Whole(e) => db = s.db /\ dbs = s.dbs
  BY Zenon DEF isSelectEntry
<1>12. s.wanted = 0 /\ Whole(e) /\ e.kind = "SELECT" => db = e.n /\ dbs = s.dbs
  BY DEF isSelectEntry
<1>13. s.wanted = 0 /\ Whole(e) /\ e.kind = "WRITE" => db = s.db /\ dbs = Apply(s, e.n)
  BY DEF isSelectEntry
<1>14. Apply(s, e.n) = [s.dbs EXCEPT ![s.db] = Append(s.dbs[s.db], e.n)]
  BY DEF Apply
<1> HIDE DEF begins, wanted, command, db, dbs
<1> QED BY <1>8, <1>9, <1>10, <1>11, <1>12, <1>13, <1>14

\* r[i] is the state of Read behind entry i of f.
IsReading(r, f) ==
  /\ r[0] = ReadNothing
  /\ \A i \in 1 .. Len(f) : r[i] = ReadEntry(r[i - 1], f[i])
  /\ \A i \in 0 .. Len(f) : r[i] \in ReadStates

\* Read goes through the file entry by entry.
LEMMA ReadingRuns ==
  ASSUME NEW f \in Seq(Entries)
  PROVE  IsReading(Reading(f), f)
<1> DEFINE N == Len(f)
           S == ReadStates
           b == ReadNothing
           step == [p \in S \X (1 .. N) |-> ReadEntry(p[1], f[p[2]])]
           body(r) == [i \in 0 .. N |-> IF i = 0 THEN b ELSE ReadEntry(r[i - 1], f[i])]
           after == CHOOSE r : r = body(r)
<1>1. b \in S /\ N \in Nat
  <2>1. << >> \in Seq(0 .. MaxWrites)
    OBVIOUS
  <2> QED BY <2>1, SmallestValues DEF ReadNothing, ReadStates
<1>2. \A a \in S, x \in Entries : ReadEntry(a, x) \in S
  BY ReadEntryFacts
<1>3. step \in [S \X (1 .. N) -> S]
  <2>1. ASSUME NEW p \in S \X (1 .. N)
        PROVE  ReadEntry(p[1], f[p[2]]) \in S
    <3>1. p[1] \in S /\ f[p[2]] \in Entries
      <4> HIDE DEF S
      <4> QED OBVIOUS
    <3> HIDE DEF S
    <3> QED BY <1>2, <3>1
  <2> HIDE DEF S
  <2> QED BY <2>1
<1>4. \A a \in S, i \in 1 .. N : step[<<a, i>>] = ReadEntry(a, f[i])
  <2> HIDE DEF S
  <2> QED OBVIOUS
<1>5. Reading(f) = after
  BY DEF Reading
<1> HIDE DEF S, b, step, N
<1>6. PICK g \in [0 .. N -> S] : IsRecursion(g, b, step, N)
  BY <1>1, <1>3, RecursionExists
<1>7. g = body(g)
  <2>1. ASSUME NEW i \in 0 .. N
        PROVE  g[i] = IF i = 0 THEN b ELSE ReadEntry(g[i - 1], f[i])
    <3>1. CASE i = 0
      BY <1>6, <3>1 DEF IsRecursion
    <3>2. CASE i # 0
      <4>1. i \in 1 .. N /\ i - 1 \in 0 .. N
        BY <1>1, <3>2
      <4> QED BY <1>4, <1>6, <3>2, <4>1 DEF IsRecursion
    <3> QED BY <3>1, <3>2
  <2> QED BY <2>1
<1>8. after = body(after)
  <2> HIDE DEF body
  <2> QED BY <1>7
<1> HIDE DEF after
<1>9. after[0] = b /\ \A i \in 1 .. N : after[i] = ReadEntry(after[i - 1], f[i])
  BY <1>1, <1>8
<1>10. \A i \in 0 .. N : after[i] \in S
  <2> DEFINE T == {i \in Nat : i <= N => after[i] \in S}
  <2>1. 0 \in T
    BY <1>1, <1>9
  <2>2. ASSUME NEW i \in Nat, i \in T
        PROVE  i + 1 \in T
    <3> SUFFICES ASSUME i + 1 <= N PROVE after[i + 1] \in S
      OBVIOUS
    <3>1. after[i] \in S /\ i + 1 \in 1 .. N /\ (i + 1) - 1 = i
      BY <1>1, <2>2
    <3>2. f[i + 1] \in Entries
      BY <3>1 DEF N
    <3> QED BY <1>2, <1>9, <3>1, <3>2
  <2> HIDE DEF T
  <2>3. \A i \in Nat : i \in T
    BY <2>1, <2>2, InductionSet
  <2> QED BY <1>1, <2>3 DEF T
<1> QED BY <1>5, <1>9, <1>10 DEF N, S, b, IsReading

\* What is replayed, and where Read is then.
LEMMA ReplayedFacts ==
  ASSUME NEW f \in Seq(Entries)
  PROVE  /\ Len(f) \in Nat
         /\ \A i : i \in Replayed(f) <=> /\ i \in 1 .. Len(f) /\ f[i].kind = "WRITE"
                                         /\ Whole(f[i]) /\ Reading(f)[i - 1].wanted = 0
         /\ \A i \in Replayed(f) : f[i] \in Entries /\ WriteAt(f, i) \in Writes
<1>1. \A i : i \in Replayed(f) <=> /\ i \in 1 .. Len(f) /\ f[i].kind = "WRITE"
                                   /\ Whole(f[i]) /\ Reading(f)[i - 1].wanted = 0
  BY DEF Replayed
<1>2. ASSUME NEW i \in Replayed(f) PROVE f[i] \in Entries /\ WriteAt(f, i) \in Writes
  <2>1. i \in 1 .. Len(f) /\ f[i].kind = "WRITE"
    BY <1>1
  <2>2. f[i] \in Entries
    BY <2>1
  <2> QED BY <2>1, <2>2, EntryFields DEF WriteAt
<1> QED BY <1>1, <1>2

\* An entry at an earlier time.
Sooner(d, e) == d.kind = e.kind /\ d.n = e.n /\ d.size = e.size /\ d.got <= e.got

\* g is the beginning of f: a file at an earlier time, or what is left of one.
CutOf(g, f) ==
  /\ Len(g) <= Len(f)
  /\ \A i \in 1 .. Len(g) : i # Len(g) => g[i] = f[i]
  /\ \A i \in 1 .. Len(g) : Sooner(g[i], f[i])

\* Read comes through entries in the same way, whatever follows.
LEMMA ReadingSame ==
  ASSUME NEW f \in Seq(Entries), NEW g \in Seq(Entries), NEW n \in Nat, n <= Len(f), n <= Len(g),
         \A i \in 1 .. n : g[i] = f[i]
  PROVE  \A i \in 0 .. n : Reading(g)[i] = Reading(f)[i]
<1> DEFINE r == Reading(f)
           q == Reading(g)
           T == {i \in Nat : i <= n => q[i] = r[i]}
<1>1. Len(f) \in Nat /\ Len(g) \in Nat
  OBVIOUS
<1>2. /\ r[0] = ReadNothing /\ \A i \in 1 .. Len(f) : r[i] = ReadEntry(r[i - 1], f[i])
      /\ q[0] = ReadNothing /\ \A i \in 1 .. Len(g) : q[i] = ReadEntry(q[i - 1], g[i])
  BY ReadingRuns DEF IsReading
<1> HIDE DEF r, q
<1>3. 0 \in T
  BY <1>2
<1>4. ASSUME NEW i \in Nat, i \in T PROVE i + 1 \in T
  <2> SUFFICES ASSUME i + 1 <= n PROVE q[i + 1] = r[i + 1]
    OBVIOUS
  <2>1. /\ q[i] = r[i] /\ (i + 1) - 1 = i
        /\ i + 1 \in 1 .. Len(g) /\ i + 1 \in 1 .. Len(f) /\ i + 1 \in 1 .. n
    BY <1>1, <1>4
  <2>2. q[i + 1] = ReadEntry(q[i], g[i + 1]) /\ r[i + 1] = ReadEntry(r[i], f[i + 1])
    BY <1>2, <2>1
  <2> QED BY <2>1, <2>2
<1> HIDE DEF T
<1>5. \A i \in Nat : i \in T
  BY <1>3, <1>4, InductionSet
<1>6. \A i \in 0 .. n : q[i] = r[i]
  BY <1>5 DEF T
<1> QED BY <1>6 DEF q, r

\* So it is with the beginning of a file.
LEMMA CutReading ==
  ASSUME NEW f \in Seq(Entries), NEW g \in Seq(Entries), CutOf(g, f)
  PROVE  \A i \in 1 .. Len(g) : Reading(g)[i - 1] = Reading(f)[i - 1]
<1>1. Len(f) \in Nat /\ Len(g) \in Nat /\ Len(g) <= Len(f)
  BY DEF CutOf
<1>2. CASE Len(g) = 0
  BY <1>1, <1>2
<1>3. CASE Len(g) > 0
  <2> DEFINE n == Len(g) - 1
  <2>1. n \in Nat /\ n = Len(g) - 1
    BY <1>1, <1>3
  <2> HIDE DEF n
  <2>2. n <= Len(f) /\ n <= Len(g) /\ \A i \in 1 .. n : i \in 1 .. Len(g) /\ i # Len(g)
    BY <1>1, <2>1
  <2>3. \A i \in 1 .. n : g[i] = f[i]
    BY <2>2 DEF CutOf
  <2>4. \A i \in 0 .. n : Reading(g)[i] = Reading(f)[i]
    BY <2>1, <2>2, <2>3, ReadingSame
  <2>5. \A i \in 1 .. Len(g) : i - 1 \in 0 .. n
    BY <1>1, <2>1
  <2> QED BY <2>4, <2>5
<1> QED BY <1>1, <1>2, <1>3

\* So it replays the same commands, on the same databases.
LEMMA CutReplay ==
  ASSUME NEW f \in Seq(Entries), NEW g \in Seq(Entries), CutOf(g, f)
  PROVE  /\ \A i : i \in Replayed(g) <=> i \in Replayed(f) /\ i \in 1 .. Len(g) /\ Whole(g[i])
         /\ \A i \in 1 .. Len(g) : i \in 1 .. Len(f) /\ WriteAt(g, i) = WriteAt(f, i)
                                   /\ CurrentDB(g, i) = CurrentDB(f, i)
         /\ WritesIn(g) \subseteq WritesIn(f)
<1>1. \A i \in 1 .. Len(g) : /\ i \in 1 .. Len(f) /\ Reading(g)[i - 1] = Reading(f)[i - 1]
                             /\ g[i] \in Entries /\ f[i] \in Entries /\ Sooner(g[i], f[i])
  <2>1. Len(f) \in Nat /\ Len(g) \in Nat /\ Len(g) <= Len(f)
    BY DEF CutOf
  <2>2. \A i \in 1 .. Len(g) : i \in 1 .. Len(f) /\ Sooner(g[i], f[i])
    BY <2>1 DEF CutOf
  <2>3. \A i \in 1 .. Len(g) : g[i] \in Entries /\ f[i] \in Entries
    BY <2>2
  <2> QED BY <2>2, <2>3, CutReading
<1>2. \A d, e \in Entries : Sooner(d, e) /\ Whole(d) => Whole(e)
  <2> SUFFICES ASSUME NEW d \in Entries, NEW e \in Entries, Sooner(d, e), Whole(d)
               PROVE  Whole(e)
    OBVIOUS
  <2>1. d.got \in 0 .. d.size /\ d.size \in Nat /\ e.got \in 0 .. e.size /\ e.size \in Nat
    BY EntryFields
  <2>2. d.size = e.size /\ d.got <= e.got /\ d.size - d.got = 0
    BY DEF Sooner, Whole, Lacks
  <2>3. e.size - e.got = 0
    BY <2>1, <2>2
  <2> QED BY <2>3 DEF Whole, Lacks
<1>3. \A i \in 1 .. Len(g) : /\ g[i].kind = f[i].kind /\ g[i].n = f[i].n
                             /\ Whole(g[i]) => Whole(f[i])
  BY <1>1, <1>2 DEF Sooner
<1>4. \A i : i \in Replayed(g) <=> i \in Replayed(f) /\ i \in 1 .. Len(g) /\ Whole(g[i])
  BY <1>1, <1>3, ReplayedFacts
<1>5. \A i \in 1 .. Len(g) : WriteAt(g, i) = WriteAt(f, i) /\ CurrentDB(g, i) = CurrentDB(f, i)
  BY <1>1, <1>3 DEF WriteAt, CurrentDB
<1> QED BY <1>1, <1>4, <1>5 DEF WritesIn

-----------------------------------------------------------------------------
(* Steps that leave the file alone.                                        *)

\* The end of the file, and how much may be missed.
LEMMA EndFacts ==
  ASSUME AofInv
  PROVE  /\ file \in Seq(Entries) /\ pending \in Seq(Entries) /\ Len(file) \in Nat
         /\ Settled \in 0 .. Len(file) /\ AtEnd \in ReadStates /\ AtEnd.wanted \in Nat
         /\ Outstanding \in Nat /\ owed \in Nat
<1>1. file \in Seq(Entries) /\ pending \in Seq(Entries) /\ owed \in Nat
  BY DEF AofInv, TypeOK
<1>2. Len(file) \in Nat
  BY <1>1
<1>3. Settled \in 0 .. Len(file)
  <2>1. CASE pending # << >> /\ pending[1].got > 0
    <3>1. Len(file) > 0
      BY <2>1 DEF AofInv, PendingIsRest
    <3> QED BY <1>2, <2>1, <3>1 DEF Settled
  <2>2. CASE ~(pending # << >> /\ pending[1].got > 0)
    BY <1>2, <2>2 DEF Settled
  <2> QED BY <2>1, <2>2
<1>4. AtEnd \in ReadStates
  BY <1>1, <1>3, ReadingRuns DEF IsReading, AtEnd
<1>5. AtEnd.wanted \in Nat
  BY <1>4 DEF ReadStates
<1>6. Outstanding \in Nat
  BY <1>5 DEF Outstanding
<1> QED BY <1>1, <1>2, <1>3, <1>4, <1>5, <1>6

\* A command that is under way.
LEMMA JobFacts ==
  ASSUME AofInv, NEW c \in Clients, Busy(c)
  PROVE  /\ job[c].db \in Databases /\ job[c].id \in Writes /\ job[c].id \in 1 .. issued
         /\ job[c].size \in Sizes /\ home[job[c].id] = job[c].db /\ job[c].id \notin acked
<1>1. job[c].db \in Databases /\ issued \in 0 .. MaxWrites
  BY DEF AofInv, TypeOK
<1>2. /\ job[c].id \in 1 .. issued /\ job[c].size \in Sizes /\ home[job[c].id] = job[c].db
      /\ job[c].id \notin acked
  BY DEF AofInv, CommandsAreNew
<1>3. job[c].id \in Writes
  BY <1>1, <1>2, SmallestValues DEF Writes
<1> QED BY <1>1, <1>2, <1>3

\* The commands that are missed are so many.
LEMMA MissedFacts ==
  ASSUME AofInv
  PROVE  IsFiniteSet(Missed) /\ Cardinality(Missed) \in Nat
<1>1. IsFiniteSet(Writes)
  BY SmallestValues, FS_Interval DEF Writes
<1>2. acked \subseteq Writes
  BY DEF AofInv, TypeOK
<1>3. \A c \in Clients : pc[c] = "reply" => job[c].id \in Writes
  BY JobFacts DEF Busy
<1>4. Missed \in SUBSET Writes
  BY <1>2, <1>3 DEF Missed, Answered
<1> QED BY <1>1, <1>4, FS_Subset, FS_CardinalityType

\* Nothing more is missed and nothing more can be.
LEMMA LossKeeps ==
  ASSUME AofInv, Missed' \subseteq Missed, Outstanding' \in Nat, owed' \in Nat,
         Outstanding' + owed <= Outstanding + owed'
  PROVE  LossIsOwed'
<1>1. IsFiniteSet(Missed) /\ Cardinality(Missed) \in Nat
  BY MissedFacts
<1>2. Cardinality(Missed') \in Nat /\ Cardinality(Missed') <= Cardinality(Missed)
  BY <1>1, FS_Subset, FS_CardinalityType
<1>3. Cardinality(Missed) + Outstanding <= owed /\ Outstanding \in Nat /\ owed \in Nat
  BY EndFacts DEF AofInv, LossIsOwed
<1>4. \A m, n, p, q, r, s \in Nat : n <= m /\ m + p <= r /\ q + r <= p + s => n + q <= s
  OBVIOUS
<1>5. Cardinality(Missed') + Outstanding' <= owed'
  BY <1>1, <1>2, <1>3, <1>4, Zenon
<1> QED BY <1>5 DEF LossIsOwed

\* One command more is missed, and one less can be.
LEMMA LossShifts ==
  ASSUME AofInv, NEW w, Missed' \subseteq Missed \cup {w}, Outstanding' \in Nat, owed' \in Nat,
         (Outstanding' + 1) + owed <= Outstanding + owed'
  PROVE  LossIsOwed'
<1>1. IsFiniteSet(Missed) /\ Cardinality(Missed) \in Nat
  BY MissedFacts
<1>2. /\ IsFiniteSet(Missed \cup {w}) /\ Cardinality(Missed \cup {w}) \in Nat
      /\ Cardinality(Missed \cup {w}) <= Cardinality(Missed) + 1
  <2>1. IsFiniteSet(Missed \cup {w})
    BY <1>1, FS_AddElement
  <2>2. \/ Cardinality(Missed \cup {w}) = Cardinality(Missed)
        \/ Cardinality(Missed \cup {w}) = Cardinality(Missed) + 1
    BY <1>1, FS_AddElement
  <2> QED BY <1>1, <2>1, <2>2
<1>3. Cardinality(Missed') \in Nat /\ Cardinality(Missed') <= Cardinality(Missed \cup {w})
  BY <1>2, FS_Subset, FS_CardinalityType
<1>4. Cardinality(Missed) + Outstanding <= owed /\ Outstanding \in Nat /\ owed \in Nat
  BY EndFacts DEF AofInv, LossIsOwed
<1>5. \A k, m, n, p, q, r, s \in Nat :
        n <= k /\ k <= m + 1 /\ m + p <= r /\ (q + 1) + r <= p + s => n + q <= s
  OBVIOUS
<1>6. Cardinality(Missed') + Outstanding' <= owed'
  BY <1>1, <1>2, <1>3, <1>4, <1>5, Zenon
<1> QED BY <1>6 DEF LossIsOwed

\* A step that leaves the file alone, and neither answers nor refuses a command.
LEMMA LossStays ==
  ASSUME AofInv, UNCHANGED <<file, pending, lastDB, owed>>, Missed' \subseteq Missed
  PROVE  LossIsOwed'
<1>1. Outstanding' = Outstanding
  BY DEF Outstanding, AtEnd, Settled
<1>2. Outstanding \in Nat /\ owed \in Nat
  BY EndFacts
<1> QED BY <1>1, <1>2, LossKeeps

\* SELECT.
LEMMA SelectKeeps ==
  ASSUME AofInv, NEW c \in Clients, Select(c)
  PROVE  AofInv'
<1>1. UNCHANGED <<mem, pc, job, file, synced, pending, writer, lastDB, open, issued, home,
                  acked, before, torn, owed, refused, lost, kept, raced>>
  BY DEF Select, log, history
<1>2. selected' \in [Clients -> Databases]
  <2>1. PICK index \in -1 .. NumDatabases :
          selected' = IF index < 0 \/ index >= NumDatabases THEN selected
                      ELSE [selected EXCEPT ![c] = index]
    BY DEF Select
  <2>2. selected \in [Clients -> Databases]
    BY DEF AofInv, TypeOK
  <2>3. index < 0 \/ index >= NumDatabases \/ index \in Databases
    BY AofAssumption DEF Databases
  <2> QED BY <2>1, <2>2, <2>3
<1>3. TypeOK'
  BY <1>1, <1>2 DEF AofInv, TypeOK
<1>4. LossIsOwed'
  BY <1>1 DEF AofInv, LossIsOwed, Missed, Answered, Outstanding, AtEnd, Settled
<1> QED
  BY <1>1, <1>3, <1>4 DEF AofInv, PendingIsRest, EntriesAreWhole, AtEnd, Settled, CommandsAreNew,
     Busy, Behind, BeforeIsAcked, KeptIsSynced, ReplayIsFaithful, LogInRealTimeOrder

\* A command is issued, with a new number.
LEMMA IssueKeeps ==
  ASSUME AofInv, NEW c \in Clients, Issue(c)
  PROVE  AofInv'
<1>1. /\ pc[c] = "idle" /\ issued < MaxWrites /\ issued' = issued + 1
      /\ UNCHANGED <<selected, mem, file, synced, pending, writer, lastDB, open, acked, torn,
                     owed, refused, lost, kept, raced>>
  BY DEF Issue, log
<1> DEFINE w == issued + 1
<1>2. w \in Writes /\ w \in 1 .. issued' /\ w \notin 1 .. issued /\ 1 .. issued \subseteq 1 .. issued'
  BY <1>1, SmallestValues DEF AofInv, TypeOK, Writes
<1>3. PICK size \in Sizes :
      /\ before' = [before EXCEPT ![w] = acked]
      /\ job' = [job EXCEPT ![c] = [db |-> selected[c], id |-> w, size |-> size]]
      /\ home' = [home EXCEPT ![w] = selected[c]]
      /\ pc' = [pc EXCEPT ![c] = "execute"]
  BY DEF Issue
<1>4. TypeOK /\ selected[c] \in Databases
  BY DEF AofInv, TypeOK
<1> HIDE DEF w
<1>5. /\ before' \in [Writes -> SUBSET Writes] /\ home' \in [Writes -> Databases]
      /\ pc' \in [Clients -> {"idle", "execute", "append", "write", "reply"}]
      /\ \A v \in Writes : /\ before'[v] = IF v = w THEN acked ELSE before[v]
                           /\ home'[v] = IF v = w THEN selected[c] ELSE home[v]
      /\ \A b \in Clients : pc'[b] = IF b = c THEN "execute" ELSE pc[b]
  BY <1>2, <1>3, <1>4 DEF TypeOK
<1>6. job' \in [Clients -> [db : Databases, id : 0 .. MaxWrites, size : {0} \cup Sizes]]
  <2>1. [db |-> selected[c], id |-> w, size |-> size]
          \in [db : Databases, id : 0 .. MaxWrites, size : {0} \cup Sizes]
    BY <1>2, <1>4 DEF Writes
  <2> QED BY <1>3, <1>4, <2>1 DEF TypeOK
<1>7. /\ job'[c].db = selected[c] /\ job'[c].id = w /\ job'[c].size \in Sizes
      /\ \A b \in Clients : b # c => job'[b] = job[b]
  BY <1>3, <1>4 DEF TypeOK
<1>8. TypeOK'
  <2>1. \A b \in Clients : pc'[b] = "write" <=> writer' = b
    BY <1>1, <1>4, <1>5 DEF TypeOK
  <2>2. issued' \in 0 .. MaxWrites
    BY <1>1, <1>4, SmallestValues DEF TypeOK
  <2> QED BY <1>1, <1>4, <1>5, <1>6, <2>1, <2>2 DEF TypeOK
<1>9. writer # None => writer \in Clients /\ job'[writer] = job[writer]
  <2>1. writer # c
    BY <1>1, <1>4 DEF TypeOK
  <2> QED BY <1>4, <1>7, <2>1 DEF TypeOK
<1>10. PendingIsRest' /\ EntriesAreWhole'
  BY <1>1, <1>9 DEF AofInv, PendingIsRest, EntriesAreWhole, AtEnd, Settled
<1>11. /\ acked \subseteq 1 .. issued /\ w \notin acked
       /\ \A i \in Replayed(file) : WriteAt(file, i) \in 1 .. issued /\ WriteAt(file, i) # w
       /\ \A v \in 1 .. issued : v \in Writes /\ v # w
  BY <1>2, <1>4, SmallestValues, SMTT(30) DEF AofInv, CommandsAreNew, TypeOK, Writes
<1>12. CommandsAreNew'
  <2>1. \A b \in Clients : Busy(b)' => /\ job'[b].id \in (1 .. issued') \ acked'
                                       /\ home'[job'[b].id] = job'[b].db
                                       /\ job'[b].size \in Sizes
    <3> TAKE b \in Clients
    <3>1. CASE b = c
      BY <1>1, <1>2, <1>5, <1>7, <1>11, <3>1
    <3>2. CASE b # c
      <4>1. job'[b] = job[b] /\ pc'[b] = pc[b]
        BY <1>5, <1>7, <3>2
      <4>2. Busy(b) => /\ job[b].id \in (1 .. issued) \ acked /\ home[job[b].id] = job[b].db
                       /\ job[b].size \in Sizes
        BY DEF AofInv, CommandsAreNew
      <4> QED BY <1>1, <1>2, <1>5, <1>11, <4>1, <4>2 DEF Busy
    <3> QED BY <3>1, <3>2
  <2>2. \A a, b \in Clients : Busy(a)' /\ Busy(b)' /\ job'[a].id = job'[b].id => a = b
    <3> TAKE a, b \in Clients
    <3>1. \A d \in Clients : Busy(d)' /\ d # c => Busy(d) /\ job'[d].id = job[d].id /\ job[d].id # w
      BY <1>5, <1>7, <1>11 DEF Busy, AofInv, CommandsAreNew
    <3> QED BY <1>7, <3>1 DEF AofInv, CommandsAreNew
  <2>3. \A b \in Clients, i \in Replayed(file) : Behind(b)' => WriteAt(file, i) # job'[b].id
    BY <1>5, <1>7, <1>11 DEF Behind, AofInv, CommandsAreNew
  <2> QED BY <1>1, <1>2, <1>11, <2>1, <2>2, <2>3 DEF CommandsAreNew
<1>13. BeforeIsAcked'
  BY <1>1, <1>5, <1>11 DEF AofInv, BeforeIsAcked
<1>14. \A i \in Replayed(file) : /\ home'[WriteAt(file, i)] = home[WriteAt(file, i)]
                                 /\ before'[WriteAt(file, i)] = before[WriteAt(file, i)]
  BY <1>5, <1>11
<1>15. KeptIsSynced'
  BY <1>1 DEF AofInv, KeptIsSynced
<1>16. ReplayIsFaithful' /\ LogInRealTimeOrder'
  BY <1>1, <1>14 DEF AofInv, ReplayIsFaithful, LogInRealTimeOrder
<1>17. LossIsOwed'
  <2>1. \A b \in Clients : pc'[b] = "reply" => pc[b] = "reply" /\ job'[b] = job[b]
    BY <1>5, <1>7
  <2>2. Missed' \subseteq Missed
    BY <1>1, <2>1 DEF Missed, Answered
  <2> QED BY <1>1, <2>2, LossStays
<1> QED BY <1>8, <1>10, <1>12, <1>13, <1>15, <1>16, <1>17 DEF AofInv

\* Steps of a connection that goes on with its command, other than the writing
\* itself, as far as commands and answers go.
LEMMA CommandGoesOn ==
  ASSUME AofInv, NEW c \in Clients, NEW step \in {"append", "write", "reply"}, Behind(c),
         pc' = [pc EXCEPT ![c] = step], UNCHANGED <<job, file, issued, home, acked>>
  PROVE  CommandsAreNew' /\ \A b \in Clients : pc'[b] = IF b = c THEN step ELSE pc[b]
<1>1. \A b \in Clients : pc'[b] = IF b = c THEN step ELSE pc[b]
  BY DEF AofInv, TypeOK
<1>2. \A b \in Clients : (Busy(b)' => Busy(b)) /\ (Behind(b)' => Behind(b))
  BY <1>1 DEF Busy, Behind
<1> QED BY <1>1, <1>2 DEF AofInv, CommandsAreNew

\* A command takes effect.
LEMMA ExecuteKeeps ==
  ASSUME AofInv, NEW c \in Clients, Execute(c)
  PROVE  AofInv'
<1>1. /\ pc[c] = "execute" /\ pc' = [pc EXCEPT ![c] = "append"]
      /\ mem' = [mem EXCEPT ![job[c].db] = Append(@, job[c].id)]
      /\ raced' = raced \cup ({job[c].db} \cap InBetween(c))
      /\ acked' = acked
      /\ UNCHANGED <<selected, job, file, synced, pending, writer, lastDB, open, issued, home,
                     before, torn, owed, refused, lost, kept>>
  BY DEF Execute, Run, log
<1>2. job[c].db \in Databases /\ job[c].id \in 0 .. MaxWrites
  BY DEF AofInv, TypeOK
<1>3. CommandsAreNew' /\ \A b \in Clients : pc'[b] = IF b = c THEN "append" ELSE pc[b]
  BY <1>1, CommandGoesOn DEF Behind
<1>4. TypeOK'
  <2>1. mem' \in [Databases -> Seq(0 .. MaxWrites)]
    <3>1. mem \in [Databases -> Seq(0 .. MaxWrites)]
      BY DEF AofInv, TypeOK
    <3>2. Append(mem[job[c].db], job[c].id) \in Seq(0 .. MaxWrites)
      BY <1>2, <3>1, AppendProperties
    <3> QED BY <1>1, <1>2, <3>1, <3>2
  <2>2. raced' \subseteq Databases
    BY <1>1, <1>2 DEF AofInv, TypeOK
  <2>3. /\ pc' \in [Clients -> {"idle", "execute", "append", "write", "reply"}]
        /\ \A b \in Clients : pc'[b] = "write" <=> writer' = b
    BY <1>1, <1>3 DEF AofInv, TypeOK
  <2> QED BY <1>1, <2>1, <2>2, <2>3 DEF AofInv, TypeOK
<1>5. PendingIsRest' /\ EntriesAreWhole'
  BY <1>1 DEF AofInv, PendingIsRest, EntriesAreWhole, AtEnd, Settled
<1>6. BeforeIsAcked' /\ KeptIsSynced' /\ ReplayIsFaithful' /\ LogInRealTimeOrder'
  BY <1>1 DEF AofInv, BeforeIsAcked, KeptIsSynced, ReplayIsFaithful, LogInRealTimeOrder
<1>7. LossIsOwed'
  <2>1. \A b \in Clients : pc'[b] = "reply" => pc[b] = "reply"
    BY <1>1, <1>3
  <2>2. Missed' \subseteq Missed
    BY <1>1, <2>1 DEF Missed, Answered
  <2> QED BY <1>1, <2>2, LossStays
<1> QED BY <1>3, <1>4, <1>5, <1>6, <1>7 DEF AofInv

\* The file is closed and the append fails.
LEMMA WriteFailsKeeps ==
  ASSUME AofInv, NEW c \in Clients, WriteFails(c)
  PROVE  AofInv'
<1>1. /\ pc[c] = "append" /\ pc' = [pc EXCEPT ![c] = "reply"]
      /\ refused' = refused \cup {job[c].id}
      /\ UNCHANGED <<selected, mem, job, file, synced, pending, writer, lastDB, open, issued,
                     home, acked, before, torn, owed, lost, kept, raced>>
  BY DEF WriteFails, log
<1>2. job[c].id \in Writes /\ job[c].id \notin acked
  BY <1>1, JobFacts DEF Busy
<1>3. CommandsAreNew' /\ \A b \in Clients : pc'[b] = IF b = c THEN "reply" ELSE pc[b]
  BY <1>1, CommandGoesOn DEF Behind
<1>4. TypeOK'
  <2>1. /\ pc' \in [Clients -> {"idle", "execute", "append", "write", "reply"}]
        /\ \A b \in Clients : pc'[b] = "write" <=> writer' = b
    BY <1>1, <1>3 DEF AofInv, TypeOK
  <2>2. {refused', lost', kept'} \subseteq SUBSET Writes
    BY <1>1, <1>2 DEF AofInv, TypeOK
  <2> QED BY <1>1, <2>1, <2>2 DEF AofInv, TypeOK
<1>5. PendingIsRest' /\ EntriesAreWhole'
  BY <1>1 DEF AofInv, PendingIsRest, EntriesAreWhole, AtEnd, Settled
<1>6. BeforeIsAcked' /\ LogInRealTimeOrder' /\ ReplayIsFaithful'
  BY <1>1 DEF AofInv, BeforeIsAcked, LogInRealTimeOrder, ReplayIsFaithful
<1>7. KeptIsSynced'
  BY <1>1, <1>2 DEF AofInv, KeptIsSynced
<1>8. LossIsOwed'
  <2>1. \A b \in Clients : pc'[b] = "reply" => pc[b] = "reply" \/ job[b].id \in refused'
    BY <1>1, <1>3
  <2>2. Missed' \subseteq Missed
    BY <1>1, <2>1 DEF Missed, Answered
  <2> QED BY <1>1, <2>2, LossStays
<1> QED BY <1>3, <1>4, <1>5, <1>6, <1>7, <1>8 DEF AofInv

\* The command is answered.
LEMMA ReplyKeeps ==
  ASSUME AofInv, NEW c \in Clients, Reply(c)
  PROVE  AofInv'
<1>1. /\ pc[c] = "reply" /\ pc' = [pc EXCEPT ![c] = "idle"]
      /\ acked' = acked \cup {job[c].id} /\ job' = [job EXCEPT ![c] = NoJob]
      /\ UNCHANGED <<selected, mem, file, synced, pending, writer, lastDB, open, issued, home,
                     before, torn, owed, refused, lost, kept, raced>>
  BY DEF Reply, log
<1>2. /\ job[c].id \in 1 .. issued /\ job[c].id \in Writes /\ Busy(c)
      /\ \A b \in Clients : Busy(b) /\ job[b].id = job[c].id => b = c
  BY <1>1, JobFacts DEF AofInv, CommandsAreNew, Busy
<1>3. /\ \A b \in Clients : pc'[b] = IF b = c THEN "idle" ELSE pc[b]
      /\ \A b \in Clients : b # c => job'[b] = job[b]
      /\ pc' \in [Clients -> {"idle", "execute", "append", "write", "reply"}]
      /\ job' \in [Clients -> [db : Databases, id : 0 .. MaxWrites, size : {0} \cup Sizes]]
  BY <1>1, SmallestValues DEF AofInv, TypeOK
<1>4. TypeOK'
  <2>1. acked' \subseteq Writes /\ \A b \in Clients : pc'[b] = "write" <=> writer' = b
    BY <1>1, <1>2, <1>3 DEF AofInv, TypeOK
  <2> QED BY <1>1, <1>3, <2>1 DEF AofInv, TypeOK
<1>5. CommandsAreNew'
  <2>1. \A b \in Clients : (Busy(b)' => Busy(b) /\ b # c) /\ (Behind(b)' => Behind(b) /\ b # c)
    BY <1>3 DEF Busy, Behind
  <2> QED BY <1>1, <1>2, <1>3, <2>1 DEF AofInv, CommandsAreNew
<1>6. writer # None => writer \in Clients /\ job'[writer] = job[writer]
  <2>1. writer # c
    BY <1>1 DEF AofInv, TypeOK
  <2> QED BY <1>3, <2>1 DEF AofInv, TypeOK
<1>7. PendingIsRest' /\ EntriesAreWhole'
  BY <1>1, <1>6 DEF AofInv, PendingIsRest, EntriesAreWhole, AtEnd, Settled
<1>8. BeforeIsAcked' /\ KeptIsSynced' /\ LogInRealTimeOrder' /\ ReplayIsFaithful'
  BY <1>1 DEF AofInv, BeforeIsAcked, KeptIsSynced, LogInRealTimeOrder, ReplayIsFaithful
<1>9. LossIsOwed'
  <2>1. \A b \in Clients : pc'[b] = "reply" => pc[b] = "reply" /\ job'[b] = job[b]
    BY <1>3
  <2>2. Answered' \subseteq Answered
    BY <1>1, <2>1 DEF Answered
  <2>3. Missed' \subseteq Missed
    BY <1>1, <2>2 DEF Missed
  <2> QED BY <1>1, <2>3, LossStays
<1> QED BY <1>4, <1>5, <1>7, <1>8, <1>9 DEF AofInv

-----------------------------------------------------------------------------
(* The mutex, the ticks of syncLoop and the end of the file.               *)

\* The entries of a command, with a marker and without.
LEMMA Line ==
  ASSUME NEW d \in Entries, NEW e \in Entries
  PROVE  /\ <<d>> \o <<e>> \in Seq(Entries) /\ Len(<<d>> \o <<e>>) = 2
         /\ (<<d>> \o <<e>>)[1] = d /\ (<<d>> \o <<e>>)[2] = e
         /\ << >> \o <<e>> \in Seq(Entries) /\ Len(<< >> \o <<e>>) = 1
         /\ (<< >> \o <<e>>)[1] = e
  OBVIOUS

\* Entries as they are before they are written.
LEMMA FreshEntries ==
  /\ \A d \in Databases : /\ SelectEntry(d) \in Entries /\ SelectEntry(d).kind = "SELECT"
                          /\ SelectEntry(d).n = d /\ SelectEntry(d).got = 0
                          /\ ~Whole(SelectEntry(d))
  /\ \A w \in Writes, size \in Sizes :
       /\ WriteEntry(w, size) \in Entries /\ WriteEntry(w, size).kind = "WRITE"
       /\ WriteEntry(w, size).n = w /\ WriteEntry(w, size).got = 0
       /\ ~Whole(WriteEntry(w, size))
<1>1. ASSUME NEW d \in Databases
      PROVE  /\ SelectEntry(d) \in Entries /\ SelectEntry(d).kind = "SELECT"
             /\ SelectEntry(d).n = d /\ SelectEntry(d).got = 0 /\ ~Whole(SelectEntry(d))
  <2>1. SelectEntry(d) \in Entries
    BY EntryTyped DEF SelectEntry
  <2> QED BY <2>1 DEF SelectEntry, Whole, Lacks
<1>2. ASSUME NEW w \in Writes, NEW size \in Sizes
      PROVE  /\ WriteEntry(w, size) \in Entries /\ WriteEntry(w, size).kind = "WRITE"
             /\ WriteEntry(w, size).n = w /\ WriteEntry(w, size).got = 0
             /\ ~Whole(WriteEntry(w, size))
  <2>1. size \in Nat /\ size # 0 /\ size # 1
    BY AofAssumption
  <2>2. WriteEntry(w, size) \in Entries
    BY <2>1, EntryTyped DEF WriteEntry
  <2> QED BY <2>1, <2>2 DEF WriteEntry, Whole, Lacks
<1> QED BY <1>1, <1>2

\* aof.Write gets the mutex.  With the first entry of a process, whatever Read wants
\* at the end of the file behind the marker may be missed, and is owed from now on.
LEMMA LockKeeps ==
  ASSUME AofInv, NEW c \in Clients, Lock(c)
  PROVE  AofInv'
<1>1. /\ pc[c] = "append" /\ pc' = [pc EXCEPT ![c] = "write"] /\ writer = None /\ open
      /\ pending' = Marker(c) \o <<WriteEntry(job[c].id, job[c].size)>>
      /\ lastDB' = job[c].db /\ writer' = c
      /\ owed' = IF lastDB = None /\ Wanted(file) > 0 THEN owed + (Wanted(file) - 1) ELSE owed
      /\ UNCHANGED <<selected, mem, job, file, synced, open, issued, home, acked, before, torn,
                     refused, lost, kept, raced>>
  BY DEF Lock, Prepare
<1>2. job[c].db \in Databases /\ job[c].id \in Writes /\ job[c].size \in Sizes
  BY <1>1, JobFacts DEF Busy
<1>3. CommandsAreNew' /\ \A b \in Clients : pc'[b] = IF b = c THEN "write" ELSE pc[b]
  BY <1>1, CommandGoesOn DEF Behind
<1> DEFINE m == SelectEntry(job[c].db)
           e == WriteEntry(job[c].id, job[c].size)
<1>4. /\ m \in Entries /\ m.kind = "SELECT" /\ m.n = job[c].db /\ m.got = 0 /\ ~Whole(m)
      /\ e \in Entries /\ e.kind = "WRITE" /\ e.n = job[c].id /\ e.got = 0 /\ ~Whole(e)
  BY <1>2, FreshEntries
<1>5. /\ pending' \in Seq(Entries) /\ ~Whole(pending'[1]) /\ pending'[1].got = 0
      /\ \/ /\ Len(pending') = 2 /\ pending'[1] = m /\ pending'[2] = e
         \/ /\ Len(pending') = 1 /\ pending'[1] = e /\ lastDB = job[c].db
  <2> HIDE DEF m, e
  <2>1. CASE job[c].db # lastDB
    <3>1. pending' = <<m>> \o <<e>>
      BY <1>1, <2>1 DEF Marker, m, e
    <3> QED BY <1>4, <3>1, Line
  <2>2. CASE job[c].db = lastDB
    <3>1. pending' = << >> \o <<e>>
      BY <1>1, <2>2 DEF Marker, m, e
    <3> QED BY <1>4, <2>2, <3>1, Line
  <2> QED BY <2>1, <2>2
<1>6. pending = << >> /\ Settled = Len(file) /\ Settled' = Len(file) /\ AtEnd' = AtEnd
  BY <1>1, <1>5 DEF AofInv, PendingIsRest, Settled, AtEnd
<1>7. /\ Wanted(file) = AtEnd.wanted /\ AtEnd.wanted \in Nat /\ owed \in Nat /\ Outstanding \in Nat
      /\ Len(pending) = 0
  BY <1>6, EndFacts DEF Wanted, AtEnd
<1>8. Outstanding' \in Nat /\ owed' \in Nat /\ Outstanding' + owed <= Outstanding + owed'
  <2>1. lastDB' # None /\ AtEnd'.wanted = AtEnd.wanted
    BY <1>1, <1>2, <1>6, SmallestValues
  <2>2. Outstanding' = IF Len(pending') = 2 /\ AtEnd.wanted > 0 THEN AtEnd.wanted - 1
                       ELSE AtEnd.wanted
    BY <2>1 DEF Outstanding
  <2>3. CASE lastDB = None
    <3>1. Len(pending') = 2 /\ Outstanding = 0
      BY <1>2, <1>5, <2>3, SmallestValues DEF Outstanding
    <3> QED BY <1>1, <1>7, <2>2, <2>3, <3>1
  <2>4. CASE lastDB # None
    <3>1. Outstanding = AtEnd.wanted /\ owed' = owed
      BY <1>1, <1>7, <2>4 DEF Outstanding
    <3> QED BY <1>7, <2>2, <3>1
  <2> QED BY <2>3, <2>4
<1>9. LossIsOwed'
  <2>1. \A b \in Clients : pc'[b] = "reply" => pc[b] = "reply"
    BY <1>3
  <2>2. Missed' \subseteq Missed
    BY <1>1, <2>1 DEF Missed, Answered
  <2> QED BY <1>8, <2>2, LossKeeps
<1>10. TypeOK'
  <2>1. /\ pc' \in [Clients -> {"idle", "execute", "append", "write", "reply"}]
        /\ \A b \in Clients : pc'[b] = "write" <=> writer' = b
    BY <1>1, <1>3, SmallestValues DEF AofInv, TypeOK
  <2>2. /\ pending' \in Seq(Entries) /\ lastDB' \in Databases \cup {None}
        /\ writer' \in Clients \cup {None} /\ owed' \in Nat
    BY <1>1, <1>2, <1>5, <1>8
  <2> QED BY <1>1, <2>1, <2>2 DEF AofInv, TypeOK
<1>11. PendingIsRest'
  <2> HIDE DEF m
  <2> QED BY <1>1, <1>4, <1>5, SmallestValues DEF PendingIsRest
<1>12. EntriesAreWhole'
  BY <1>1, <1>5, <1>6, <1>7 DEF AofInv, EntriesAreWhole
<1>13. BeforeIsAcked' /\ KeptIsSynced' /\ ReplayIsFaithful' /\ LogInRealTimeOrder'
  BY <1>1 DEF AofInv, BeforeIsAcked, KeptIsSynced, ReplayIsFaithful, LogInRealTimeOrder
<1> QED BY <1>3, <1>9, <1>10, <1>11, <1>12, <1>13 DEF AofInv

\* A tick of syncLoop.
LEMMA SyncKeeps ==
  ASSUME AofInv, Sync
  PROVE  AofInv'
<1>1. /\ synced' = Len(file) /\ kept' = acked \ (refused \cup lost)
      /\ UNCHANGED <<selected, mem, pc, job, file, pending, writer, lastDB, open, issued, home,
                     acked, before, torn, owed, refused, lost, raced>>
  BY DEF Sync
<1>2. TypeOK'
  <2>1. synced' \in 0 .. Len(file)
    BY <1>1, EndFacts
  <2>2. {refused', lost', kept'} \subseteq SUBSET Writes
    BY <1>1 DEF AofInv, TypeOK
  <2> QED BY <1>1, <2>1, <2>2 DEF AofInv, TypeOK
<1>3. KeptIsSynced'
  <2>1. \A i \in Replayed(file) : i <= Len(file)
    BY ReplayedFacts, EndFacts
  <2> QED BY <1>1, <2>1 DEF KeptIsSynced
<1>4. PendingIsRest' /\ EntriesAreWhole' /\ CommandsAreNew'
  BY <1>1 DEF AofInv, PendingIsRest, EntriesAreWhole, AtEnd, Settled, CommandsAreNew, Busy, Behind
<1>5. BeforeIsAcked' /\ ReplayIsFaithful' /\ LogInRealTimeOrder'
  BY <1>1 DEF AofInv, BeforeIsAcked, ReplayIsFaithful, LogInRealTimeOrder
<1>6. LossIsOwed'
  BY <1>1 DEF AofInv, LossIsOwed, Missed, Answered, Outstanding, AtEnd, Settled
<1> QED BY <1>2, <1>3, <1>4, <1>5, <1>6 DEF AofInv

\* Shutdown closes the file.
LEMMA CloseKeeps ==
  ASSUME AofInv, Close
  PROVE  AofInv'
<1>1. /\ open' = FALSE /\ writer = None
      /\ UNCHANGED <<selected, mem, pc, job, file, synced, pending, writer, lastDB, issued, home,
                     acked, before, torn, owed, refused, lost, kept, raced>>
  BY DEF Close, history
<1>2. TypeOK' /\ PendingIsRest' /\ EntriesAreWhole' /\ CommandsAreNew'
  BY <1>1 DEF AofInv, TypeOK, PendingIsRest, EntriesAreWhole, AtEnd, Settled, CommandsAreNew,
     Busy, Behind
<1>3. BeforeIsAcked' /\ KeptIsSynced' /\ ReplayIsFaithful' /\ LogInRealTimeOrder'
  BY <1>1 DEF AofInv, BeforeIsAcked, KeptIsSynced, ReplayIsFaithful, LogInRealTimeOrder
<1>4. LossIsOwed'
  BY <1>1 DEF AofInv, LossIsOwed, Missed, Answered, Outstanding, AtEnd, Settled
<1> QED BY <1>2, <1>3, <1>4 DEF AofInv

-----------------------------------------------------------------------------
(* Writing an element.                                                     *)

\* The entry that is being written becomes e in the file, and is followed by the
\* command when it was a whole marker.
IsFlush(e) ==
  /\ e \in Entries /\ e.got > 0 /\ e.kind = pending[1].kind /\ e.n = pending[1].n
  /\ Len(file') = Settled + 1 /\ file'[Settled + 1] = e /\ file' \in Seq(Entries)
  /\ \A i \in 1 .. Settled : file'[i] = file[i]
  /\ CutOf(file, file')
  /\ pending' \in Seq(Entries)
  /\ Whole(e) => /\ Len(pending) = 1 => pending' = << >>
                 /\ Len(pending) = 2 => Len(pending') = 1 /\ pending'[1] = pending[2]
  /\ ~Whole(e) => /\ Len(pending') = Len(pending) /\ pending'[1] = e
                  /\ Len(pending) = 2 => pending'[2] = pending[2]

\* The connection that flushes, and the entry it writes.
LEMMA FlushFacts ==
  ASSUME AofInv, NEW c \in Clients, Flush(c)
  PROVE  /\ writer = c /\ c # None /\ lastDB = job[c].db /\ open /\ lastDB # None
         /\ job[c].db \in Databases /\ job[c].id \in Writes /\ job[c].size \in Sizes
         /\ pending # << >> /\ Len(pending) \in {1, 2}
         /\ pending[1] \in Entries /\ ~Whole(pending[1])
         /\ Len(pending) = 2 => /\ pending[1].kind = "SELECT" /\ pending[1].n = lastDB
                                /\ pending[2] = WriteEntry(job[c].id, job[c].size)
         /\ Len(pending) = 1 => pending[1].kind = "WRITE" /\ pending[1].n = job[c].id
         /\ pending[1].got > 0 => Len(file) > 0 /\ file[Len(file)] = pending[1]
<1>1. pc[c] = "write"
  BY DEF Flush
<1>2. writer = c /\ c # None
  BY <1>1, SmallestValues DEF AofInv, TypeOK
<1>3. job[c].db \in Databases /\ job[c].id \in Writes /\ job[c].size \in Sizes
  BY <1>1, JobFacts DEF Busy
<1>4. /\ open /\ lastDB = job[c].db
      /\ Len(pending) \in {1, 2} /\ ~Whole(pending[1])
      /\ Len(pending) = 2 => /\ pending[1].kind = "SELECT" /\ pending[1].n = lastDB
                             /\ pending[2] = WriteEntry(job[c].id, job[c].size)
      /\ Len(pending) = 1 => pending[1].kind = "WRITE" /\ pending[1].n = job[c].id
      /\ pending[1].got > 0 => Len(file) > 0 /\ file[Len(file)] = pending[1]
  BY <1>2 DEF AofInv, PendingIsRest
<1>5. pending # << >> /\ pending[1] \in Entries
  BY <1>4, EndFacts
<1>6. lastDB # None
  BY <1>3, <1>4, SmallestValues
<1> QED BY <1>2, <1>3, <1>4, <1>5, <1>6

\* An entry gets one element more.
LEMMA Grown ==
  ASSUME NEW h \in Entries, ~Whole(h), NEW e, e = [h EXCEPT !.got = @ + 1]
  PROVE  /\ e \in Entries /\ e.kind = h.kind /\ e.n = h.n /\ e.size = h.size /\ e.got = h.got + 1
         /\ h.got \in Nat
<1>1. h.got \in Nat /\ h.size \in Nat /\ h.got + 1 <= h.size
  BY EntryFields DEF Whole, Lacks
<1>2. \/ h \in [kind : {"SELECT"}, n : Databases, size : {2}, got : Nat]
      \/ h \in [kind : {"WRITE"}, n : Writes, size : Sizes, got : Nat]
  BY DEF Entries
<1>3. CASE h \in [kind : {"SELECT"}, n : Databases, size : {2}, got : Nat]
  <2>1. e \in [kind : {"SELECT"}, n : Databases, size : {2}, got : Nat]
    BY <1>1, <1>3
  <2>2. e.kind = h.kind /\ e.n = h.n /\ e.size = h.size /\ e.got = h.got + 1
    BY <1>3
  <2> QED BY <1>1, <2>1, <2>2 DEF Entries
<1>4. CASE h \in [kind : {"WRITE"}, n : Writes, size : Sizes, got : Nat]
  <2>1. e \in [kind : {"WRITE"}, n : Writes, size : Sizes, got : Nat]
    BY <1>1, <1>4
  <2>2. e.kind = h.kind /\ e.n = h.n /\ e.size = h.size /\ e.got = h.got + 1
    BY <1>4
  <2> QED BY <1>1, <2>1, <2>2 DEF Entries
<1> QED BY <1>2, <1>3, <1>4

\* What Flush does to the file and to what is left to write.
LEMMA FlushWrites ==
  ASSUME AofInv, NEW c \in Clients, Flush(c)
  PROVE  \E e \in Entries : IsFlush(e) /\ (pending' = << >> <=> Whole(e) /\ Len(pending) = 1)
<1> DEFINE h == pending[1]
           e == [h EXCEPT !.got = @ + 1]
           n == Len(file)
<1>1. /\ file' = IF e.got = 1 THEN Append(file, e) ELSE [file EXCEPT ![n] = e]
      /\ pending' = IF Whole(e) THEN Tail(pending) ELSE [pending EXCEPT ![1] = e]
  <2>1. Head(pending) = h
    BY FlushFacts, EndFacts
  <2> QED BY <2>1 DEF Flush
<1>2. /\ h \in Entries /\ ~Whole(h) /\ Len(pending) \in {1, 2} /\ pending # << >>
      /\ h.got > 0 => n > 0 /\ file[n] = h
  BY FlushFacts
<1>3. file \in Seq(Entries) /\ pending \in Seq(Entries) /\ n \in Nat
  BY EndFacts
<1>4. /\ e \in Entries /\ e.kind = h.kind /\ e.n = h.n /\ e.size = h.size /\ e.got = h.got + 1
      /\ h.got \in Nat
  BY <1>2, Grown
<1> HIDE DEF e, h
<1>5. /\ Len(file') = Settled + 1 /\ file'[Settled + 1] = e /\ file' \in Seq(Entries)
      /\ \A i \in 1 .. Settled : file'[i] = file[i]
      /\ CutOf(file, file')
  <2>1. CASE h.got = 0
    <3>1. Settled = n /\ file' = Append(file, e)
      BY <1>1, <1>3, <1>4, <2>1 DEF Settled, h
    <3>2. /\ Len(file') = n + 1 /\ file'[n + 1] = e /\ file' \in Seq(Entries)
          /\ \A i \in 1 .. n : file'[i] = file[i]
      BY <1>3, <1>4, <3>1, AppendProperties
    <3>3. \A i \in 1 .. n : file[i] \in Entries /\ file[i].got <= file[i].got
      BY <1>3, EntryFields
    <3>4. CutOf(file, file')
      BY <1>3, <3>2, <3>3 DEF CutOf, Sooner
    <3> QED BY <3>1, <3>2, <3>4
  <2>2. CASE h.got # 0
    <3>1. n > 0 /\ file[n] = h /\ h.got > 0
      BY <1>2, <1>4, <2>2
    <3>2. Settled = n - 1 /\ file' = [file EXCEPT ![n] = e]
      BY <1>1, <1>2, <1>3, <1>4, <2>2, <3>1 DEF Settled, h
    <3>3. /\ Len(file') = n /\ file'[n] = e /\ file' \in Seq(Entries)
          /\ \A i \in 1 .. n : i # n => file'[i] = file[i]
      BY <1>3, <1>4, <3>1, <3>2
    <3>4. \A i \in 1 .. n : file[i] \in Entries /\ file[i].got <= file[i].got
      BY <1>3, EntryFields
    <3>5. \A i \in 1 .. n : Sooner(file[i], file'[i])
      BY <1>3, <1>4, <3>1, <3>3, <3>4 DEF Sooner
    <3>6. CutOf(file, file')
      BY <1>3, <3>3, <3>5 DEF CutOf
    <3> QED BY <1>3, <3>1, <3>2, <3>3, <3>6
  <2> QED BY <2>1, <2>2
<1>6. /\ pending' \in Seq(Entries)
      /\ Whole(e) => /\ Len(pending) = 1 => pending' = << >>
                     /\ Len(pending) = 2 => Len(pending') = 1 /\ pending'[1] = pending[2]
      /\ ~Whole(e) => /\ Len(pending') = Len(pending) /\ pending'[1] = e
                      /\ Len(pending) = 2 => pending'[2] = pending[2]
  <2>1. CASE Whole(e)
    <3>1. pending' = Tail(pending)
      BY <1>1, <2>1
    <3>2. /\ Tail(pending) \in Seq(Entries) /\ Len(Tail(pending)) = Len(pending) - 1
          /\ \A i \in 1 .. Len(Tail(pending)) : Tail(pending)[i] = pending[i + 1]
      BY <1>2, <1>3, HeadTailProperties
    <3>3. PICK q : q = Tail(pending)
      OBVIOUS
    <3>4. Len(pending) = 1 => q \in Seq(Entries) /\ Len(q) = 0
      BY <3>2, <3>3
    <3>5. Len(pending) = 1 => q = << >>
      BY <3>4
    <3> QED BY <1>2, <2>1, <3>1, <3>2, <3>3, <3>5
  <2>2. CASE ~Whole(e)
    <3>1. pending' = [pending EXCEPT ![1] = e]
      BY <1>1, <2>2
    <3> QED BY <1>2, <1>3, <1>4, <2>2, <3>1
  <2> QED BY <2>1, <2>2
<1>7. pending' = << >> <=> Whole(e) /\ Len(pending) = 1
  BY <1>2, <1>6
<1>8. IsFlush(e)
  BY <1>4, <1>5, <1>6 DEF IsFlush, h
<1> QED BY <1>4, <1>7, <1>8

\* How Read takes the element: nothing changes before the entry, a command that is
\* whole now and begins a value is replayed, and a whole entry is read.
LEMMA FlushReplay ==
  ASSUME AofInv, NEW c \in Clients, Flush(c), NEW e \in Entries, IsFlush(e)
  PROVE  LET n == Settled + 1
             new == Whole(e) /\ e.kind = "WRITE" /\ AtEnd.wanted = 0
         IN  /\ n \in Nat /\ WriteAt(file', n) = e.n /\ CurrentDB(file', n) = AtEnd.db
             /\ \A i \in Replayed(file) : /\ i \in Nat /\ i < n /\ i \in Replayed(file')
                                          /\ WriteAt(file', i) = WriteAt(file, i)
                                          /\ CurrentDB(file', i) = CurrentDB(file, i)
             /\ \A i \in Replayed(file') : i \in Replayed(file) \/ (i = n /\ new)
             /\ new => n \in Replayed(file')
             /\ Whole(e) => AtEnd' = ReadEntry(AtEnd, e)
             /\ ~Whole(e) => AtEnd' = AtEnd
             /\ Reading(file')[Len(file')] = ReadEntry(AtEnd, e)
             /\ Settled' \in {Settled, Settled + 1}
<1> DEFINE n == Settled + 1
           new == Whole(e) /\ e.kind = "WRITE" /\ AtEnd.wanted = 0
<1>1. /\ e.got > 0 /\ Len(file') = n /\ file'[n] = e /\ file' \in Seq(Entries)
      /\ \A i \in 1 .. Settled : file'[i] = file[i]
      /\ CutOf(file, file')
      /\ Whole(e) => /\ Len(pending) = 1 => pending' = << >>
                     /\ Len(pending) = 2 => Len(pending') = 1 /\ pending'[1] = pending[2]
      /\ ~Whole(e) => Len(pending') = Len(pending) /\ pending'[1] = e
  BY DEF IsFlush
<1>2. /\ file \in Seq(Entries) /\ Len(file) \in Nat /\ Settled \in 0 .. Len(file)
      /\ AtEnd \in ReadStates
  BY EndFacts
<1>3. /\ Settled \in Nat /\ n \in Nat /\ n - 1 = Settled /\ n \in 1 .. n /\ Settled <= Len(file)
      /\ Settled <= n /\ n > 0
  BY <1>2
<1> HIDE DEF n
<1>4. \A i \in 0 .. Settled : Reading(file')[i] = Reading(file)[i]
  BY <1>1, <1>2, <1>3, ReadingSame
<1>5. Reading(file')[Settled] = AtEnd
  BY <1>3, <1>4 DEF AtEnd
<1>6. Reading(file')[n] = ReadEntry(AtEnd, e)
  <2>1. Reading(file')[n] = ReadEntry(Reading(file')[n - 1], file'[n])
    BY <1>1, <1>3, ReadingRuns DEF IsReading
  <2> QED BY <1>1, <1>3, <1>5, <2>1
<1>7. WriteAt(file', n) = e.n /\ CurrentDB(file', n) = AtEnd.db
  BY <1>1, <1>3, <1>5 DEF WriteAt, CurrentDB
<1>8. \A i \in Replayed(file) : i \in 1 .. Settled /\ i \in 1 .. Len(file) /\ Whole(file[i])
  <2>1. \A i \in Replayed(file) : i \in 1 .. Len(file) /\ Whole(file[i])
    BY <1>2, ReplayedFacts
  <2>2. Settled = Len(file) \/ (Settled = Len(file) - 1 /\ ~Whole(file[Len(file)]))
    <3>1. CASE pending[1].got > 0
      BY <3>1, FlushFacts DEF Settled
    <3>2. CASE ~(pending[1].got > 0)
      BY <3>2 DEF Settled
    <3> QED BY <3>1, <3>2
  <2> QED BY <1>2, <2>1, <2>2
<1>9. \A i \in Replayed(file) : /\ i \in Nat /\ i < n /\ i \in Replayed(file')
                                /\ WriteAt(file', i) = WriteAt(file, i)
                                /\ CurrentDB(file', i) = CurrentDB(file, i)
  <2>1. /\ \A i : i \in Replayed(file) <=> i \in Replayed(file') /\ i \in 1 .. Len(file) /\ Whole(file[i])
        /\ \A i \in 1 .. Len(file) : WriteAt(file, i) = WriteAt(file', i)
                                     /\ CurrentDB(file, i) = CurrentDB(file', i)
    BY <1>1, <1>2, CutReplay
  <2>2. \A i \in 1 .. Settled : i \in Nat /\ i < n
    BY <1>3
  <2> QED BY <1>8, <2>1, <2>2
<1>10. \A i \in Replayed(file') : i \in Replayed(file) \/ (i = n /\ new)
  <2> SUFFICES ASSUME NEW i \in Replayed(file') PROVE i \in Replayed(file) \/ (i = n /\ new)
    OBVIOUS
  <2>1. i \in 1 .. n /\ file'[i].kind = "WRITE" /\ Whole(file'[i]) /\ Reading(file')[i - 1].wanted = 0
    BY <1>1, ReplayedFacts
  <2>2. CASE i = n
    BY <1>1, <1>3, <1>5, <2>1, <2>2
  <2>3. CASE i # n
    <3>1. i \in 1 .. Settled /\ i - 1 \in 0 .. Settled /\ i \in 1 .. Len(file)
      BY <1>2, <1>3, <2>1, <2>3
    <3>2. file'[i] = file[i] /\ Reading(file')[i - 1] = Reading(file)[i - 1]
      BY <1>1, <1>4, <3>1
    <3> QED BY <1>2, <2>1, <3>1, <3>2, ReplayedFacts
  <2> QED BY <2>2, <2>3
<1>11. new => n \in Replayed(file')
  BY <1>1, <1>3, <1>5, ReplayedFacts
<1>12. (Whole(e) => Settled' = n) /\ (~Whole(e) => Settled' = Settled)
  <2>1. CASE Whole(e)
    <3>1. CASE Len(pending) = 1
      BY <1>1, <2>1, <3>1 DEF Settled
    <3>2. CASE Len(pending) = 2
      <4>1. pending'[1].got = 0
        BY <1>1, <2>1, <3>2, FlushFacts, FreshEntries
      <4> QED BY <1>1, <4>1 DEF Settled
    <3> QED BY <3>1, <3>2, FlushFacts
  <2>2. CASE ~Whole(e)
    <3>1. pending' # << >> /\ pending'[1].got > 0
      BY <1>1, <2>2, FlushFacts
    <3>2. Settled' = Len(file') - 1
      BY <3>1 DEF Settled
    <3> QED BY <1>1, <1>3, <2>2, <3>2
  <2> QED BY <2>1, <2>2
<1>13. /\ Whole(e) => AtEnd' = ReadEntry(AtEnd, e)
       /\ ~Whole(e) => AtEnd' = AtEnd
  <2>1. AtEnd' = Reading(file')[Settled']
    BY DEF AtEnd
  <2> QED BY <1>5, <1>6, <1>12, <2>1
<1> QED BY <1>1, <1>3, <1>6, <1>7, <1>9, <1>10, <1>11, <1>12, <1>13 DEF n

\* What an element does to the commands that are missed and that can be: a marker
\* takes the place of one, a command becomes one unless it begins a value.
LEMMA FlushLoss ==
  ASSUME AofInv, NEW c \in Clients, Flush(c), NEW e \in Entries, IsFlush(e),
         pending' = << >> <=> Whole(e) /\ Len(pending) = 1
  PROVE  LossIsOwed'
<1> DEFINE w == job[c].id
           n == Settled + 1
           B == AtEnd.wanted
<1>1. /\ pc[c] = "write"
      /\ IF pending' = << >> THEN pc' = [pc EXCEPT ![c] = "reply"] ELSE pc' = pc
      /\ UNCHANGED <<job, lastDB, owed, acked, refused, lost>>
  BY DEF Flush, history
<1>2. /\ \A i \in Replayed(file) : i \in Replayed(file') /\ WriteAt(file', i) = WriteAt(file, i)
      /\ Whole(e) /\ e.kind = "WRITE" /\ B = 0 => n \in Replayed(file') /\ WriteAt(file', n) = e.n
      /\ Whole(e) => AtEnd' = ReadEntry(AtEnd, e)
      /\ ~Whole(e) => AtEnd' = AtEnd
  BY FlushReplay
<1>3. WritesIn(file) \subseteq WritesIn(file')
  BY <1>2 DEF WritesIn
<1>4. /\ Len(pending) \in {1, 2} /\ lastDB # None
      /\ Len(pending) = 1 => e.kind = "WRITE" /\ e.n = w
      /\ Len(pending) = 2 => e.kind = "SELECT"
  BY FlushFacts DEF IsFlush
<1>5. AtEnd \in ReadStates /\ B \in Nat /\ owed \in Nat /\ Outstanding \in Nat /\ owed' = owed
  BY <1>1, EndFacts
<1>6. Whole(e) => AtEnd'.wanted = IF B = 0 THEN 0 ELSE B - 1
  <2>1. Whole(e) => Lacks(e) = 0
    BY DEF Whole
  <2>2. /\ B = 0 => ReadEntry(AtEnd, e).wanted = Lacks(e)
        /\ B > 0 => ReadEntry(AtEnd, e).wanted = (B - 1) + Lacks(e)
    BY <1>5, ReadEntryFacts
  <2> QED BY <1>2, <1>5, <2>1, <2>2
<1>7. /\ Whole(e) /\ Len(pending) = 2 => Len(pending') = 1
      /\ Whole(e) /\ Len(pending) = 1 => Len(pending') = 0
      /\ ~Whole(e) => Len(pending') = Len(pending)
  BY DEF IsFlush
<1>8. Outstanding' = IF Len(pending') = 2 /\ AtEnd'.wanted > 0 THEN AtEnd'.wanted - 1
                     ELSE AtEnd'.wanted
  BY <1>1, <1>4 DEF Outstanding
<1>9. Outstanding = IF Len(pending) = 2 /\ B > 0 THEN B - 1 ELSE B
  BY <1>4 DEF Outstanding
<1>10. CASE ~(Whole(e) /\ Len(pending) = 1)
  <2>1. pc' = pc
    BY <1>1, <1>10
  <2>2. Missed' \subseteq Missed
    BY <1>1, <1>3, <2>1 DEF Missed, Answered
  <2>3. Outstanding' = Outstanding
    <3>1. CASE Whole(e)
      BY <1>4, <1>5, <1>6, <1>7, <1>8, <1>9, <1>10, <3>1
    <3>2. CASE ~Whole(e)
      BY <1>2, <1>7, <1>8, <1>9, <3>2
    <3> QED BY <3>1, <3>2
  <2> QED BY <1>5, <2>2, <2>3, LossKeeps
<1>11. CASE Whole(e) /\ Len(pending) = 1
  <2>1. \A b \in Clients : pc'[b] = IF b = c THEN "reply" ELSE pc[b]
    BY <1>1, <1>11 DEF AofInv, TypeOK
  <2>2. Answered' \subseteq Answered \cup {w}
    BY <1>1, <2>1 DEF Answered
  <2>3. Missed' \subseteq Missed \cup {w}
    BY <1>1, <1>3, <2>2 DEF Missed
  <2>4. CASE B = 0
    <3>1. w \in WritesIn(file')
      BY <1>2, <1>4, <1>11, <2>4 DEF WritesIn
    <3>2. Missed' \subseteq Missed
      BY <2>3, <3>1 DEF Missed
    <3>3. Outstanding' = 0 /\ Outstanding = 0
      BY <1>6, <1>7, <1>8, <1>9, <1>11, <2>4
    <3> QED BY <1>5, <3>2, <3>3, LossKeeps
  <2>5. CASE B # 0
    <3>1. Outstanding' = B - 1 /\ Outstanding = B
      BY <1>5, <1>6, <1>7, <1>8, <1>9, <1>11, <2>5
    <3>2. Outstanding' \in Nat /\ owed' \in Nat /\ (Outstanding' + 1) + owed <= Outstanding + owed'
      BY <1>5, <2>5, <3>1
    <3> QED BY <2>3, <3>2, LossShifts
  <2> QED BY <2>4, <2>5
<1> QED BY <1>10, <1>11

\* An element is flushed.
LEMMA FlushKeeps ==
  ASSUME AofInv, NEW c \in Clients, Flush(c)
  PROVE  AofInv'
<1> DEFINE w == job[c].id
           n == Settled + 1
<1>1. PICK e \in Entries : IsFlush(e) /\ (pending' = << >> <=> Whole(e) /\ Len(pending) = 1)
  BY FlushWrites
<1> DEFINE new == Whole(e) /\ e.kind = "WRITE" /\ AtEnd.wanted = 0
           done == Whole(e) /\ Len(pending) = 1
<1>2. /\ pc[c] = "write"
      /\ done => writer' = None /\ pc' = [pc EXCEPT ![c] = "reply"]
      /\ ~done => writer' = writer /\ pc' = pc
      /\ UNCHANGED <<selected, mem, job, synced, lastDB, open, issued, home, acked, before, torn,
                     owed, refused, lost, kept, raced>>
  BY <1>1 DEF Flush, history
<1>3. /\ writer = c /\ c # None /\ lastDB = job[c].db /\ open /\ lastDB # None
      /\ job[c].db \in Databases /\ w \in Writes /\ Len(pending) \in {1, 2}
      /\ Len(pending) = 2 => pending[2] = WriteEntry(w, job[c].size) /\ job[c].size \in Sizes
  BY FlushFacts
<1>4. /\ Len(file') = n /\ file'[n] = e /\ file' \in Seq(Entries) /\ e.got > 0
      /\ pending' \in Seq(Entries)
      /\ Whole(e) => /\ Len(pending) = 1 => pending' = << >>
                     /\ Len(pending) = 2 => Len(pending') = 1 /\ pending'[1] = pending[2]
      /\ ~Whole(e) => /\ Len(pending') = Len(pending) /\ pending'[1] = e
                      /\ Len(pending) = 2 => pending'[2] = pending[2]
      /\ Len(pending) = 1 => e.kind = "WRITE" /\ e.n = w
      /\ Len(pending) = 2 => e.kind = "SELECT" /\ e.n = lastDB
      /\ CutOf(file, file')
  BY <1>1, FlushFacts DEF IsFlush
<1>5. /\ n \in Nat /\ WriteAt(file', n) = e.n /\ CurrentDB(file', n) = AtEnd.db
      /\ \A i \in Replayed(file) : /\ i \in Nat /\ i < n /\ i \in Replayed(file')
                                   /\ WriteAt(file', i) = WriteAt(file, i)
                                   /\ CurrentDB(file', i) = CurrentDB(file, i)
      /\ \A i \in Replayed(file') : i \in Replayed(file) \/ (i = n /\ new)
      /\ Whole(e) => AtEnd' = ReadEntry(AtEnd, e)
      /\ ~Whole(e) => AtEnd' = AtEnd
  BY <1>1, FlushReplay
<1>6. \A b \in Clients : pc'[b] = IF b = c /\ done THEN "reply" ELSE pc[b]
  BY <1>2 DEF AofInv, TypeOK
<1>7. new => done /\ e.n = w
  BY <1>3, <1>4
<1>8. AtEnd \in ReadStates /\ synced \in 0 .. Len(file) /\ Len(file) \in Nat
  BY EndFacts DEF AofInv, TypeOK
<1>9. LossIsOwed'
  BY <1>1, FlushLoss
<1> HIDE DEF w, n, new, done
<1>10. TypeOK'
  <2>1. /\ pc' \in [Clients -> {"idle", "execute", "append", "write", "reply"}]
        /\ writer' \in Clients \cup {None}
        /\ \A b \in Clients : pc'[b] = "write" <=> writer' = b
    BY <1>2, <1>3, <1>6, SmallestValues, SMTT(30) DEF AofInv, TypeOK
  <2>2. synced' \in 0 .. Len(file')
    BY <1>2, <1>4, <1>5, <1>8 DEF CutOf
  <2> QED BY <1>2, <1>4, <2>1, <2>2 DEF AofInv, TypeOK
<1>11. PendingIsRest'
  <2>1. CASE done
    BY <1>2, <1>4, <2>1 DEF PendingIsRest, done
  <2>2. CASE ~done
    <3>1. writer' = c /\ job' = job /\ open' /\ lastDB' = job[c].db
      BY <1>2, <1>3, <2>2
    <3>2. CASE Whole(e)
      <4>1. Len(pending) = 2 /\ Len(pending') = 1 /\ pending'[1] = WriteEntry(w, job[c].size)
        BY <1>3, <1>4, <2>2, <3>2 DEF done
      <4>2. ~Whole(pending'[1]) /\ pending'[1].kind = "WRITE" /\ pending'[1].n = w /\ pending'[1].got = 0
        BY <1>3, <4>1, FreshEntries
      <4> QED BY <1>3, <3>1, <4>1, <4>2 DEF PendingIsRest, w
    <3>3. CASE ~Whole(e)
      <4>1. /\ Len(pending') \in {1, 2} /\ pending'[1] = e /\ Len(pending') = Len(pending)
            /\ Len(pending') = 2 => pending'[2] = WriteEntry(w, job[c].size)
        BY <1>3, <1>4, <3>3
      <4>2. Len(file') > 0 /\ file'[Len(file')] = e
        BY <1>4, <1>5, <1>8, EndFacts DEF n
      <4> QED BY <1>2, <1>3, <1>4, <3>1, <3>3, <4>1, <4>2 DEF PendingIsRest, w
    <3> QED BY <3>2, <3>3
  <2> QED BY <2>1, <2>2
<1>12. EntriesAreWhole' /\ (~torn /\ new => AtEnd.db = job[c].db)
  <2> SUFFICES ASSUME ~torn
               PROVE  /\ AtEnd'.wanted = 0
                      /\ Len(pending') # 2 => AtEnd'.db = lastDB
                      /\ new => AtEnd.db = job[c].db
    BY <1>2 DEF EntriesAreWhole
  <2>1. AtEnd.wanted = 0 /\ (Len(pending) # 2 => AtEnd.db = lastDB)
    BY <1>3 DEF AofInv, EntriesAreWhole
  <2>2. CASE Whole(e)
    <3>1. Lacks(e) = 0
      BY <2>2 DEF Whole
    <3>2. /\ ReadEntry(AtEnd, e).wanted = 0
          /\ e.kind = "SELECT" => ReadEntry(AtEnd, e).db = e.n
          /\ e.kind = "WRITE" => ReadEntry(AtEnd, e).db = AtEnd.db
      BY <1>8, <2>1, <2>2, <3>1, ReadEntryFacts
    <3> QED BY <1>3, <1>4, <1>5, <2>1, <2>2, <3>2 DEF new
  <2>3. CASE ~Whole(e)
    BY <1>4, <1>5, <2>1, <2>3 DEF new
  <2> QED BY <2>2, <2>3
<1>13. /\ w \in 1 .. issued /\ w \notin acked /\ home[w] = job[c].db
       /\ \A i \in Replayed(file) : WriteAt(file, i) # w
       /\ \A b \in Clients : Busy(b) /\ job[b].id = w => b = c
  BY <1>2 DEF AofInv, CommandsAreNew, Busy, Behind, w
<1>14. CommandsAreNew'
  <2>1. \A b \in Clients : (Busy(b)' => Busy(b)) /\ (Behind(b)' => Behind(b) /\ (b # c \/ ~done))
    BY <1>2, <1>6 DEF Busy, Behind
  <2>2. \A i \in Replayed(file') : WriteAt(file', i) \in 1 .. issued
    BY <1>5, <1>7, <1>13 DEF AofInv, CommandsAreNew
  <2>3. \A b \in Clients, i \in Replayed(file') : Behind(b)' => WriteAt(file', i) # job[b].id
    <3> SUFFICES ASSUME NEW b \in Clients, NEW i \in Replayed(file'), Behind(b)'
                 PROVE  WriteAt(file', i) # job[b].id
      OBVIOUS
    <3>1. CASE i \in Replayed(file)
      BY <1>5, <2>1, <3>1 DEF AofInv, CommandsAreNew
    <3>2. CASE i = n /\ new
      BY <1>5, <1>7, <1>13, <2>1, <3>2 DEF Behind, Busy
    <3> QED BY <1>5, <3>1, <3>2
  <2> QED BY <1>2, <2>1, <2>2, <2>3 DEF AofInv, CommandsAreNew
<1>15. BeforeIsAcked'
  BY <1>2 DEF AofInv, BeforeIsAcked
<1>16. KeptIsSynced'
  <2>1. \A v \in kept : v # w
    BY <1>13 DEF AofInv, KeptIsSynced
  <2> QED BY <1>2, <1>5, <1>7, <2>1 DEF AofInv, KeptIsSynced
<1>17. ReplayIsFaithful'
  <2>1. \A i, j \in Replayed(file') : WriteAt(file', i) = WriteAt(file', j) => i = j
    BY <1>5, <1>7, <1>13 DEF AofInv, ReplayIsFaithful
  <2>2. ASSUME ~torn, NEW i \in Replayed(file')
        PROVE  CurrentDB(file', i) = home[WriteAt(file', i)]
    <3>1. CASE i \in Replayed(file)
      BY <1>5, <2>2, <3>1 DEF AofInv, ReplayIsFaithful
    <3>2. CASE i = n /\ new
      BY <1>5, <1>7, <1>12, <1>13, <2>2, <3>2
    <3> QED BY <1>5, <2>2, <3>1, <3>2
  <2> QED BY <1>2, <2>1, <2>2 DEF ReplayIsFaithful
<1>18. LogInRealTimeOrder'
  <2> SUFFICES ASSUME NEW i \in Replayed(file'), NEW j \in Replayed(file'),
                      WriteAt(file', i) \in before[WriteAt(file', j)]
               PROVE  i < j
    BY <1>2 DEF LogInRealTimeOrder
  <2>1. \A v \in Writes : w \notin before[v]
    BY <1>13 DEF AofInv, BeforeIsAcked
  <2>2. \A k \in Replayed(file') : WriteAt(file', k) \in Writes
    BY <1>4, ReplayedFacts
  <2>3. i \in Replayed(file)
    BY <1>5, <1>7, <2>1, <2>2
  <2>4. CASE j \in Replayed(file)
    BY <1>5, <2>3, <2>4 DEF AofInv, LogInRealTimeOrder
  <2>5. CASE j = n
    BY <1>5, <2>3, <2>5
  <2> QED BY <1>5, <2>4, <2>5
<1> QED BY <1>9, <1>10, <1>11, <1>12, <1>14, <1>15, <1>16, <1>17, <1>18 DEF AofInv

-----------------------------------------------------------------------------
(* The end of a process and the start of the next one.                     *)

\* f is what a process finds of the file: its beginning, with all that was synced.
IsLeft(f) ==
  /\ f \in Seq(Entries) /\ CutOf(f, file)
  /\ synced <= Len(f) /\ \A i \in 1 .. synced : f[i] = file[i]

\* A process starts; commands that are no longer in the file are lost.
LEMMA StartKeeps ==
  ASSUME AofInv, NEW f, IsLeft(f), Start(f),
         synced' \in synced .. Len(f), lost' = lost \cup (WritesIn(file) \ WritesIn(f))
  PROVE  AofInv'
<1>1. /\ file' = f /\ mem' = Read(f) /\ selected' = [c \in Clients |-> 0]
      /\ pc' = [c \in Clients |-> "idle"] /\ job' = [c \in Clients |-> NoJob]
      /\ pending' = << >> /\ writer' = None /\ lastDB' = None /\ open' = TRUE
      /\ torn' = (torn \/ Wanted(f) > 0) /\ raced' = {}
      /\ home' = [w \in Writes |-> IF w \in Logged(f) THEN home[w] ELSE 0]
      /\ before' = [w \in Writes |-> IF w \in Logged(f) THEN before[w] ELSE {}]
      /\ UNCHANGED <<issued, acked, owed, refused, kept>>
  BY DEF Start, Boot
<1>2. /\ f \in Seq(Entries) /\ CutOf(f, file) /\ synced <= Len(f)
      /\ \A i \in 1 .. synced : f[i] = file[i]
  BY DEF IsLeft
<1>3. /\ file \in Seq(Entries) /\ Len(file) \in Nat /\ Len(f) \in Nat
      /\ synced \in 0 .. Len(file)
  BY <1>2, EndFacts DEF AofInv, TypeOK
<1>4. /\ \A i : i \in Replayed(f) <=> i \in Replayed(file) /\ i \in 1 .. Len(f) /\ Whole(f[i])
      /\ \A i \in 1 .. Len(f) : WriteAt(f, i) = WriteAt(file, i) /\ CurrentDB(f, i) = CurrentDB(file, i)
      /\ WritesIn(f) \subseteq WritesIn(file)
  BY <1>2, <1>3, CutReplay
<1>5. \A i \in Replayed(f) : /\ i \in Replayed(file) /\ WriteAt(f, i) = WriteAt(file, i)
                             /\ CurrentDB(f, i) = CurrentDB(file, i)
  BY <1>4
<1>6. /\ \A i \in Replayed(file) : i \in 1 .. Len(file) /\ WriteAt(file, i) \in Writes /\ Whole(file[i])
      /\ \A i \in Replayed(f) : WriteAt(f, i) \in Writes /\ WriteAt(f, i) \in Logged(f)
  <2>1. \A i \in Replayed(f) : i \in 1 .. Len(f) /\ f[i].kind = "WRITE" /\ WriteAt(f, i) \in Writes
    BY <1>2, ReplayedFacts
  <2>2. \A i \in Replayed(file) : i \in 1 .. Len(file) /\ WriteAt(file, i) \in Writes /\ Whole(file[i])
    BY <1>3, ReplayedFacts
  <2> QED BY <2>1, <2>2 DEF Logged
<1>7. Reading(f)[Len(f)] \in ReadStates
  BY <1>2, <1>3, ReadingRuns DEF IsReading
<1>8. TypeOK'
  <2>1. Read(f) \in [Databases -> Seq(0 .. MaxWrites)]
    BY <1>7 DEF Read, ReadStates
  <2>2. synced' \in 0 .. Len(f)
    BY <1>3
  <2>3. {refused', lost', kept'} \subseteq SUBSET Writes
    <3>1. WritesIn(file) \subseteq Writes
      BY <1>6 DEF WritesIn
    <3> QED BY <1>1, <3>1 DEF AofInv, TypeOK
  <2>4. /\ pc' \in [Clients -> {"idle", "execute", "append", "write", "reply"}]
        /\ job' \in [Clients -> [db : Databases, id : 0 .. MaxWrites, size : {0} \cup Sizes]]
        /\ selected' \in [Clients -> Databases]
        /\ \A b \in Clients : pc'[b] = "write" <=> writer' = b
    BY <1>1, SmallestValues
  <2>5. torn' \in BOOLEAN
    BY <1>1
  <2>6. pending' \in Seq(Entries) /\ file' \in Seq(Entries)
    BY <1>1, <1>2
  <2>7. home' \in [Writes -> Databases] /\ before' \in [Writes -> SUBSET Writes]
    BY <1>1, SmallestValues DEF AofInv, TypeOK
  <2> QED BY <1>1, <2>1, <2>2, <2>3, <2>4, <2>5, <2>6, <2>7 DEF AofInv, TypeOK
<1>9. PendingIsRest'
  BY <1>1 DEF PendingIsRest
<1>10. EntriesAreWhole'
  <2>1. AtEnd' = Reading(f)[Len(f)]
    BY <1>1 DEF AtEnd, Settled
  <2>2. Reading(f)[Len(f)].wanted \in Nat
    BY <1>7 DEF ReadStates
  <2>3. ~torn' => ~(Reading(f)[Len(f)].wanted > 0)
    BY <1>1, Zenon DEF Wanted
  <2>4. ~torn' => AtEnd'.wanted = 0
    BY <2>1, <2>2, <2>3
  <2> QED BY <1>1, <2>4 DEF EntriesAreWhole
<1>11. \A i \in Replayed(f) : /\ home'[WriteAt(f, i)] = home[WriteAt(f, i)]
                              /\ before'[WriteAt(f, i)] = before[WriteAt(f, i)]
  BY <1>1, <1>6
<1>12. CommandsAreNew' /\ BeforeIsAcked'
  <2>1. /\ \A b \in Clients : pc'[b] = "idle"
        /\ acked \subseteq 1 .. issued
    BY <1>1 DEF AofInv, CommandsAreNew
  <2>2. \A i \in Replayed(f) : WriteAt(f, i) \in 1 .. issued
    BY <1>5 DEF AofInv, CommandsAreNew
  <2>3. CommandsAreNew'
    BY <1>1, <2>1, <2>2 DEF CommandsAreNew, Busy, Behind
  <2>4. \A w \in Writes : before'[w] \subseteq before[w]
    BY <1>1
  <2> QED BY <1>1, <2>3, <2>4 DEF AofInv, BeforeIsAcked
<1>13. KeptIsSynced'
  <2> SUFFICES ASSUME NEW w \in kept
               PROVE  /\ w \in acked \ (refused \cup lost')
                      /\ \A i \in Replayed(f) : WriteAt(f, i) = w => i <= synced'
    BY <1>1 DEF KeptIsSynced
  <2>1. /\ w \in acked \ (refused \cup lost)
        /\ \A i \in Replayed(file) : WriteAt(file, i) = w => i <= synced
    BY DEF AofInv, KeptIsSynced
  <2>2. ASSUME NEW i \in Replayed(file), WriteAt(file, i) = w
        PROVE  i <= synced' /\ i \in Replayed(f) /\ WriteAt(f, i) = w
    <3>1. i \in Nat /\ i <= synced /\ i <= synced' /\ i \in 1 .. synced /\ i \in 1 .. Len(f)
      BY <1>2, <1>3, <1>6, <2>1, <2>2
    <3> QED BY <1>2, <1>4, <1>6, <2>2, <3>1
  <2>3. w \in WritesIn(file) => w \in WritesIn(f)
    BY <2>2 DEF WritesIn
  <2> QED BY <1>5, <2>1, <2>2, <2>3
<1>14. ReplayIsFaithful'
  <2>1. \A i, j \in Replayed(f) : WriteAt(f, i) = WriteAt(f, j) => i = j
    BY <1>5 DEF AofInv, ReplayIsFaithful
  <2>2. torn \/ \A i \in Replayed(f) : CurrentDB(f, i) = home'[WriteAt(f, i)]
    BY <1>5, <1>11 DEF AofInv, ReplayIsFaithful
  <2> QED BY <1>1, <2>1, <2>2 DEF ReplayIsFaithful
<1>15. LogInRealTimeOrder'
  BY <1>1, <1>5, <1>11 DEF AofInv, LogInRealTimeOrder
<1>16. LossIsOwed'
  <2>1. Outstanding' = 0 /\ Outstanding \in Nat /\ owed \in Nat
    BY <1>1, EndFacts DEF Outstanding
  <2>2. \A c \in Clients : pc'[c] # "reply"
    BY <1>1
  <2>3. Answered' \subseteq Answered
    BY <1>1, <2>2 DEF Answered
  <2>4. Missed' \subseteq Missed
    BY <1>1, <2>3 DEF Missed
  <2> QED BY <1>1, <2>1, <2>4, LossKeeps
<1> QED BY <1>8, <1>9, <1>10, <1>12, <1>13, <1>14, <1>15, <1>16 DEF AofInv

\* A file with the first elements of an entry for its last.
LEMMA CutTyped ==
  ASSUME NEW f \in Seq(Entries), NEW n \in 1 .. Len(f), NEW got \in 0 .. f[n].got
  PROVE  Cut(f, n, got) \in Seq(Entries) /\ Len(Cut(f, n, got)) = n /\ CutOf(Cut(f, n, got), f)
         /\ \A i \in 1 .. n : i # n => Cut(f, n, got)[i] = f[i]
<1> DEFINE e == [f[n] EXCEPT !.got = got]
           g == Cut(f, n, got)
<1>1. f[n] \in Entries /\ Len(f) \in Nat /\ n \in Nat /\ n <= Len(f)
  OBVIOUS
<1>2. f[n].got \in Nat /\ f[n].size \in Nat /\ f[n].got <= f[n].size
  BY <1>1, EntryFields
<1>3. got \in Nat /\ got <= f[n].got /\ got <= f[n].size
  BY <1>2
<1>4. e \in Entries /\ e.kind = f[n].kind /\ e.n = f[n].n /\ e.size = f[n].size /\ e.got = got
  <2>1. \/ f[n] \in [kind : {"SELECT"}, n : Databases, size : {2}, got : Nat]
        \/ f[n] \in [kind : {"WRITE"}, n : Writes, size : Sizes, got : Nat]
    BY <1>1 DEF Entries
  <2>2. PICK h : h = f[n]
    OBVIOUS
  <2>3. CASE f[n] \in [kind : {"SELECT"}, n : Databases, size : {2}, got : Nat]
    <3>1. e \in [kind : {"SELECT"}, n : Databases, size : {2}, got : Nat]
      BY <1>3, <2>3
    <3>2. e.kind = f[n].kind /\ e.n = f[n].n /\ e.size = f[n].size /\ e.got = got
      BY <2>3
    <3> QED BY <1>3, <3>1, <3>2 DEF Entries
  <2>4. CASE f[n] \in [kind : {"WRITE"}, n : Writes, size : Sizes, got : Nat]
    <3>1. e \in [kind : {"WRITE"}, n : Writes, size : Sizes, got : Nat]
      BY <1>3, <2>4
    <3>2. e.kind = f[n].kind /\ e.n = f[n].n /\ e.size = f[n].size /\ e.got = got
      BY <2>4
    <3> QED BY <1>3, <3>1, <3>2 DEF Entries
  <2> QED BY <2>1, <2>3, <2>4
<1>5. g = [i \in 1 .. n |-> IF i = n THEN e ELSE f[i]]
  BY DEF Cut
<1> HIDE DEF e, g
<1>6. \A i \in 1 .. n : i \in 1 .. Len(f) /\ f[i] \in Entries
  BY <1>1
<1>7. g \in Seq(Entries) /\ Len(g) = n /\ \A i \in 1 .. n : g[i] = IF i = n THEN e ELSE f[i]
  BY <1>1, <1>4, <1>5, <1>6
<1>8. \A i \in 1 .. n : f[i].got <= f[i].got
  BY <1>6, EntryFields
<1>9. \A i \in 1 .. n : Sooner(g[i], f[i])
  BY <1>3, <1>4, <1>7, <1>8 DEF Sooner
<1>10. CutOf(g, f)
  BY <1>1, <1>7, <1>9 DEF CutOf
<1> QED BY <1>7, <1>10 DEF g

\* A kill and a shutdown leave the file, a loss of power leaves a part of it.
LEMMA EndsStart ==
  ASSUME AofInv, Kill \/ Exit \/ PowerLoss
  PROVE  \E f : /\ IsLeft(f) /\ Start(f) /\ synced' \in synced .. Len(f)
                /\ lost' = lost \cup (WritesIn(file) \ WritesIn(f))
<1>1. /\ file \in Seq(Entries) /\ Len(file) \in Nat /\ synced \in 0 .. Len(file)
      /\ \A i \in 1 .. Len(file) : file[i] \in Entries /\ Sooner(file[i], file[i])
  <2>1. file \in Seq(Entries) /\ Len(file) \in Nat /\ synced \in 0 .. Len(file)
    BY EndFacts DEF AofInv, TypeOK
  <2>2. \A i \in 1 .. Len(file) : file[i] \in Entries
    BY <2>1
  <2>3. \A e \in Entries : Sooner(e, e)
    BY EntryFields DEF Sooner
  <2> QED BY <2>1, <2>2, <2>3
<1>2. CASE Kill \/ Exit
  <2>1. Start(file) /\ synced' = synced /\ lost' = lost
    BY <1>2 DEF Kill, Exit
  <2>2. IsLeft(file)
    BY <1>1 DEF IsLeft, CutOf
  <2>3. lost' = lost \cup (WritesIn(file) \ WritesIn(file)) /\ synced' \in synced .. Len(file)
    BY <1>1, <2>1
  <2> QED BY <2>1, <2>2, <2>3
<1>3. CASE PowerLoss
  <2>1. PICK n \in synced .. Len(file) :
        \E got \in IF n = synced THEN {0} ELSE 1 .. file[n].got :
          LET f == IF n = synced THEN SubSeq(file, 1, n) ELSE Cut(file, n, got) IN
          Start(f) /\ synced' = n /\ lost' = lost \cup (WritesIn(file) \ WritesIn(f))
    BY <1>3 DEF PowerLoss
  <2>2. PICK got \in IF n = synced THEN {0} ELSE 1 .. file[n].got :
          LET f == IF n = synced THEN SubSeq(file, 1, n) ELSE Cut(file, n, got) IN
          Start(f) /\ synced' = n /\ lost' = lost \cup (WritesIn(file) \ WritesIn(f))
    BY <2>1
  <2>3. PICK f : f = IF n = synced THEN SubSeq(file, 1, n) ELSE Cut(file, n, got)
    OBVIOUS
  <2>4. Start(f) /\ synced' = n /\ lost' = lost \cup (WritesIn(file) \ WritesIn(f))
    BY <2>2, <2>3, Zenon
  <2>5. /\ n \in Nat /\ n <= Len(file) /\ synced <= n
        /\ \A i \in 1 .. n : i \in 1 .. Len(file) /\ file[i] \in Entries /\ Sooner(file[i], file[i])
    BY <1>1
  <2>6. IsLeft(f) /\ Len(f) = n
    <3>1. CASE n = synced
      <4>1. f \in Seq(Entries) /\ Len(f) = n /\ \A i \in 1 .. n : f[i] = file[i]
        BY <2>3, <2>5, <3>1, SubSeqProperties
      <4>2. CutOf(f, file)
        BY <2>5, <4>1 DEF CutOf
      <4> QED BY <2>5, <3>1, <4>1, <4>2 DEF IsLeft
    <3>2. CASE n # synced
      <4>1. f = Cut(file, n, got) /\ got \in 1 .. file[n].got /\ n \in 1 .. Len(file) /\ synced < n
        BY <1>1, <2>2, <2>3, <2>5, <3>2
      <4>2. file[n].got \in Nat
        BY <1>1, <4>1, EntryFields
      <4>3. got \in 0 .. file[n].got
        BY <4>1, <4>2
      <4>4. f \in Seq(Entries) /\ Len(f) = n /\ CutOf(f, file) /\ \A i \in 1 .. n : i # n => f[i] = file[i]
        BY <1>1, <4>1, <4>3, CutTyped
      <4>5. \A i \in 1 .. synced : i \in 1 .. n /\ i # n
        BY <1>1, <2>5, <4>1
      <4> QED BY <2>5, <4>1, <4>4, <4>5 DEF IsLeft
    <3> QED BY <3>1, <3>2
  <2>7. synced' \in synced .. Len(f)
    BY <1>1, <2>4, <2>5, <2>6
  <2> QED BY <2>4, <2>6, <2>7
<1> QED BY <1>2, <1>3

-----------------------------------------------------------------------------
(* The theorems.                                                           *)

\* The invariant holds for an empty file.
LEMMA AofInitially == Init => AofInv
<1> SUFFICES ASSUME Init PROVE AofInv
  OBVIOUS
<1> USE SmallestValues
<1>1. TypeOK
  <2>1. /\ selected \in [Clients -> Databases] /\ mem \in [Databases -> Seq(0 .. MaxWrites)]
        /\ pc \in [Clients -> {"idle", "execute", "append", "write", "reply"}]
        /\ job \in [Clients -> [db : Databases, id : 0 .. MaxWrites, size : {0} \cup Sizes]]
        /\ home \in [Writes -> Databases] /\ before \in [Writes -> SUBSET Writes]
    BY DEF Init
  <2>2. \A c \in Clients : pc[c] = "write" <=> writer = c
    BY DEF Init
  <2>3. file \in Seq(Entries) /\ pending \in Seq(Entries) /\ owed \in Nat
    BY DEF Init
  <2>4. synced \in 0 .. Len(file) /\ issued \in 0 .. MaxWrites
    BY DEF Init
  <2>5. /\ writer \in Clients \cup {None} /\ lastDB \in Databases \cup {None}
        /\ open \in BOOLEAN /\ torn \in BOOLEAN
    BY Zenon DEF Init
  <2>6. /\ acked \subseteq Writes /\ raced \subseteq Databases
        /\ {refused, lost, kept} \subseteq SUBSET Writes
    BY DEF Init
  <2> QED BY <2>1, <2>2, <2>3, <2>4, <2>5, <2>6 DEF TypeOK
<1>2. file = << >> /\ Len(file) = 0 /\ pending = << >> /\ Len(pending) = 0 /\ file \in Seq(Entries)
  BY DEF Init
<1>3. Replayed(file) = {}
  BY <1>2 DEF Replayed
<1>4. AtEnd.wanted = 0
  <2>1. AtEnd = Reading(file)[0]
    BY <1>2 DEF AtEnd, Settled
  <2>2. Reading(file)[0] = ReadNothing
    BY <1>2, ReadingRuns DEF IsReading
  <2> QED BY <2>1, <2>2 DEF ReadNothing
<1>5. PendingIsRest /\ EntriesAreWhole
  BY <1>2, <1>4 DEF Init, PendingIsRest, EntriesAreWhole
<1>6. CommandsAreNew /\ BeforeIsAcked
  BY <1>3 DEF Init, CommandsAreNew, Busy, Behind, BeforeIsAcked
<1>7. KeptIsSynced /\ ReplayIsFaithful /\ LogInRealTimeOrder
  BY <1>3 DEF Init, KeptIsSynced, ReplayIsFaithful, LogInRealTimeOrder
<1>8. LossIsOwed
  <2>1. Missed = {}
    BY DEF Init, Missed, Answered
  <2>2. Cardinality(Missed) = 0
    BY <2>1, FS_EmptySet
  <2>3. Outstanding = 0 /\ owed = 0
    BY DEF Init, Outstanding
  <2> QED BY <2>2, <2>3 DEF LossIsOwed
<1> QED BY <1>1, <1>5, <1>6, <1>7, <1>8 DEF AofInv

\* Every step of a connection, of syncLoop, of a shutdown and of the failures
\* keeps it.
LEMMA AofStep ==
  ASSUME AofInv, [Next]_vars
  PROVE  AofInv'
<1>1. ASSUME NEW c \in Clients, Select(c) \/ Issue(c) PROVE AofInv'
  BY <1>1, SelectKeeps, IssueKeeps
<1>2. ASSUME NEW c \in Clients, Step(c) PROVE AofInv'
  BY <1>2, ExecuteKeeps, LockKeeps, WriteFailsKeeps, FlushKeeps, ReplyKeeps DEF Step
<1>3. CASE Sync \/ Close
  BY <1>3, SyncKeeps, CloseKeeps
<1>4. CASE Kill \/ PowerLoss \/ Exit
  <2>1. PICK f : /\ IsLeft(f) /\ Start(f) /\ synced' \in synced .. Len(f)
                 /\ lost' = lost \cup (WritesIn(file) \ WritesIn(f))
    BY <1>4, EndsStart
  <2> QED BY <2>1, StartKeeps
<1>5. CASE UNCHANGED vars
  <2>1. UNCHANGED <<selected, mem, pc, job, file, synced, pending, writer, lastDB, open, issued,
                    home, acked, before, torn, owed, refused, lost, kept, raced>>
    BY <1>5 DEF vars, log, history
  <2> QED BY <2>1 DEF AofInv, TypeOK, PendingIsRest, EntriesAreWhole, AtEnd, Settled,
         CommandsAreNew, Busy, Behind, BeforeIsAcked, KeptIsSynced, ReplayIsFaithful,
         LossIsOwed, Missed, Answered, Outstanding, LogInRealTimeOrder
<1> QED BY <1>1, <1>2, <1>3, <1>4, <1>5 DEF Next

\* The invariant holds in every reachable state.
LEMMA AofInvariant == Spec => []AofInv
<1>1. AofInv /\ [Next]_vars => AofInv'
  BY AofStep
<1> QED BY <1>1, AofInitially, PTL DEF Spec

\* The state of the connections and of the file is well typed; in particular a
\* command is run on a database that exists, and whoever writes has the mutex.
THEOREM TypeCorrect == Spec => []TypeOK
  BY AofInvariant, PTL DEF AofInv

\* So many of the commands that are missed are answered, or were before a sync.
LEMMA LossBounds ==
  ASSUME AofInv, NEW S, S \subseteq Missed
  PROVE  Cardinality(S) <= owed
<1>1. IsFiniteSet(Missed) /\ Cardinality(Missed) \in Nat
  BY MissedFacts
<1>2. Cardinality(S) \in Nat /\ Cardinality(S) <= Cardinality(Missed)
  BY <1>1, FS_Subset, FS_CardinalityType
<1>3. Cardinality(Missed) + Outstanding <= owed /\ Outstanding \in Nat /\ owed \in Nat
  BY EndFacts DEF AofInv, LossIsOwed
<1>4. \A m, n, p, q \in Nat : n <= m /\ m + p <= q => n <= q
  OBVIOUS
<1> QED BY <1>1, <1>2, <1>3, <1>4, Zenon

\* Answered commands are replayed exactly once, whatever is killed when, unless
\* their append failed or a loss of power took them: all but as many as torn
\* entries lacked elements when a process had put its first marker behind them.
\* They are replayed on their own database as long as no process has found such an
\* entry.
THEOREM AnswersAreReplayed == Spec => []AckedIsReplayed
<1>1. ASSUME AofInv PROVE AckedIsReplayed
  <2>1. acked \ (refused \cup lost \cup WritesIn(file)) \subseteq Missed
    BY DEF Missed, Answered
  <2>2. Cardinality(acked \ (refused \cup lost \cup WritesIn(file))) <= owed
    BY <1>1, <2>1, LossBounds
  <2> QED BY <1>1, <2>2 DEF AofInv, ReplayIsFaithful, AckedIsReplayed
<1> QED BY <1>1, AofInvariant, PTL

\* What was answered before a sync survives every later loss of power, and is
\* replayed, but for as many commands as torn entries have taken for elements.
THEOREM SyncIsEnough == Spec => []SyncedSurvives
<1>1. ASSUME AofInv PROVE SyncedSurvives
  <2>1. kept \ WritesIn(file) \subseteq Missed /\ kept \cap lost = {}
    BY <1>1 DEF AofInv, KeptIsSynced, Missed, Answered
  <2>2. Cardinality(kept \ WritesIn(file)) <= owed
    BY <1>1, <2>1, LossBounds
  <2> QED BY <2>1, <2>2 DEF SyncedSurvives
<1> QED BY <1>1, AofInvariant, PTL

\* The log agrees with the order in which commands were answered and issued:
\* processCommand appends before it replies.
THEOREM ReplayInRealTimeOrder == Spec => []LogInRealTimeOrder
  BY AofInvariant, PTL DEF AofInv

\* What a replay applies now it will always apply, at the same place and to the
\* same database, unless a loss of power takes it away: no append, also behind a
\* half entry, changes the meaning of what comes before.
THEOREM ReplayIsStable == Spec => ReplayOnlyGrows
<1> DEFINE Same(i) == /\ i \in Replayed(file')
                      /\ WriteAt(file', i) = WriteAt(file, i)
                      /\ CurrentDB(file', i) = CurrentDB(file, i)
<1>1. ASSUME AofInv, Next
      PROVE  UNCHANGED file \/ \A i \in Replayed(file) : WriteAt(file, i) \in lost' \/ Same(i)
  <2>1. ASSUME NEW c \in Clients, Flush(c), NEW i \in Replayed(file) PROVE Same(i)
    <3>1. PICK e \in Entries : IsFlush(e)
      BY <1>1, <2>1, FlushWrites
    <3> QED BY <1>1, <2>1, <3>1, FlushReplay
  <2>2. CASE Kill \/ PowerLoss \/ Exit
    <3>1. PICK f : IsLeft(f) /\ Start(f) /\ lost' = lost \cup (WritesIn(file) \ WritesIn(f))
      BY <1>1, <2>2, EndsStart
    <3>2. file \in Seq(Entries) /\ f \in Seq(Entries) /\ CutOf(f, file) /\ file' = f
      BY <1>1, <3>1 DEF AofInv, TypeOK, IsLeft, Start, Boot
    <3>3. /\ \A i \in Replayed(f) : i \in Replayed(file) /\ i \in 1 .. Len(f)
          /\ \A i \in 1 .. Len(f) : WriteAt(f, i) = WriteAt(file, i)
                                   /\ CurrentDB(f, i) = CurrentDB(file, i)
      BY <3>2, CutReplay
    <3> SUFFICES ASSUME NEW i \in Replayed(file) PROVE WriteAt(file, i) \in lost' \/ Same(i)
      OBVIOUS
    <3>4. CASE i \in Replayed(f)
      BY <3>2, <3>3, <3>4
    <3>5. CASE i \notin Replayed(f)
      <4>1. WriteAt(file, i) \in WritesIn(file)
        BY DEF WritesIn
      <4>2. WriteAt(file, i) \notin WritesIn(f)
        BY <1>1, <3>3, <3>5 DEF WritesIn, AofInv, ReplayIsFaithful
      <4> QED BY <3>1, <4>1, <4>2
    <3> QED BY <3>4, <3>5
  <2>3. ASSUME NEW c \in Clients,
               Select(c) \/ Issue(c) \/ Execute(c) \/ Lock(c) \/ WriteFails(c) \/ Reply(c)
        PROVE  UNCHANGED file
    BY <2>3 DEF Select, Issue, Execute, Run, Lock, Prepare, WriteFails, Reply, log
  <2>4. CASE Sync \/ Close
    BY <2>4 DEF Sync, Close
  <2> HIDE DEF Same
  <2> QED BY <1>1, <2>1, <2>2, <2>3, <2>4 DEF Next, Step
<1>2. AofInv /\ [Next]_vars =>
        [file' # file => \A i \in Replayed(file) :
           \/ WriteAt(file, i) \in lost'
           \/ /\ i \in Replayed(file')
              /\ WriteAt(file', i) = WriteAt(file, i)
              /\ CurrentDB(file', i) = CurrentDB(file, i)]_vars
  BY <1>1
<1> QED BY <1>2, AofInvariant, PTL DEF Spec, ReplayOnlyGrows

-----------------------------------------------------------------------------
(* Memory and log.                                                         *)

\* A step that leaves memory and file alone, and changes neither who is ahead
\* of the log nor their commands.
LEMMA FollowsFrame ==
  ASSUME AofInv, MemoryFollowsLog, UNCHANGED <<mem, file, writer, open, torn, raced>>,
         \A b \in Clients : /\ pc'[b] = "append" <=> pc[b] = "append"
                            /\ pc[b] \in {"append", "write"} => job'[b] = job[b]
  PROVE  MemoryFollowsLog'
<1> SUFFICES ASSUME open, ~torn, NEW d \in Databases \ raced
             PROVE  Follows(mem[d], InLog(file, writer, job', d), Ahead(pc', job', d), job')
  BY DEF MemoryFollowsLog
<1>1. Follows(mem[d], InLog(file, writer, job, d), Ahead(pc, job, d), job)
  BY DEF MemoryFollowsLog
<1>2. Ahead(pc', job', d) = Ahead(pc, job, d)
  BY DEF Ahead
<1>3. writer # None => job'[writer] = job[writer]
  BY DEF AofInv, TypeOK
<1>4. InLog(file, writer, job', d) = InLog(file, writer, job, d)
  BY <1>3 DEF InLog
<1>5. \A c \in Ahead(pc, job, d) : job'[c] = job[c]
  BY DEF Ahead
<1> QED BY <1>1, <1>2, <1>4, <1>5 DEF Follows

\* A command takes effect: without a race nothing else is ahead of the log.
LEMMA ExecuteFollows ==
  ASSUME AofInv, MemoryFollowsLog, NEW c \in Clients, Execute(c)
  PROVE  MemoryFollowsLog'
<1>1. /\ pc[c] = "execute" /\ pc' = [pc EXCEPT ![c] = "append"]
      /\ mem' = [mem EXCEPT ![job[c].db] = Append(mem[job[c].db], job[c].id)]
      /\ raced' = raced \cup ({job[c].db} \cap InBetween(c))
      /\ UNCHANGED <<job, file, writer, open, torn>>
  BY DEF Execute, Run, log
<1>2. /\ pc \in [Clients -> {"idle", "execute", "append", "write", "reply"}]
      /\ mem \in [Databases -> Seq(0 .. MaxWrites)] /\ job[c].db \in Databases
  BY DEF AofInv, TypeOK
<1> SUFFICES ASSUME open, ~torn, NEW d \in Databases \ raced'
             PROVE  Follows(mem'[d], InLog(file, writer, job, d), Ahead(pc', job, d), job)
  BY <1>1 DEF MemoryFollowsLog
<1>3. Follows(mem[d], InLog(file, writer, job, d), Ahead(pc, job, d), job)
  BY <1>1 DEF MemoryFollowsLog
<1>4. \A b \in Clients : pc'[b] = IF b = c THEN "append" ELSE pc[b]
  BY <1>1, <1>2
<1>5. CASE job[c].db = d
  <2>1. d \notin InBetween(c)
    BY <1>1, <1>5
  <2>2. Ahead(pc, job, d) = {}
    BY <1>1, <2>1 DEF Ahead, InBetween
  <2>3. Ahead(pc', job, d) = {c}
    BY <1>4, <1>5, <2>2 DEF Ahead
  <2>4. mem[d] = InLog(file, writer, job, d)
    BY <1>3, <2>2 DEF Follows
  <2>5. mem'[d] = Append(InLog(file, writer, job, d), job[c].id)
    BY <1>1, <1>2, <1>5, <2>4
  <2> QED BY <2>3, <2>5 DEF Follows
<1>6. CASE job[c].db # d
  <2>1. Ahead(pc', job, d) = Ahead(pc, job, d)
    BY <1>4, <1>6 DEF Ahead
  <2>2. mem'[d] = mem[d]
    BY <1>1, <1>2, <1>6
  <2> QED BY <1>3, <2>1, <2>2
<1> QED BY <1>5, <1>6

\* The command that was ahead becomes the one that is appended.
LEMMA LockFollows ==
  ASSUME AofInv, MemoryFollowsLog, NEW c \in Clients, Lock(c)
  PROVE  MemoryFollowsLog'
<1>1. /\ pc[c] = "append" /\ pc' = [pc EXCEPT ![c] = "write"] /\ writer = None /\ writer' = c
      /\ UNCHANGED <<mem, job, file, open, torn, raced>>
  BY DEF Lock, Prepare
<1>2. pc \in [Clients -> {"idle", "execute", "append", "write", "reply"}] /\ c # None
  BY SmallestValues DEF AofInv, TypeOK
<1> SUFFICES ASSUME open, ~torn, NEW d \in Databases \ raced
             PROVE  Follows(mem[d], InLog(file, c, job, d), Ahead(pc', job, d), job)
  BY <1>1 DEF MemoryFollowsLog
<1>3. Follows(mem[d], InLog(file, None, job, d), Ahead(pc, job, d), job)
  BY <1>1 DEF MemoryFollowsLog
<1>4. \A b \in Clients : pc'[b] = IF b = c THEN "write" ELSE pc[b]
  BY <1>1, <1>2
<1>5. CASE job[c].db = d
  <2>1. c \in Ahead(pc, job, d)
    BY <1>1, <1>5 DEF Ahead
  <2>2. \A b \in Ahead(pc, job, d) : b = c
    BY <1>3, <2>1 DEF Follows
  <2>3. Ahead(pc', job, d) = {}
    BY <1>4, <2>2 DEF Ahead
  <2>4. mem[d] = Append(InLog(file, None, job, d), job[c].id)
    BY <1>3, <2>1 DEF Follows
  <2>5. InLog(file, c, job, d) = Append(InLog(file, None, job, d), job[c].id)
    BY <1>2, <1>5 DEF InLog
  <2> QED BY <2>3, <2>4, <2>5 DEF Follows
<1>6. CASE job[c].db # d
  <2>1. Ahead(pc', job, d) = Ahead(pc, job, d)
    BY <1>4, <1>6 DEF Ahead
  <2>2. InLog(file, c, job, d) = InLog(file, None, job, d)
    BY <1>6 DEF InLog
  <2> QED BY <1>3, <2>1, <2>2
<1> QED BY <1>5, <1>6

\* The last element of a command makes the replay longer by it, and no other
\* element changes what is replayed.
LEMMA FlushFollows ==
  ASSUME AofInv, MemoryFollowsLog, NEW c \in Clients, Flush(c)
  PROVE  MemoryFollowsLog'
<1>1. PICK e \in Entries : IsFlush(e) /\ (pending' = << >> <=> Whole(e) /\ Len(pending) = 1)
  BY FlushWrites
<1> DEFINE w == job[c].id
           done == Whole(e) /\ Len(pending) = 1
<1>2. /\ pc[c] = "write" /\ UNCHANGED <<mem, job, open, torn, raced>>
      /\ done => writer' = None /\ pc' = [pc EXCEPT ![c] = "reply"]
      /\ ~done => UNCHANGED <<writer, pc>>
  BY <1>1 DEF Flush, history
<1>3. /\ writer = c /\ c # None /\ lastDB = job[c].db /\ job[c].db \in Databases /\ lastDB # None
      /\ Len(pending) \in {1, 2} /\ ~Whole(pending[1])
      /\ pending[1].got > 0 => Len(file) > 0 /\ file[Len(file)] = pending[1]
      /\ Len(pending) = 1 => e.kind = "WRITE" /\ e.n = w
      /\ Len(pending) = 2 => e.kind = "SELECT"
  BY <1>1, FlushFacts DEF IsFlush
<1>4. Reading(file')[Len(file')] = ReadEntry(AtEnd, e)
  BY <1>1, FlushReplay
<1>5. AtEnd \in ReadStates /\ file \in Seq(Entries) /\ Len(file) \in Nat
  BY EndFacts
<1> HIDE DEF w, done
<1> SUFFICES ASSUME open, ~torn, NEW d \in Databases \ raced
             PROVE  Follows(mem[d], InLog(file', writer', job, d), Ahead(pc', job, d), job)
  BY <1>2 DEF MemoryFollowsLog
<1>6. Follows(mem[d], InLog(file, c, job, d), Ahead(pc, job, d), job)
  BY <1>3 DEF MemoryFollowsLog
<1>7. Ahead(pc', job, d) = Ahead(pc, job, d)
  <2>1. pc \in [Clients -> {"idle", "execute", "append", "write", "reply"}]
    BY DEF AofInv, TypeOK
  <2>2. \A b \in Clients : pc'[b] = "append" <=> pc[b] = "append"
    BY <1>2, <2>1
  <2> QED BY <2>2 DEF Ahead
<1>8. AtEnd.wanted = 0 /\ (Len(pending) = 1 => AtEnd.db = job[c].db)
  BY <1>3 DEF AofInv, EntriesAreWhole
<1>9. Read(file) = AtEnd.dbs
  <2>1. CASE pending # << >> /\ pending[1].got > 0
    <3>1. /\ Len(file) \in 1 .. Len(file) /\ Settled = Len(file) - 1
          /\ file[Len(file)] = pending[1] /\ file[Len(file)] \in Entries
      BY <1>3, <1>5, <2>1 DEF Settled
    <3>2. Reading(file)[Len(file)] = ReadEntry(AtEnd, file[Len(file)])
      BY <1>5, <3>1, ReadingRuns DEF IsReading, AtEnd
    <3>3. ReadEntry(AtEnd, file[Len(file)]).dbs = AtEnd.dbs
      BY <1>3, <1>5, <1>8, <3>1, ReadEntryFacts
    <3> QED BY <3>2, <3>3 DEF Read
  <2>2. CASE ~(pending # << >> /\ pending[1].got > 0)
    BY <2>2 DEF Read, AtEnd, Settled
  <2> QED BY <2>1, <2>2
<1>10. CASE done
  <2>1. ReadEntry(AtEnd, e).dbs = [AtEnd.dbs EXCEPT ![AtEnd.db] = Append(AtEnd.dbs[AtEnd.db], e.n)]
    BY <1>3, <1>5, <1>8, <1>10, ReadEntryFacts DEF done
  <2>2. Read(file') = [Read(file) EXCEPT ![job[c].db] = Append(Read(file)[job[c].db], w)]
    BY <1>3, <1>4, <1>8, <1>9, <1>10, <2>1, Zenon DEF Read, done
  <2>3. Read(file) \in [Databases -> Seq(0 .. MaxWrites)]
    BY <1>5, <1>9 DEF ReadStates
  <2>4. Read(file')[d] = IF d = job[c].db THEN Append(Read(file)[d], w) ELSE Read(file)[d]
    BY <2>2, <2>3
  <2>5. InLog(file', writer', job, d) = InLog(file, c, job, d)
    BY <1>2, <1>3, <1>10, <2>4 DEF InLog, w
  <2> QED BY <1>6, <1>7, <2>5
<1>11. CASE ~done
  <2>1. ReadEntry(AtEnd, e).dbs = AtEnd.dbs
    BY <1>3, <1>5, <1>8, <1>11, ReadEntryFacts DEF done
  <2>2. Read(file') = Read(file)
    BY <1>4, <1>9, <2>1 DEF Read
  <2>3. InLog(file', writer', job, d) = InLog(file, c, job, d)
    BY <1>2, <1>3, <1>11, <2>2 DEF InLog
  <2> QED BY <1>6, <1>7, <2>3
<1> QED BY <1>10, <1>11

\* A new process has in memory what it read.
LEMMA StartFollows ==
  ASSUME NEW f, Start(f)
  PROVE  MemoryFollowsLog'
<1>1. /\ mem' = Read(f) /\ file' = f /\ writer' = None
      /\ pc' = [c \in Clients |-> "idle"]
  BY DEF Start, Boot
<1> SUFFICES ASSUME NEW d \in Databases
             PROVE  Follows(mem'[d], InLog(file', writer', job', d), Ahead(pc', job', d), job')
  BY DEF MemoryFollowsLog
<1>2. Ahead(pc', job', d) = {}
  BY <1>1 DEF Ahead
<1>3. InLog(file', writer', job', d) = mem'[d]
  BY <1>1 DEF InLog
<1> QED BY <1>2, <1>3 DEF Follows

\* Together with what is known of the file, memory follows the log in every state.
LEMMA MemoryInvariant == Spec => [](AofInv /\ MemoryFollowsLog)
<1>1. ASSUME Init PROVE MemoryFollowsLog
  <2>1. /\ file = << >> /\ writer = None /\ pc = [c \in Clients |-> "idle"]
        /\ mem = [d \in Databases |-> << >>] /\ Len(file) = 0
    BY <1>1 DEF Init
  <2>2. Read(file) = [d \in Databases |-> << >>]
    <3>1. file \in Seq(Entries)
      BY <2>1
    <3>2. Reading(file)[0] = ReadNothing
      BY <3>1, ReadingRuns DEF IsReading
    <3> QED BY <2>1, <3>2 DEF Read, ReadNothing
  <2> SUFFICES ASSUME NEW d \in Databases
               PROVE  Follows(mem[d], InLog(file, writer, job, d), Ahead(pc, job, d), job)
    BY DEF MemoryFollowsLog
  <2>3. Ahead(pc, job, d) = {}
    BY <2>1 DEF Ahead
  <2> QED BY <2>1, <2>2, <2>3 DEF Follows, InLog
<1>2. ASSUME AofInv, MemoryFollowsLog, [Next]_vars PROVE MemoryFollowsLog'
  <2>1. ASSUME NEW c \in Clients, Select(c) PROVE MemoryFollowsLog'
    BY <1>2, <2>1, FollowsFrame DEF Select, log, history
  <2>2. ASSUME NEW c \in Clients, Issue(c) PROVE MemoryFollowsLog'
    <3>1. /\ pc[c] = "idle" /\ \A b \in Clients : pc'[b] = IF b = c THEN "execute" ELSE pc[b]
          /\ \A b \in Clients \ {c} : job'[b] = job[b]
          /\ UNCHANGED <<mem, file, writer, open, torn, raced>>
      BY <1>2, <2>2 DEF Issue, log, AofInv, TypeOK
    <3> QED BY <1>2, <3>1, FollowsFrame
  <2>3. ASSUME NEW c \in Clients, Reply(c) PROVE MemoryFollowsLog'
    <3>1. /\ pc[c] = "reply" /\ \A b \in Clients : pc'[b] = IF b = c THEN "idle" ELSE pc[b]
          /\ \A b \in Clients \ {c} : job'[b] = job[b]
          /\ UNCHANGED <<mem, file, writer, open, torn, raced>>
      BY <1>2, <2>3 DEF Reply, log, AofInv, TypeOK
    <3> QED BY <1>2, <3>1, FollowsFrame
  <2>4. ASSUME NEW c \in Clients, Execute(c) \/ Lock(c) PROVE MemoryFollowsLog'
    BY <1>2, <2>4, ExecuteFollows, LockFollows
  <2>5. ASSUME NEW c \in Clients, Flush(c) PROVE MemoryFollowsLog'
    BY <1>2, <2>5, FlushFollows
  <2>6. ASSUME NEW c \in Clients, WriteFails(c) PROVE MemoryFollowsLog'
    BY <2>6 DEF WriteFails, log, MemoryFollowsLog
  <2>7. CASE Close
    BY <2>7 DEF Close, MemoryFollowsLog
  <2>8. CASE Sync
    BY <1>2, <2>8, FollowsFrame DEF Sync
  <2>9. CASE Kill \/ PowerLoss \/ Exit
    BY <1>2, <2>9, EndsStart, StartFollows
  <2>10. CASE UNCHANGED vars
    BY <1>2, <2>10, FollowsFrame DEF vars, log, history
  <2> QED BY <1>2, <2>1, <2>2, <2>3, <2>4, <2>5, <2>6, <2>7, <2>8, <2>9, <2>10 DEF Next, Step
<1> QED BY <1>1, <1>2, AofInvariant, PTL DEF Spec

\* A database on which no two commands overlapped is restored to the very history
\* it has in memory, whatever the other databases do and however often the
\* process was killed, as long as it leaves no half entry.
THEOREM SerialDatabaseIsRestored == Spec => []SerialIsRestored
<1>1. ASSUME AofInv, MemoryFollowsLog PROVE SerialIsRestored
  <2> SUFFICES ASSUME NEW d \in Databases \ raced, open, ~torn,
                      \A c \in Clients : pc[c] \in {"append", "write"} => job[c].db # d
               PROVE  Read(file)[d] = mem[d]
    BY DEF SerialIsRestored
  <2>1. Follows(mem[d], InLog(file, writer, job, d), Ahead(pc, job, d), job)
    BY <1>1 DEF MemoryFollowsLog
  <2>2. Ahead(pc, job, d) = {}
    BY DEF Ahead
  <2>3. writer # None => job[writer].db # d
    BY <1>1 DEF AofInv, TypeOK
  <2> QED BY <2>1, <2>2, <2>3 DEF Follows, InLog
<1> QED BY <1>1, MemoryInvariant, PTL

=============================================================================
