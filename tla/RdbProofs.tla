----------------------------- MODULE RdbProofs -----------------------------
(***************************************************************************)
(* Theorems about Rdb, for any number of connections, databases, keys and  *)
(* writes: types, whole files, consistent cuts, and the refinement of      *)
(* DurableStore.                                                           *)
(***************************************************************************)
EXTENDS Rdb, Extrema, FiniteSetTheorems, SequenceTheorems, TLAPS

-----------------------------------------------------------------------------
(* The inductive invariant.                                                *)

OnTmp == Loaded(tmp)

\* A connection that has a write under way.
Pending(c) == pc[c] \in {"set", "lookup", "push", "count"}

\* What is in a database's maps, and which writes may still come.
KeysArePresent ==
  /\ \A q \in InMemory : q[2] \in present[q[1]]
  /\ \A c \in Clients : pc[c] = "push" => job[c].keys \subseteq present[job[c].db]

\* A write is answered once, after it has taken effect.
WritesAreNew ==
  /\ 0 \in acked /\ acked \subseteq 0 .. issued
  /\ \A q \in InMemory : q[3] \in 0 .. issued
  /\ \A c \in Clients : Pending(c) => job[c].id \in (1 .. issued) \ acked
  /\ \A c, d \in Clients : Pending(c) /\ Pending(d) /\ job[c].id = job[d].id => c = d
  /\ \A c \in Clients : pc[c] \in {"set", "lookup", "push"} =>
       \A q \in InMemory : q[3] # job[c].id

\* A write goes to strings of one database, or to one container.
WritesAreLocal ==
  /\ \A c \in Clients :
       /\ pc[c] = "set" => job[c].keys \subseteq Strings
       /\ pc[c] \in {"lookup", "push"} => \E k \in Containers : job[c].keys = {k}
  /\ \A p, q \in InMemory : p[3] = q[3] =>
       /\ p[1] = q[1]
       /\ p[2] = q[2] \/ p[3] = 0 \/ {p[2], q[2]} \subseteq Strings

\* Whoever waits for r.mu or holds it does not call Save again.
CallersWait ==
  /\ owner \notin wants
  /\ \A s \in wants \cup {owner} :
       /\ s \in Clients => pc[s] = "save"
       /\ s = Loop => loop = "save"
       /\ s = Closer => stopping

\* The file that is being written.
TmpShape ==
  /\ owner = None => stage = "next" /\ at = 0 /\ left = {}
  /\ owner # None => tmp # << >> /\ tmp[1].op = "header"
  /\ stage = "rename" => at = NumDatabases /\ Len(tmp) >= 2 /\ tmp[Len(tmp)].op = "eof"
  /\ stage = "keys" => CurrentDB(tmp, Len(tmp)) = at

\* Nothing is in a file, or owed to a caller, that is not in memory.
FilesFollowMemory ==
  /\ OnDisk \subseteq InMemory
  /\ OnTmp \subseteq InMemory
  /\ \A s \in Savers : \A q \in due[s] : q \in InMemory /\ q[3] \in acked

\* The walk has come past the place of q.
Walked(q) == q[1] < at \/ (q[1] = at /\ stage = "keys" /\ q[2] \notin left)

\* What the walk has come past is in the temporary file: if it was answered,
\* since no write is answered while r.mu is held; if it is in the file of an
\* earlier save; and if it is a string of the database that is locked.
WalkedIsWritten ==
  owner # None => \A q \in InMemory :
    /\ Walked(q)
    /\ \/ q[3] \in acked
       \/ q \in OnDisk
       \/ q[1] = at /\ stage = "keys" /\ q[2] \in Strings
    => q \in OnTmp

\* A write that is in the temporary file is there with all its keys the walk
\* has come past.
WritesAreWhole ==
  owner # None => \A p \in OnTmp, q \in InMemory :
    p[3] = q[3] /\ Walked(q) => q \in OnTmp

\* Writes come after what was answered before them.
BeforeIsAcked == \A w \in Writes : before[w] \subseteq acked

RdbInv ==
  /\ TypeOK /\ DiskIsWhole /\ KeysArePresent /\ WritesAreNew /\ WritesAreLocal
  /\ CallersWait /\ TmpShape /\ FilesFollowMemory /\ WalkedIsWritten /\ WritesAreWhole
  /\ BeforeIsAcked /\ SnapshotIsCut

-----------------------------------------------------------------------------
(* The file.                                                               *)

\* The fields of a record.
LEMMA RecordFields ==
  ASSUME NEW r \in Records
  PROVE  /\ r.op \in {"header", "eof", "selectdb", "key"}
         /\ r.op = "selectdb" => r.db \in Databases
         /\ r.op = "key" => r.key \in Keys /\ r.val \in SUBSET Writes
  BY DEF Records

\* The records that Save writes.
LEMMA SaveRecords ==
  /\ [op |-> "header"] \in Records /\ [op |-> "eof"] \in Records
  /\ \A d \in Databases : [op |-> "selectdb", db |-> d] \in Records
  /\ \A k \in Keys, v \in SUBSET Writes : [op |-> "key", key |-> k, val |-> v] \in Records
  BY DEF Records

\* Load's currentDB at a record is an index it can use, and depends on the
\* records up to it only.
LEMMA CurrentDBFacts ==
  ASSUME NEW f \in Seq(Records), NEW i \in 0 .. Len(f)
  PROVE  /\ CurrentDB(f, i) \in Databases
         /\ CurrentDB(f, i) = 0 \/ \E j \in 1 .. i : f[j].op = "selectdb" /\ CurrentDB(f, i) = f[j].db
         /\ \A g \in Seq(Records) :
              i <= Len(g) /\ (\A j \in 1 .. i : g[j] = f[j]) => CurrentDB(g, i) = CurrentDB(f, i)
<1> DEFINE S(h) == {j \in 1 .. i : h[j].op = "selectdb"}
           Latest(T) == CHOOSE j \in T : \A m \in T : m <= j
<1>1. \A h : CurrentDB(h, i) = IF S(h) = {} THEN 0 ELSE h[Latest(S(h))].db
  BY DEF CurrentDB
<1>2. S(f) # {} => Latest(S(f)) \in S(f)
  <2> HIDE DEF S
  <2> SUFFICES ASSUME S(f) # {} PROVE Latest(S(f)) \in S(f)
    OBVIOUS
  <2>1. S(f) \in SUBSET (0 .. Len(f)) /\ Len(f) \in Nat
    BY DEF S
  <2>2. \E x \in S(f) : \A y \in S(f) : y <= x
    BY <2>1, MaxExists
  <2> QED BY <2>2
<1>3. CurrentDB(f, i) \in Databases
  <2>1. 0 \in Databases
    BY RdbAssumption DEF Databases
  <2>2. ASSUME S(f) # {} PROVE f[Latest(S(f))].db \in Databases
    <3> HIDE DEF Latest
    <3>1. f[Latest(S(f))] \in Records /\ f[Latest(S(f))].op = "selectdb"
      BY <1>2, <2>2
    <3> QED BY <3>1, RecordFields
  <2> HIDE DEF S, Latest
  <2> QED BY <1>1, <2>1, <2>2
<1>4. CurrentDB(f, i) = 0 \/ \E j \in 1 .. i : f[j].op = "selectdb" /\ CurrentDB(f, i) = f[j].db
  <2> HIDE DEF Latest
  <2> QED BY <1>1, <1>2
<1>5. ASSUME NEW g \in Seq(Records), i <= Len(g), \A j \in 1 .. i : g[j] = f[j]
      PROVE  CurrentDB(g, i) = CurrentDB(f, i)
  <2>1. S(g) = S(f)
    BY <1>5
  <2>2. S(f) # {} => g[Latest(S(f))] = f[Latest(S(f))]
    <3> HIDE DEF Latest
    <3> QED BY <1>2, <1>5
  <2> HIDE DEF S, Latest
  <2> QED BY <1>1, <2>1, <2>2
<1> QED BY <1>3, <1>4, <1>5

\* Load's currentDB moves at a SELECTDB record.
LEMMA CurrentDBMoves ==
  ASSUME NEW f \in Seq(Records), NEW i \in 1 .. Len(f)
  PROVE  CurrentDB(f, i) = IF f[i].op = "selectdb" THEN f[i].db ELSE CurrentDB(f, i - 1)
<1> DEFINE S(n) == {j \in 1 .. n : f[j].op = "selectdb"}
           Latest(T) == CHOOSE j \in T : \A m \in T : m <= j
<1>1. \A n : CurrentDB(f, n) = IF S(n) = {} THEN 0 ELSE f[Latest(S(n))].db
  BY DEF CurrentDB
<1>2. CASE f[i].op = "selectdb"
  <2>1. i \in S(i) /\ \A m \in S(i) : m <= i /\ m \in Nat
    BY <1>2
  <2>2. Latest(S(i)) = i
    <3> HIDE DEF S
    <3> QED BY <2>1
  <2> HIDE DEF S, Latest
  <2> QED BY <1>1, <1>2, <2>1, <2>2
<1>3. CASE f[i].op # "selectdb"
  <2>1. S(i) = S(i - 1)
    BY <1>3
  <2> HIDE DEF S, Latest
  <2> QED BY <1>1, <1>3, <2>1
<1> QED BY <1>2, <1>3

\* What Load puts into the databases, one value at a time.
LEMMA LoadedMembers ==
  ASSUME NEW f \in Seq(Records)
  PROVE  /\ \A d, k, w : <<d, k, w>> \in Loaded(f) <=>
              \E i \in 1 .. Len(f) : /\ f[i].op = "key" /\ f[i].key = k /\ w \in f[i].val
                                    /\ CurrentDB(f, i) = d
         /\ Loaded(f) \subseteq Placed
<1>1. DOMAIN f = 1 .. Len(f)
  OBVIOUS
<1>2. \A q : q \in Loaded(f) <=>
        \E i \in 1 .. Len(f) : /\ f[i].op = "key"
                              /\ q \in {CurrentDB(f, i)} \X {f[i].key} \X f[i].val
  BY <1>1 DEF Loaded
<1>3. \A i \in 1 .. Len(f) : CurrentDB(f, i) \in Databases
  BY CurrentDBFacts
<1>4. \A i \in 1 .. Len(f) : f[i].op = "key" => f[i].key \in Keys /\ f[i].val \in SUBSET Writes
  BY RecordFields
<1>5. Loaded(f) \subseteq Placed
  BY <1>2, <1>3, <1>4 DEF Placed
<1>6. ASSUME NEW d, NEW k, NEW w
      PROVE  <<d, k, w>> \in Loaded(f) <=>
              \E i \in 1 .. Len(f) : /\ f[i].op = "key" /\ f[i].key = k /\ w \in f[i].val
                                    /\ CurrentDB(f, i) = d
  BY <1>2
<1> QED BY <1>5, <1>6

\* Save appends records: what was in the file stays there, a key record adds
\* its values to the database of the last SELECTDB, and other records add none.
LEMMA LoadedAppend ==
  ASSUME NEW f \in Seq(Records), NEW r \in Records
  PROVE  /\ Append(f, r) \in Seq(Records)
         /\ CurrentDB(Append(f, r), Len(f) + 1) =
              (IF r.op = "selectdb" THEN r.db ELSE CurrentDB(f, Len(f)))
         /\ r.op # "key" => Loaded(Append(f, r)) = Loaded(f)
         /\ r.op = "key" => Loaded(Append(f, r)) =
              Loaded(f) \cup {CurrentDB(f, Len(f))} \X {r.key} \X r.val
<1> DEFINE g == Append(f, r)
           n == Len(f)
<1>1. /\ g \in Seq(Records) /\ Len(g) = n + 1 /\ n \in Nat
      /\ g[n + 1] = r /\ \A i \in 1 .. n : g[i] = f[i]
  OBVIOUS
<1> HIDE DEF g, n
<1>2. \A i \in 0 .. n : CurrentDB(g, i) = CurrentDB(f, i)
  <2> TAKE i \in 0 .. n
  <2>1. f \in Seq(Records) /\ i \in 0 .. Len(f) /\ i <= Len(g)
    BY <1>1 DEF n
  <2>2. \A j \in 1 .. i : g[j] = f[j]
    BY <1>1
  <2> QED BY <1>1, <2>1, <2>2, CurrentDBFacts
<1>3. CurrentDB(g, n + 1) = IF r.op = "selectdb" THEN r.db ELSE CurrentDB(f, n)
  <2>1. CurrentDB(g, n + 1) = IF g[n + 1].op = "selectdb" THEN g[n + 1].db ELSE CurrentDB(g, n + 1 - 1)
    BY <1>1, CurrentDBMoves
  <2>2. n + 1 - 1 = n /\ n \in 0 .. n
    BY <1>1
  <2> QED BY <1>1, <1>2, <2>1, <2>2
<1>4. \A q : q \in Placed => q = <<q[1], q[2], q[3]>>
  BY DEF Placed
<1>5. ASSUME NEW d, NEW k, NEW w
      PROVE  <<d, k, w>> \in Loaded(g) <=>
               \/ <<d, k, w>> \in Loaded(f)
               \/ (r.op = "key" /\ r.key = k /\ w \in r.val /\ CurrentDB(f, n) = d)
  <2>1. <<d, k, w>> \in Loaded(g) <=>
          \E i \in 1 .. n + 1 : /\ g[i].op = "key" /\ g[i].key = k /\ w \in g[i].val
                               /\ CurrentDB(g, i) = d
    BY <1>1, LoadedMembers
  <2>2. <<d, k, w>> \in Loaded(f) <=>
          \E i \in 1 .. n : /\ f[i].op = "key" /\ f[i].key = k /\ w \in f[i].val
                           /\ CurrentDB(f, i) = d
    BY LoadedMembers DEF n
  <2>3. \A i : i \in 1 .. n + 1 <=> (i \in 1 .. n \/ i = n + 1)
    BY <1>1
  <2>4. r.op = "key" => CurrentDB(g, n + 1) = CurrentDB(f, n)
    BY <1>3
  <2>5. \A i \in 1 .. n : g[i] = f[i] /\ CurrentDB(g, i) = CurrentDB(f, i)
    BY <1>1, <1>2
  <2> QED BY <1>1, <2>1, <2>2, <2>3, <2>4, <2>5
<1>6. Loaded(f) \subseteq Placed /\ Loaded(g) \subseteq Placed
  BY <1>1, LoadedMembers
<1>7. r.op # "key" => Loaded(g) = Loaded(f)
  <2> SUFFICES ASSUME r.op # "key"
               PROVE  \A q \in Loaded(f) \cup Loaded(g) : q \in Loaded(g) <=> q \in Loaded(f)
    OBVIOUS
  <2> TAKE q \in Loaded(f) \cup Loaded(g)
  <2>1. q = <<q[1], q[2], q[3]>>
    BY <1>4, <1>6
  <2> QED BY <1>5, <2>1
<1>8. r.op = "key" => Loaded(g) = Loaded(f) \cup {CurrentDB(f, n)} \X {r.key} \X r.val
  <2> SUFFICES ASSUME r.op = "key"
               PROVE  Loaded(g) = Loaded(f) \cup {CurrentDB(f, n)} \X {r.key} \X r.val
    OBVIOUS
  <2>1. ASSUME NEW q \in Loaded(g)
        PROVE  q \in Loaded(f) \cup {CurrentDB(f, n)} \X {r.key} \X r.val
    <3>1. q = <<q[1], q[2], q[3]>>
      BY <1>4, <1>6, <2>1
    <3>2. q \in Loaded(f) \/ (r.key = q[2] /\ q[3] \in r.val /\ CurrentDB(f, n) = q[1])
      BY <1>5, <2>1, <3>1
    <3> QED BY <3>1, <3>2
  <2>2. ASSUME NEW q \in Loaded(f) \cup {CurrentDB(f, n)} \X {r.key} \X r.val
        PROVE  q \in Loaded(g)
    <3>1. q = <<q[1], q[2], q[3]>>
      BY <1>4, <1>6, <2>2
    <3>2. q \in Loaded(f) \/ (r.key = q[2] /\ q[3] \in r.val /\ CurrentDB(f, n) = q[1])
      BY <2>2
    <3> QED BY <1>5, <3>1, <3>2
  <2> QED BY <2>1, <2>2
<1> QED BY <1>1, <1>3, <1>7, <1>8 DEF g, n

\* A file without a key record holds nothing.
LEMMA LoadedNothing ==
  /\ << >> \in Seq(Records) /\ Loaded(<< >>) = {}
  /\ <<[op |-> "header"]>> \in Seq(Records) /\ Loaded(<<[op |-> "header"]>>) = {}
<1>1. << >> \in Seq(Records) /\ Loaded(<< >>) = {}
  BY DEF Loaded
<1>2. [op |-> "header"] \in Records /\ [op |-> "header"].op = "header"
  BY SaveRecords
<1>3. <<[op |-> "header"]>> = Append(<< >>, [op |-> "header"])
  OBVIOUS
<1> QED BY <1>1, <1>2, <1>3, LoadedAppend

-----------------------------------------------------------------------------
(* The databases.                                                          *)

\* What is in memory, one value at a time.
LEMMA MemoryMembers ==
  ASSUME TypeOK
  PROVE  /\ \A d, k, w : <<d, k, w>> \in InMemory <=>
              d \in Databases /\ k \in Keys /\ w \in content[d][k]
         /\ InMemory \subseteq Placed
         /\ \A q \in Placed : /\ q = <<q[1], q[2], q[3]>>
                              /\ q[1] \in Databases /\ q[2] \in Keys /\ q[3] \in Writes
<1>1. \A q \in Placed : /\ q = <<q[1], q[2], q[3]>>
                        /\ q[1] \in Databases /\ q[2] \in Keys /\ q[3] \in Writes
  BY DEF Placed
<1>2. \A d \in Databases, k \in Keys : content[d][k] \in SUBSET Writes
  BY DEF TypeOK
<1>3. ASSUME NEW d, NEW k, NEW w
      PROVE  <<d, k, w>> \in InMemory <=> d \in Databases /\ k \in Keys /\ w \in content[d][k]
  BY <1>2 DEF InMemory, Placed
<1> QED BY <1>1, <1>3 DEF InMemory

\* A write adds itself to its keys and changes nothing else.
LEMMA WrittenMembers ==
  ASSUME TypeOK, NEW c \in Clients, content' = Written(c)
  PROVE  /\ content' \in [Databases -> [Keys -> SUBSET Writes]]
         /\ InMemory' = InMemory \cup {job[c].db} \X job[c].keys \X {job[c].id}
<1> DEFINE j == job[c]
<1>1. j.db \in Databases /\ j.keys \in SUBSET Keys /\ j.id \in Writes
  BY DEF TypeOK
<1>2. content \in [Databases -> [Keys -> SUBSET Writes]]
  BY DEF TypeOK
<1> HIDE DEF j
<1>3. content' = [content EXCEPT ![j.db] =
        [k \in Keys |-> IF k \in j.keys THEN content[j.db][k] \cup {j.id} ELSE content[j.db][k]]]
  BY DEF Written, j
<1>4. content' \in [Databases -> [Keys -> SUBSET Writes]]
  BY <1>1, <1>2, <1>3
<1>5. \A d \in Databases, k \in Keys :
        content'[d][k] = IF d = j.db /\ k \in j.keys THEN content[d][k] \cup {j.id} ELSE content[d][k]
  <2> TAKE d \in Databases, k \in Keys
  <2>1. d # j.db => content'[d] = content[d]
    BY <1>1, <1>2, <1>3
  <2>2. d = j.db => content'[d] =
          [x \in Keys |-> IF x \in j.keys THEN content[d][x] \cup {j.id} ELSE content[d][x]]
    BY <1>1, <1>2, <1>3
  <2>3. d = j.db => content'[d][k] = IF k \in j.keys THEN content[d][k] \cup {j.id} ELSE content[d][k]
    BY <2>2
  <2> QED BY <2>1, <2>3
<1>6. ASSUME NEW q \in Placed
      PROVE  q \in InMemory' <=> q \in InMemory \/ q \in {j.db} \X j.keys \X {j.id}
  <2>1. /\ q = <<q[1], q[2], q[3]>>
        /\ q[1] \in Databases /\ q[2] \in Keys /\ q[3] \in Writes
    BY <1>6 DEF Placed
  <2>2. q \in {j.db} \X j.keys \X {j.id} <=> q[1] = j.db /\ q[2] \in j.keys /\ q[3] = j.id
    BY <2>1
  <2> QED BY <1>5, <2>1, <2>2 DEF InMemory
<1>7. {j.db} \X j.keys \X {j.id} \subseteq Placed
  BY <1>1 DEF Placed
<1>8. InMemory \subseteq Placed /\ InMemory' \subseteq Placed
  BY DEF InMemory, Placed
<1>9. InMemory' = InMemory \cup {j.db} \X j.keys \X {j.id}
  BY <1>6, <1>7, <1>8
<1> QED BY <1>4, <1>9 DEF j

\* A process that loads a file has in memory exactly what is in the file.
LEMMA LoadMembers ==
  ASSUME NEW f \in Seq(Records), content' = Load(f)
  PROVE  /\ content' \in [Databases -> [Keys -> SUBSET Writes]]
         /\ InMemory' = Loaded(f)
<1>1. Loaded(f) \subseteq Placed
  BY LoadedMembers
<1>2. content' = [d \in Databases |-> [k \in Keys |->
                   {p[3] : p \in {q \in Loaded(f) : <<q[1], q[2]>> = <<d, k>>}}]]
  BY DEF Load
<1>3. \A q \in Placed : /\ q = <<q[1], q[2], q[3]>>
                        /\ q[1] \in Databases /\ q[2] \in Keys /\ q[3] \in Writes
  BY DEF Placed
<1>4. content' \in [Databases -> [Keys -> SUBSET Writes]]
  BY <1>1, <1>2, <1>3
<1>5. ASSUME NEW q \in Placed
      PROVE  q \in InMemory' <=> q \in Loaded(f)
  <2>1. q[3] \in content'[q[1]][q[2]] <=>
          \E p \in Loaded(f) : p[1] = q[1] /\ p[2] = q[2] /\ p[3] = q[3]
    BY <1>2, <1>3, <1>5
  <2>2. \A p \in Loaded(f) : p[1] = q[1] /\ p[2] = q[2] /\ p[3] = q[3] => p = q
    BY <1>1, <1>3, <1>5
  <2> QED BY <1>5, <2>1, <2>2 DEF InMemory
<1>6. InMemory' \subseteq Placed
  BY DEF InMemory, Placed
<1> QED BY <1>1, <1>4, <1>5, <1>6

\* Two runs of records in a row.
LEMMA ConcatRecords ==
  ASSUME NEW s \in Seq(Records), NEW t \in Seq(Records)
  PROVE  /\ s \o t \in Seq(Records) /\ Len(s \o t) = Len(s) + Len(t)
         /\ \A i \in 1 .. Len(s) + Len(t) :
              (s \o t)[i] = IF i <= Len(s) THEN s[i] ELSE t[i - Len(s)]
  BY ConcatProperties

\* The file the first process finds is whole and holds what Init puts into
\* memory.
LEMMA FirstFile ==
  ASSUME NEW f \in FirstFiles
  PROVE  /\ f \in Seq(Records)
         /\ f # << >> => Whole(f)
         /\ Loaded(f) = {0} \X Stored \X {0}
<1>1. CASE Stored = {}
  BY <1>1, LoadedNothing DEF FirstFiles
<1>2. CASE Stored # {}
  <2>1. PICK keys \in SetToSeqs(Stored) :
          f = <<[op |-> "header"], [op |-> "selectdb", db |-> 0]>>
                \o [i \in DOMAIN keys |-> [op |-> "key", key |-> keys[i], val |-> {0}]]
                \o <<[op |-> "eof"]>>
    BY <1>2 DEF FirstFiles
  <2> DEFINE n == Cardinality(Stored)
             hs == <<[op |-> "header"], [op |-> "selectdb", db |-> 0]>>
             ks == [i \in DOMAIN keys |-> [op |-> "key", key |-> keys[i], val |-> {0}]]
             eof == <<[op |-> "eof"]>>
  <2>2. IsFiniteSet(Stored) /\ n \in Nat /\ Stored \subseteq Keys /\ 0 \in Databases /\ 0 \in Writes
    BY RdbAssumption, FS_CardinalityType DEF Keys, Databases, Writes
  <2>3. keys \in [1 .. n -> Stored] /\ \A i, j \in 1 .. n : i # j => keys[i] # keys[j]
    BY DEF SetToSeqs
  <2>4. \A k \in Stored : \E i \in 1 .. n : keys[i] = k
    <3>1. Cardinality(1 .. n) = n
      BY <2>2, FS_Interval
    <3>2. keys \in Injection(1 .. n, Stored)
      BY <2>3 DEF Injection, IsInjective
    <3>3. keys \in Surjection(1 .. n, Stored)
      BY <2>2, <3>1, <3>2, FS_Injection
    <3> QED BY <3>3 DEF Surjection
  <2> HIDE DEF n
  <2>5. /\ hs \in Seq(Records) /\ Len(hs) = 2 /\ eof \in Seq(Records) /\ Len(eof) = 1
        /\ hs[1].op = "header" /\ hs[2].op = "selectdb" /\ hs[2].db = 0 /\ eof[1].op = "eof"
    BY <2>2, SaveRecords
  <2>6. /\ ks \in Seq(Records) /\ Len(ks) = n
        /\ \A i \in 1 .. n : ks[i].op = "key" /\ ks[i].key = keys[i] /\ ks[i].val = {0}
    BY <2>2, <2>3, SaveRecords
  <2>7. f = hs \o ks \o eof
    BY <2>1
  <2> HIDE DEF hs, ks, eof
  <2>8. /\ f \in Seq(Records) /\ Len(f) = n + 3
        /\ \A i \in 1 .. n + 3 :
             f[i] = IF i <= 2 THEN hs[i] ELSE IF i <= n + 2 THEN ks[i - 2] ELSE eof[1]
    <3> DEFINE u == hs \o ks
    <3>1. /\ u \in Seq(Records) /\ Len(u) = Len(hs) + Len(ks)
          /\ \A i \in 1 .. Len(hs) + Len(ks) :
               u[i] = IF i <= Len(hs) THEN hs[i] ELSE ks[i - Len(hs)]
      BY <2>5, <2>6, ConcatRecords
    <3> HIDE DEF u
    <3>2. /\ u \o eof \in Seq(Records) /\ Len(u \o eof) = Len(u) + Len(eof)
          /\ \A i \in 1 .. Len(u) + Len(eof) :
               (u \o eof)[i] = IF i <= Len(u) THEN u[i] ELSE eof[i - Len(u)]
      BY <2>5, <3>1, ConcatRecords
    <3>3. f = u \o eof
      BY <2>7 DEF u
    <3> QED BY <2>2, <2>5, <2>6, <3>1, <3>2, <3>3
  <2>9. Whole(f)
    BY <2>2, <2>5, <2>8 DEF Whole
  <2>10. \A i \in 1 .. n + 3 : CurrentDB(f, i) = 0
    <3> TAKE i \in 1 .. n + 3
    <3>1. \A j \in 1 .. i : f[j].op = "selectdb" => f[j].db = 0
      BY <2>2, <2>5, <2>6, <2>8
    <3>2. i \in 0 .. Len(f)
      BY <2>8
    <3> QED BY <2>8, <3>1, <3>2, CurrentDBFacts
  <2>11. ASSUME NEW d, NEW k, NEW w
         PROVE  <<d, k, w>> \in Loaded(f) <=> <<d, k, w>> \in {0} \X Stored \X {0}
    <3>1. <<d, k, w>> \in Loaded(f) <=>
            \E i \in 1 .. n + 3 : /\ f[i].op = "key" /\ f[i].key = k /\ w \in f[i].val
                                 /\ CurrentDB(f, i) = d
      BY <2>8, LoadedMembers
    <3>2. ASSUME NEW i \in 1 .. n + 3, f[i].op = "key"
          PROVE  f[i].key \in Stored /\ f[i].val = {0}
      <4>1. i - 2 \in 1 .. n /\ f[i] = ks[i - 2]
        BY <2>2, <2>5, <2>8, <3>2
      <4> QED BY <2>3, <2>6, <4>1
    <3>3. ASSUME NEW x \in Stored
          PROVE  \E i \in 1 .. n + 3 : f[i].op = "key" /\ f[i].key = x /\ 0 \in f[i].val
      <4>1. PICK i \in 1 .. n : keys[i] = x
        BY <2>4
      <4>2. i + 2 \in 1 .. n + 3 /\ f[i + 2] = ks[i]
        BY <2>2, <2>8
      <4> QED BY <2>6, <4>1, <4>2
    <3> QED BY <2>10, <3>1, <3>2, <3>3
  <2>12. Loaded(f) \subseteq Placed /\ \A q \in Placed : q = <<q[1], q[2], q[3]>>
    BY <2>8, LoadedMembers DEF Placed
  <2>13. Loaded(f) = {0} \X Stored \X {0}
    <3>1. ASSUME NEW q \in Loaded(f) PROVE q \in {0} \X Stored \X {0}
      BY <2>11, <2>12, <3>1
    <3>2. ASSUME NEW q \in {0} \X Stored \X {0} PROVE q \in Loaded(f)
      <4>1. q = <<q[1], q[2], q[3]>>
        BY <3>2
      <4> QED BY <2>11, <3>2, <4>1
    <3> QED BY <3>1, <3>2
  <2> QED BY <2>8, <2>9, <2>13
<1> QED BY <1>1, <1>2

-----------------------------------------------------------------------------
(* Types.                                                                  *)

\* The names of the savers are different.
LEMMA SaverNames ==
  /\ Loop \in Savers /\ Closer \in Savers /\ Clients \subseteq Savers /\ Background \subseteq Savers
  /\ None \notin Savers /\ Loop # Closer /\ Loop \notin Clients /\ Closer \notin Clients
  /\ Loop \notin Background /\ Closer \notin Background /\ Clients \cap Background = {}
  BY RdbAssumption DEF Savers, Loop, Closer, None

\* Databases and writes that are there in any case.
LEMMA SmallestValues ==
  /\ 0 \in Databases /\ 0 \in Writes /\ 0 \in 0 .. NumDatabases /\ 0 \in 0 .. MaxAge
  /\ NumDatabases \in Nat \ {0} /\ MaxWrites \in Nat /\ MaxAge \in Nat
  /\ \A d \in 0 .. NumDatabases : d < NumDatabases => d \in Databases
  /\ NoJob \in [db : Databases, keys : SUBSET Keys, id : Writes]
  BY RdbAssumption DEF Databases, Writes, NoJob

\* A connection's steps keep the types.
LEMMA WriterTyped ==
  ASSUME TypeOK, NEW c \in Clients, Command(c) \/ Writer(c)
  PROVE  TypeOK'
<1> USE SaverNames, SmallestValues
<1>1. ASSUME NEW ks \in SUBSET Keys, NEW step \in {"set", "lookup"}, Issue(c, ks, step)
      PROVE  TypeOK'
  <2>1. issued + 1 \in 0 .. MaxWrites /\ issued + 1 \in Writes
    BY <1>1 DEF Issue, TypeOK, Writes
  <2>2. PICK d \in Databases : job' = [job EXCEPT ![c] = [db |-> d, keys |-> ks, id |-> issued + 1]]
    BY <1>1 DEF Issue
  <2>3. job' \in [Clients -> [db : Databases, keys : SUBSET Keys, id : Writes]]
    BY <1>1, <2>1, <2>2 DEF TypeOK
  <2>4. /\ pc' \in [Clients -> {"idle", "set", "lookup", "push", "count", "save"}]
        /\ before' \in [Writes -> SUBSET Writes] /\ issued' \in 0 .. MaxWrites
    BY <1>1, <2>1 DEF Issue, TypeOK
  <2> QED BY <1>1, <2>3, <2>4 DEF Issue, TypeOK, dataVars, saveVars
<1>2. CASE IssueSet(c)
  BY <1>1, <1>2 DEF IssueSet, Keys
<1>3. CASE IssuePush(c)
  BY <1>1, <1>3 DEF IssuePush, Keys
<1>4. CASE IssueSave(c)
  <2>1. due' \in [Savers -> SUBSET Placed]
    BY <1>4 DEF IssueSave, CallSave, TypeOK, InMemory
  <2>2. wants' \subseteq Savers /\ pc' \in [Clients -> {"idle", "set", "lookup", "push", "count", "save"}]
    BY <1>4 DEF IssueSave, CallSave, TypeOK
  <2> QED BY <1>4, <2>1, <2>2 DEF IssueSave, TypeOK, dataVars, saveVars, ghostVars
<1>5. CASE IssueBgsave(c)
  <2>1. PICK b \in Background : CallSave(b)
    BY <1>5 DEF IssueBgsave
  <2>2. due' \in [Savers -> SUBSET Placed] /\ wants' \subseteq Savers
    BY <2>1 DEF CallSave, TypeOK, InMemory
  <2> QED BY <1>5, <2>2 DEF IssueBgsave, TypeOK, dataVars, saveVars, ghostVars
<1>6. /\ job[c].db \in Databases /\ job[c].keys \in SUBSET Keys /\ job[c].id \in Writes
      /\ [present EXCEPT ![job[c].db] = @ \cup job[c].keys] \in [Databases -> SUBSET Keys]
      /\ \A p \in {"idle", "push", "count"} :
           [pc EXCEPT ![c] = p] \in [Clients -> {"idle", "set", "lookup", "push", "count", "save"}]
  BY DEF TypeOK
<1>7. CASE Set(c)
  <2>1. content' \in [Databases -> [Keys -> SUBSET Writes]]
    BY <1>7, WrittenMembers DEF Set
  <2> QED BY <1>6, <1>7, <2>1 DEF Set, TypeOK, saveVars, ghostVars
<1>8. CASE GetOrCreate(c)
  BY <1>6, <1>8 DEF GetOrCreate, TypeOK, saveVars, ghostVars
<1>9. CASE GetList(c)
  BY <1>6, <1>9 DEF GetList, TypeOK, dataVars, saveVars, ghostVars
<1>10. CASE Push(c)
  <2>1. content' \in [Databases -> [Keys -> SUBSET Writes]]
    BY <1>10, WrittenMembers DEF Push
  <2> QED BY <1>6, <1>10, <2>1 DEF Push, TypeOK, saveVars, ghostVars
<1>11. CASE IncrementChanges(c)
  <2>1. /\ acked' \subseteq Writes /\ changes' \in Nat
        /\ job' \in [Clients -> [db : Databases, keys : SUBSET Keys, id : Writes]]
    BY <1>6, <1>11 DEF IncrementChanges, TypeOK
  <2> QED BY <1>6, <1>11, <2>1 DEF IncrementChanges, TypeOK, dataVars, saveVars
<1> QED BY <1>2, <1>3, <1>4, <1>5, <1>7, <1>8, <1>9, <1>10, <1>11 DEF Command, Writer

\* So do the steps of snapshotLoop, the clock and the call of Close.
LEMMA LoopTyped ==
  ASSUME TypeOK, LoopTick \/ LoopReset \/ LoopStops \/ Shutdown \/ Tick
  PROVE  TypeOK'
<1> USE SaverNames, SmallestValues
<1>1. ASSUME NEW s \in Savers, CallSave(s)
      PROVE  due' \in [Savers -> SUBSET Placed] /\ wants' \subseteq Savers
  BY <1>1 DEF CallSave, TypeOK, InMemory
<1>2. CASE LoopTick
  BY <1>1, <1>2 DEF LoopTick, TypeOK, dataVars, saveVars, ghostVars
<1>3. CASE Shutdown
  BY <1>1, <1>3 DEF Shutdown, TypeOK, dataVars, saveVars, ghostVars
<1>4. CASE LoopReset
  BY <1>4 DEF LoopReset, TypeOK, dataVars, saveVars, ghostVars
<1>5. CASE LoopStops
  BY <1>5 DEF LoopStops, TypeOK, dataVars, saveVars, ghostVars
<1>6. CASE Tick
  <2>1. age' \in 0 .. MaxAge
    BY <1>6 DEF Tick, TypeOK
  <2> QED BY <1>6, <2>1 DEF Tick, TypeOK, dataVars, saveVars, ghostVars
<1> QED BY <1>2, <1>3, <1>4, <1>5, <1>6

\* The next process starts in a typed state, whatever file of records it finds.
LEMMA RestartTyped ==
  ASSUME TypeOK, Restart, disk' \in Seq(Records), tmp' = << >>, UNCHANGED <<issued, ghostVars>>
  PROVE  TypeOK'
<1> USE SaverNames, SmallestValues
<1>1. content' \in [Databases -> [Keys -> SUBSET Writes]]
  BY LoadMembers DEF Restart
<1>2. present' \in [Databases -> SUBSET Keys]
  BY DEF Restart
<1>3. job' \in [Clients -> [db : Databases, keys : SUBSET Keys, id : Writes]]
  BY DEF Restart
<1>4. /\ pc' \in [Clients -> {"idle", "set", "lookup", "push", "count", "save"}]
      /\ due' \in [Savers -> SUBSET Placed]
  BY DEF Restart
<1>5. /\ loop' = "select" /\ stopping' = FALSE /\ wants' = {} /\ owner' = None
      /\ stage' = "next" /\ at' = 0 /\ left' = {} /\ changes' = 0 /\ age' = 0
  BY DEF Restart
<1>6. tmp' \in Seq(Records)
  OBVIOUS
<1> QED BY <1>1, <1>2, <1>3, <1>4, <1>5, <1>6 DEF TypeOK, ghostVars

\* And those of Save, a crash and a restart.
LEMMA SaveTyped ==
  ASSUME TypeOK, Crash \/ (\E s \in Savers : CreateTmp(s)) \/ Saving \/ Fail
  PROVE  TypeOK'
<1> USE SaverNames, SmallestValues
<1>1. ASSUME Leave(owner, TRUE) \/ Leave(owner, FALSE), owner # None,
             disk' \in Seq(Records), tmp' = << >>, UNCHANGED <<issued, ghostVars>>
      PROVE  TypeOK'
  <2>1. CASE owner = Closer
    BY <1>1, <2>1, RestartTyped DEF Leave
  <2>2. CASE owner # Closer
    <3>1. SaveReturns(owner, TRUE) \/ SaveReturns(owner, FALSE)
      BY <1>1, <2>2 DEF Leave
    <3>2. owner' = None /\ stage' = "next" /\ at' = 0 /\ left' = {}
      BY <1>1, <2>2 DEF Leave
    <3>3. /\ due' \in [Savers -> SUBSET Placed] /\ loop' \in {"select", "save", "reset", "stopped"}
          /\ pc' \in [Clients -> {"idle", "set", "lookup", "push", "count", "save"}]
      BY <1>1, <3>1 DEF SaveReturns, TypeOK
    <3>4. UNCHANGED <<content, present, job, stopping, wants, changes, age>>
      BY <3>1 DEF SaveReturns, dataVars
    <3>5. tmp' \in Seq(Records)
      BY <1>1
    <3> QED BY <1>1, <3>2, <3>3, <3>4, <3>5 DEF TypeOK, ghostVars
  <2> QED BY <2>1, <2>2
<1>2. CASE Crash
  BY <1>2, RestartTyped DEF Crash, TypeOK
<1>3. CASE \E s \in Savers : CreateTmp(s)
  <2>1. tmp' \in Seq(Records)
    BY <1>3, LoadedNothing DEF CreateTmp
  <2> QED BY <1>3, <2>1 DEF CreateTmp, TypeOK, dataVars, ghostVars
<1>4. ASSUME InSave, tmp' \in Seq(Records), stage' \in {"next", "keys", "rename"},
             at' \in 0 .. NumDatabases, stage' = "keys" => at' < NumDatabases, left' \subseteq Keys
      PROVE  TypeOK'
  BY <1>4 DEF TypeOK, InSave, dataVars, ghostVars
<1>5. \A r \in Records : Append(tmp, r) \in Seq(Records)
  BY DEF TypeOK
<1>6. CASE OpenDatabase
  <2>1. at \in Databases /\ present[at] \subseteq Keys /\ at + 1 \in 0 .. NumDatabases
    BY <1>6 DEF OpenDatabase, TypeOK
  <2>2. [op |-> "selectdb", db |-> at] \in Records
    BY <2>1, SaveRecords
  <2> QED BY <1>4, <1>5, <1>6, <2>1, <2>2 DEF OpenDatabase, TypeOK
<1>7. CASE WriteKey
  <2>1. PICK k \in left :
          /\ left' = left \ {k}
          /\ tmp' = IF content[at][k] = {} THEN tmp
                     ELSE Append(tmp, [op |-> "key", key |-> k, val |-> content[at][k]])
    BY <1>7 DEF WriteKey
  <2>2. at \in Databases /\ k \in Keys /\ content[at][k] \in SUBSET Writes
    BY <1>7, <2>1 DEF WriteKey, TypeOK
  <2>3. [op |-> "key", key |-> k, val |-> content[at][k]] \in Records
    BY <2>2, SaveRecords
  <2>4. tmp' \in Seq(Records)
    BY <1>5, <2>1, <2>3 DEF TypeOK
  <2> QED BY <1>4, <1>7, <2>1, <2>4 DEF WriteKey, TypeOK
<1>8. CASE CloseDatabase
  <2>1. at + 1 \in 0 .. NumDatabases
    BY <1>8 DEF CloseDatabase, TypeOK
  <2> QED BY <1>4, <1>8, <2>1 DEF CloseDatabase, TypeOK
<1>9. CASE Finish
  BY <1>4, <1>5, <1>9, SaveRecords DEF Finish, TypeOK
<1>10. CASE Rename
  BY <1>1, <1>10 DEF Rename, TypeOK, ghostVars
<1>11. CASE Fail
  BY <1>1, <1>11 DEF Fail, SaveFails, TypeOK
<1> QED BY <1>2, <1>3, <1>6, <1>7, <1>8, <1>9, <1>10, <1>11 DEF Saving

-----------------------------------------------------------------------------
(* The steps of the writers.                                               *)

\* What depends on the memory, the files and the walk alone.
WalkInv == DiskIsWhole /\ TmpShape /\ WalkedIsWritten /\ WritesAreWhole

\* A step that leaves all of these as they are.
LEMMA WalkFrame ==
  ASSUME WalkInv, UNCHANGED <<content, owner, saveVars, disk, acked>>
  PROVE  /\ WalkInv' /\ InMemory' = InMemory /\ OnDisk' = OnDisk /\ OnTmp' = OnTmp
<1>1. InMemory' = InMemory /\ OnDisk' = OnDisk /\ OnTmp' = OnTmp
  BY DEF InMemory, OnDisk, OnTmp, saveVars
<1>2. UNCHANGED <<owner, stage, at, left, tmp, disk, acked>>
  BY DEF saveVars
<1>3. DiskIsWhole' /\ TmpShape'
  BY <1>2 DEF WalkInv, DiskIsWhole, TmpShape
<1>4. WalkedIsWritten'
  BY <1>1, <1>2 DEF WalkInv, WalkedIsWritten, Walked
<1>5. WritesAreWhole'
  BY <1>1, <1>2 DEF WalkInv, WritesAreWhole, Walked
<1> QED BY <1>1, <1>3, <1>4, <1>5 DEF WalkInv

\* A write is issued: its number is new.
LEMMA IssueKeeps ==
  ASSUME RdbInv, TypeOK', NEW c \in Clients, NEW ks, NEW step, Issue(c, ks, step),
         \/ step = "set" /\ ks \subseteq Strings
         \/ step = "lookup" /\ \E k \in Containers : ks = {k}
  PROVE  RdbInv'
<1> DEFINE n == issued + 1
<1>1. /\ pc[c] = "idle" /\ issued' = n /\ n \in Writes /\ issued \in Nat
      /\ before' = [before EXCEPT ![n] = acked]
      /\ pc' = [pc EXCEPT ![c] = step]
      /\ UNCHANGED <<content, present, loop, stopping, wants, owner, saveVars, disk, acked, due>>
  BY DEF Issue, dataVars, RdbInv, TypeOK, Writes
<1>2. PICK d \in Databases : job' = [job EXCEPT ![c] = [db |-> d, keys |-> ks, id |-> n]]
  BY DEF Issue
<1>3. /\ \A b \in Clients : pc'[b] = IF b = c THEN step ELSE pc[b]
      /\ \A b \in Clients : b # c => job'[b] = job[b]
      /\ job'[c].keys = ks /\ job'[c].id = n
      /\ \A w \in Writes : before'[w] = IF w = n THEN acked ELSE before[w]
  BY <1>1, <1>2 DEF RdbInv, TypeOK
<1>4. WalkInv' /\ InMemory' = InMemory /\ OnDisk' = OnDisk /\ OnTmp' = OnTmp
  BY <1>1, WalkFrame DEF RdbInv, WalkInv
<1> HIDE DEF n
<1>5. KeysArePresent'
  BY <1>1, <1>3, <1>4 DEF RdbInv, KeysArePresent
<1>6. WritesAreNew'
  <2>1. n \in 1 .. n /\ n \notin 0 .. issued /\ 0 .. issued \subseteq 0 .. n /\ 1 .. issued \subseteq 1 .. n
    BY <1>1 DEF n
  <2>2. acked' \subseteq 0 .. issued' /\ 0 \in acked' /\ \A q \in InMemory' : q[3] \in 0 .. issued'
    BY <1>1, <1>4, <2>1 DEF RdbInv, WritesAreNew
  <2>3. \A b \in Clients : Pending(b)' =>
          IF b = c THEN job'[b].id = n ELSE Pending(b) /\ job'[b] = job[b] /\ job[b].id # n
    BY <1>3, <2>1 DEF RdbInv, WritesAreNew, Pending
  <2>4. \A b \in Clients : Pending(b)' => job'[b].id \in (1 .. issued') \ acked'
    BY <1>1, <2>1, <2>3 DEF RdbInv, WritesAreNew
  <2>5. \A a, b \in Clients : Pending(a)' /\ Pending(b)' /\ job'[a].id = job'[b].id => a = b
    BY <2>3 DEF RdbInv, WritesAreNew
  <2>6. \A b \in Clients : pc'[b] \in {"set", "lookup", "push"} =>
          \A q \in InMemory' : q[3] # job'[b].id
    <3> TAKE b \in Clients
    <3>1. CASE b = c
      BY <1>3, <1>4, <2>1, <3>1 DEF RdbInv, WritesAreNew
    <3>2. CASE b # c
      BY <1>3, <1>4, <3>2 DEF RdbInv, WritesAreNew
    <3> QED BY <3>1, <3>2
  <2> QED BY <2>2, <2>4, <2>5, <2>6 DEF WritesAreNew
<1>7. WritesAreLocal'
  BY <1>3, <1>4 DEF RdbInv, WritesAreLocal
<1>8. CallersWait'
  BY <1>1, <1>3, SaverNames DEF RdbInv, CallersWait
<1>9. FilesFollowMemory' /\ BeforeIsAcked'
  BY <1>1, <1>3, <1>4 DEF RdbInv, FilesFollowMemory, BeforeIsAcked
<1>10. SnapshotIsCut'
  <2>1. \A p \in OnDisk : p[3] \in Writes /\ p[3] # n
    <3>1. \A q \in InMemory : q[3] \in Writes /\ q[3] \in 0 .. issued
      BY MemoryMembers DEF RdbInv, WritesAreNew
    <3> QED BY <1>1, <3>1 DEF RdbInv, FilesFollowMemory, n
  <2> QED BY <1>3, <1>4, <2>1 DEF RdbInv, SnapshotIsCut
<1> QED BY <1>4, <1>5, <1>6, <1>7, <1>8, <1>9, <1>10 DEF RdbInv, WalkInv

\* A write takes effect.  Its number is in no file and it is not answered, so no
\* save has to have it; and it is not a string of the database that is walked.
LEMMA WriteKeeps ==
  ASSUME RdbInv, TypeOK', NEW c \in Clients, Set(c) \/ Push(c)
  PROVE  RdbInv'
<1> DEFINE j == job[c]
           new == {j.db} \X j.keys \X {j.id}
<1>1. /\ pc[c] \in {"set", "push"} /\ content' = Written(c)
      /\ pc' = [pc EXCEPT ![c] = "count"]
      /\ UNCHANGED <<job, loop, stopping, wants, owner, saveVars, disk, issued, ghostVars, due>>
      /\ \/ pc[c] = "set" /\ ~ReadLocked(j.db)
            /\ present' = [present EXCEPT ![j.db] = @ \cup j.keys]
         \/ pc[c] = "push" /\ present' = present
  BY DEF Set, Push
<1>2. /\ UNCHANGED <<job, loop, stopping, wants, owner, stage, at, left, tmp, disk, issued,
                     acked, before, due>>
      /\ OnDisk' = OnDisk /\ OnTmp' = OnTmp
      /\ \A b \in Clients : pc'[b] = IF b = c THEN "count" ELSE pc[b]
  BY <1>1 DEF saveVars, ghostVars, OnDisk, OnTmp, RdbInv, TypeOK
<1>3. j.db \in Databases /\ j.keys \in SUBSET Keys /\ j.id \in Writes
  BY DEF RdbInv, TypeOK
<1>4. InMemory' = InMemory \cup new
  BY <1>1, WrittenMembers DEF RdbInv
<1>5. /\ \A q \in new : q[1] = j.db /\ q[2] \in j.keys /\ q[3] = j.id
      /\ \A q \in InMemory : q[3] # j.id
      /\ j.id \notin acked /\ j.id \in 1 .. issued /\ Pending(c)
  BY <1>1 DEF RdbInv, WritesAreNew, Pending
<1>6. /\ pc[c] = "set" => j.keys \subseteq Strings
      /\ pc[c] = "push" => \E k \in Containers : j.keys = {k}
  BY DEF RdbInv, WritesAreLocal
<1>7. Strings \cap Containers = {} /\ 0 \notin 1 .. issued
  BY RdbAssumption
<1>8. OnDisk \subseteq InMemory /\ OnTmp \subseteq InMemory
  BY DEF RdbInv, FilesFollowMemory
<1> HIDE DEF j, new
<1>9. KeysArePresent'
  <2>1. \A d \in Databases : present[d] \subseteq present'[d]
    <3>1. present \in [Databases -> SUBSET Keys]
      BY DEF RdbInv, TypeOK
    <3>2. CASE present' = present
      BY <3>2
    <3>3. CASE present' = [present EXCEPT ![j.db] = @ \cup j.keys]
      BY <1>3, <3>1, <3>3
    <3> QED BY <1>1, <3>2, <3>3
  <2>2. j.keys \subseteq present'[j.db]
    BY <1>1, <1>3 DEF RdbInv, TypeOK, KeysArePresent, j
  <2>3. \A q \in InMemory : q[1] \in Databases
    BY MemoryMembers DEF RdbInv
  <2>4. \A q \in InMemory' : q[2] \in present'[q[1]]
    BY <1>4, <1>5, <2>1, <2>2, <2>3 DEF RdbInv, KeysArePresent
  <2>5. \A b \in Clients : pc'[b] = "push" => job'[b].keys \subseteq present'[job'[b].db]
    BY <1>2, <2>1 DEF RdbInv, KeysArePresent, TypeOK
  <2> QED BY <2>4, <2>5 DEF KeysArePresent
<1>10. WritesAreNew'
  <2>1. \A b \in Clients : Pending(b)' <=> Pending(b)
    BY <1>1, <1>2, <1>5 DEF Pending
  <2>2. \A q \in InMemory' : q[3] \in 0 .. issued'
    <3>1. 1 .. issued \subseteq 0 .. issued
      BY DEF RdbInv, TypeOK
    <3> QED BY <1>2, <1>4, <1>5, <3>1 DEF RdbInv, WritesAreNew
  <2>3. \A b \in Clients : pc'[b] \in {"set", "lookup", "push"} =>
          \A q \in InMemory' : q[3] # job'[b].id
    <3> SUFFICES ASSUME NEW b \in Clients, pc'[b] \in {"set", "lookup", "push"}, NEW q \in InMemory'
                 PROVE  q[3] # job[b].id
      BY <1>2
    <3>1. b # c /\ pc[b] \in {"set", "lookup", "push"} /\ Pending(b)
      BY <1>2 DEF Pending
    <3>2. job[b].id # j.id
      BY <1>5, <3>1 DEF RdbInv, WritesAreNew, j
    <3> QED BY <1>4, <1>5, <3>1, <3>2 DEF RdbInv, WritesAreNew
  <2> QED BY <1>2, <2>1, <2>2, <2>3 DEF RdbInv, WritesAreNew
<1>11. WritesAreLocal'
  <2>1. \A b \in Clients :
          /\ pc'[b] = "set" => job'[b].keys \subseteq Strings
          /\ pc'[b] \in {"lookup", "push"} => \E k \in Containers : job'[b].keys = {k}
    BY <1>2 DEF RdbInv, WritesAreLocal
  <2>2. ASSUME NEW p \in InMemory', NEW q \in InMemory', p[3] = q[3]
        PROVE  /\ p[1] = q[1]
               /\ p[2] = q[2] \/ p[3] = 0 \/ {p[2], q[2]} \subseteq Strings
    <3>1. CASE p \in InMemory /\ q \in InMemory
      BY <2>2, <3>1 DEF RdbInv, WritesAreLocal
    <3>2. CASE p \in new /\ q \in new
      BY <1>1, <1>5, <1>6, <3>2
    <3> QED BY <1>4, <1>5, <2>2, <3>1, <3>2
  <2> QED BY <2>1, <2>2 DEF WritesAreLocal
<1>12. CallersWait'
  BY <1>1, <1>2 DEF RdbInv, CallersWait
<1>13. TmpShape' /\ DiskIsWhole' /\ BeforeIsAcked'
  BY <1>2 DEF RdbInv, TmpShape, DiskIsWhole, BeforeIsAcked
<1>14. FilesFollowMemory'
  BY <1>2, <1>4 DEF RdbInv, FilesFollowMemory
<1>15. WalkedIsWritten'
  <2> SUFFICES ASSUME owner # None, NEW q \in InMemory', Walked(q),
                      \/ q[3] \in acked
                      \/ q \in OnDisk
                      \/ q[1] = at /\ stage = "keys" /\ q[2] \in Strings
               PROVE  q \in OnTmp
    BY <1>2 DEF WalkedIsWritten, Walked
  <2>1. CASE q \in InMemory
    BY <2>1 DEF RdbInv, WalkedIsWritten
  <2>2. CASE q \in new
    <3>1. q \notin OnDisk /\ q[3] \notin acked
      BY <1>5, <1>8, <2>2
    <3>2. j.db = at /\ stage = "keys" /\ q[2] \in Strings /\ q[2] \in j.keys
      BY <1>5, <2>2, <3>1
    <3>3. pc[c] = "set"
      BY <1>1, <1>6, <1>7, <3>2
    <3> QED BY <1>1, <3>2, <3>3 DEF ReadLocked
  <2> QED BY <1>4, <2>1, <2>2
<1>16. WritesAreWhole'
  <2> SUFFICES ASSUME owner # None, NEW p \in OnTmp, NEW q \in InMemory', p[3] = q[3], Walked(q)
               PROVE  q \in OnTmp
    BY <1>2 DEF WritesAreWhole, Walked
  <2>1. q \in InMemory
    BY <1>4, <1>5, <1>8
  <2> QED BY <2>1 DEF RdbInv, WritesAreWhole
<1>17. SnapshotIsCut'
  <2> SUFFICES ASSUME NEW q \in InMemory' \ OnDisk, NEW p \in OnDisk
               PROVE  q[3] \notin before[p[3]] \cup {p[3]}
    BY <1>2 DEF SnapshotIsCut
  <2>1. CASE q \in InMemory
    BY <2>1 DEF RdbInv, SnapshotIsCut
  <2>2. CASE q \in new
    <3>1. p[3] \in Writes
      BY <1>8, MemoryMembers DEF RdbInv
    <3> QED BY <1>5, <1>8, <2>2, <3>1 DEF RdbInv, BeforeIsAcked
  <2> QED BY <1>4, <2>1, <2>2
<1> QED BY <1>9, <1>10, <1>11, <1>12, <1>13, <1>14, <1>15, <1>16, <1>17 DEF RdbInv

\* A command finds or creates its container.
LEMMA LookupKeeps ==
  ASSUME RdbInv, TypeOK', NEW c \in Clients, GetOrCreate(c) \/ GetList(c)
  PROVE  RdbInv'
<1>1. /\ pc[c] = "lookup" /\ pc' = [pc EXCEPT ![c] = "push"]
      /\ UNCHANGED <<content, job, loop, stopping, wants, owner, saveVars, disk, issued, acked,
                     before, due>>
      /\ \/ present' = [present EXCEPT ![job[c].db] = @ \cup job[c].keys]
         \/ (present' = present /\ job[c].keys \subseteq present[job[c].db])
  BY DEF GetOrCreate, GetList, dataVars, ghostVars
<1>2. /\ present \in [Databases -> SUBSET Keys] /\ job[c].db \in Databases
      /\ \A b \in Clients : pc'[b] = IF b = c THEN "push" ELSE pc[b]
  BY <1>1 DEF RdbInv, TypeOK
<1>3. /\ \A d \in Databases : present[d] \subseteq present'[d]
      /\ job[c].keys \subseteq present'[job[c].db]
  <2>1. CASE present' = [present EXCEPT ![job[c].db] = @ \cup job[c].keys]
    BY <1>2, <2>1
  <2>2. CASE present' = present /\ job[c].keys \subseteq present[job[c].db]
    BY <2>2
  <2> QED BY <1>1, <2>1, <2>2
<1>4. WalkInv' /\ InMemory' = InMemory /\ OnDisk' = OnDisk /\ OnTmp' = OnTmp
  BY <1>1, WalkFrame DEF RdbInv, WalkInv
<1>5. \A b \in Clients : Pending(b)' <=> Pending(b)
  BY <1>1, <1>2 DEF Pending
<1>6. KeysArePresent'
  <2>1. \A q \in InMemory : q[1] \in Databases
    BY MemoryMembers DEF RdbInv
  <2>2. \A b \in Clients : job[b].db \in Databases
    BY DEF RdbInv, TypeOK
  <2> QED BY <1>1, <1>2, <1>3, <1>4, <2>1, <2>2 DEF RdbInv, KeysArePresent
<1>7. WritesAreNew' /\ WritesAreLocal'
  BY <1>1, <1>2, <1>4, <1>5 DEF RdbInv, WritesAreNew, WritesAreLocal
<1>8. CallersWait'
  BY <1>1, <1>2 DEF RdbInv, CallersWait
<1>9. FilesFollowMemory' /\ BeforeIsAcked' /\ SnapshotIsCut'
  BY <1>1, <1>4 DEF RdbInv, FilesFollowMemory, BeforeIsAcked, SnapshotIsCut
<1> QED BY <1>4, <1>6, <1>7, <1>8, <1>9 DEF RdbInv, WalkInv

\* A write is answered, while nobody holds r.mu.
LEMMA CountKeeps ==
  ASSUME RdbInv, TypeOK', NEW c \in Clients, IncrementChanges(c)
  PROVE  RdbInv'
<1>1. /\ pc[c] = "count" /\ owner = None /\ acked' = acked \cup {job[c].id}
      /\ pc' = [pc EXCEPT ![c] = "idle"] /\ job' = [job EXCEPT ![c] = NoJob]
      /\ UNCHANGED <<content, present, loop, stopping, wants, owner, stage, at, left, tmp, disk,
                     issued, before, due>>
  BY DEF IncrementChanges, dataVars, saveVars
<1>2. /\ InMemory' = InMemory /\ OnDisk' = OnDisk /\ OnTmp' = OnTmp
      /\ \A b \in Clients : pc'[b] = IF b = c THEN "idle" ELSE pc[b]
      /\ \A b \in Clients : b # c => job'[b] = job[b]
  BY <1>1 DEF InMemory, OnDisk, OnTmp, RdbInv, TypeOK
<1>3. Pending(c) /\ job[c].id \in 1 .. issued /\ 1 .. issued \subseteq 0 .. issued
  BY <1>1 DEF RdbInv, WritesAreNew, Pending, TypeOK
<1>4. \A b \in Clients : Pending(b)' => b # c /\ Pending(b)
  BY <1>2 DEF Pending
<1>5. KeysArePresent' /\ WritesAreLocal' /\ CallersWait'
  BY <1>1, <1>2 DEF RdbInv, KeysArePresent, WritesAreLocal, CallersWait
<1>6. WritesAreNew'
  <2>1. /\ 0 \in acked' /\ acked' \subseteq 0 .. issued'
        /\ \A q \in InMemory' : q[3] \in 0 .. issued'
    BY <1>1, <1>2, <1>3 DEF RdbInv, WritesAreNew
  <2>2. \A b \in Clients : Pending(b)' =>
          job'[b] = job[b] /\ job'[b].id \in (1 .. issued') \ acked'
    BY <1>1, <1>2, <1>3, <1>4 DEF RdbInv, WritesAreNew
  <2>3. \A a, b \in Clients : Pending(a)' /\ Pending(b)' /\ job'[a].id = job'[b].id => a = b
    BY <1>4, <2>2 DEF RdbInv, WritesAreNew
  <2>4. \A b \in Clients : pc'[b] \in {"set", "lookup", "push"} =>
          \A q \in InMemory' : q[3] # job'[b].id
    BY <1>2 DEF RdbInv, WritesAreNew
  <2> QED BY <2>1, <2>2, <2>3, <2>4 DEF WritesAreNew
<1>7. DiskIsWhole' /\ TmpShape' /\ FilesFollowMemory' /\ BeforeIsAcked' /\ SnapshotIsCut'
  BY <1>1, <1>2 DEF RdbInv, DiskIsWhole, TmpShape, FilesFollowMemory, BeforeIsAcked, SnapshotIsCut
<1>8. WalkedIsWritten' /\ WritesAreWhole'
  BY <1>1 DEF WalkedIsWritten, WritesAreWhole
<1> QED BY <1>5, <1>6, <1>7, <1>8 DEF RdbInv

-----------------------------------------------------------------------------
(* Calls of Save, and the clock.                                           *)

\* Somebody who neither waits for r.mu nor holds it calls Save.
LEMMA CallKeeps ==
  ASSUME RdbInv, TypeOK', NEW s \in Savers, CallSave(s), s \notin wants \cup {owner},
         UNCHANGED <<content, present, job, owner, saveVars, disk, issued, acked, before>>,
         s \in Clients => pc[s] = "idle" /\ pc' = [pc EXCEPT ![s] = "save"],
         s \notin Clients => pc' = pc,
         IF s = Loop THEN loop' = "save" ELSE loop' = loop,
         IF s = Closer THEN stopping' = TRUE ELSE stopping' = stopping
  PROVE  RdbInv'
<1>1. /\ wants' = wants \cup {s}
      /\ due' = [due EXCEPT ![s] = {p \in InMemory : p[3] \in acked}]
      /\ \A b \in Clients : pc'[b] = IF b = s THEN "save" ELSE pc[b]
  BY DEF CallSave, RdbInv, TypeOK
<1>2. WalkInv' /\ InMemory' = InMemory /\ OnDisk' = OnDisk /\ OnTmp' = OnTmp
  BY WalkFrame DEF RdbInv, WalkInv
<1>3. \A b \in Clients : Pending(b)' <=> Pending(b)
  BY <1>1 DEF Pending
<1>4. KeysArePresent' /\ WritesAreLocal' /\ WritesAreNew'
  <2>1. \A b \in Clients : pc'[b] \in {"set", "lookup", "push"} => pc'[b] = pc[b]
    BY <1>1
  <2> QED BY <1>2, <1>3, <2>1 DEF RdbInv, KeysArePresent, WritesAreLocal, WritesAreNew
<1>5. CallersWait'
  BY <1>1, SaverNames DEF RdbInv, CallersWait
<1>6. FilesFollowMemory'
  <2>1. \A t \in Savers : due'[t] = IF t = s THEN {p \in InMemory : p[3] \in acked} ELSE due[t]
    BY <1>1 DEF RdbInv, TypeOK
  <2> QED BY <1>2, <2>1 DEF RdbInv, FilesFollowMemory
<1>7. BeforeIsAcked' /\ SnapshotIsCut'
  BY <1>2 DEF RdbInv, BeforeIsAcked, SnapshotIsCut
<1> QED BY <1>2, <1>4, <1>5, <1>6, <1>7 DEF RdbInv, WalkInv

\* SAVE, BGSAVE, a tick of snapshotLoop that is due, and Close.
LEMMA CallsKeep ==
  ASSUME RdbInv, TypeOK',
         \/ \E c \in Clients : IssueSave(c) \/ IssueBgsave(c)
         \/ LoopTick
         \/ Shutdown
  PROVE  RdbInv'
<1> USE SaverNames
<1>1. \A s \in Savers : s \in wants \cup {owner} =>
        /\ s \in Clients => pc[s] = "save"
        /\ s = Loop => loop = "save"
        /\ s = Closer => stopping
  BY DEF RdbInv, CallersWait
<1>2. ASSUME NEW c \in Clients, IssueSave(c) PROVE RdbInv'
  <2>1. c \notin wants \cup {owner}
    BY <1>1, <1>2 DEF IssueSave
  <2> QED BY <1>2, <2>1, CallKeeps DEF IssueSave, dataVars, ghostVars
<1>3. ASSUME NEW c \in Clients, IssueBgsave(c) PROVE RdbInv'
  <2>1. PICK b \in Background : b \notin wants \cup {owner} /\ CallSave(b)
    BY <1>3 DEF IssueBgsave
  <2>2. b \notin Clients
    OBVIOUS
  <2> QED BY <1>3, <2>1, <2>2, CallKeeps DEF IssueBgsave, dataVars, ghostVars
<1>4. CASE LoopTick
  <2>1. Loop \notin wants \cup {owner}
    BY <1>1, <1>4 DEF LoopTick
  <2> QED BY <1>4, <2>1, CallKeeps DEF LoopTick, dataVars, ghostVars
<1>5. CASE Shutdown
  <2>1. Closer \notin wants \cup {owner}
    BY <1>1, <1>5 DEF Shutdown
  <2> QED BY <1>5, <2>1, CallKeeps DEF Shutdown, dataVars, ghostVars
<1> QED BY <1>2, <1>3, <1>4, <1>5

\* The other steps of snapshotLoop, and the clock.
LEMMA ClockKeeps ==
  ASSUME RdbInv, TypeOK', LoopReset \/ LoopStops \/ Tick \/ UNCHANGED vars
  PROVE  RdbInv'
<1>1. /\ UNCHANGED <<content, present, pc, job, stopping, wants, owner, saveVars, disk, issued,
                     acked, before, due>>
      /\ loop' = loop \/ loop \in {"reset", "select"}
  BY DEF LoopReset, LoopStops, Tick, vars, dataVars, saveVars, ghostVars
<1>2. WalkInv' /\ InMemory' = InMemory /\ OnDisk' = OnDisk /\ OnTmp' = OnTmp
  BY <1>1, WalkFrame DEF RdbInv, WalkInv
<1>3. \A b \in Clients : Pending(b)' <=> Pending(b)
  BY <1>1 DEF Pending
<1>4. KeysArePresent' /\ WritesAreLocal' /\ WritesAreNew'
  BY <1>1, <1>2, <1>3 DEF RdbInv, KeysArePresent, WritesAreLocal, WritesAreNew
<1>5. CallersWait'
  BY <1>1 DEF RdbInv, CallersWait
<1>6. FilesFollowMemory' /\ BeforeIsAcked' /\ SnapshotIsCut'
  BY <1>1, <1>2 DEF RdbInv, FilesFollowMemory, BeforeIsAcked, SnapshotIsCut
<1> QED BY <1>2, <1>4, <1>5, <1>6 DEF RdbInv, WalkInv

-----------------------------------------------------------------------------
(* The steps of Save.                                                      *)

\* Save gets r.mu and creates the temporary file.
LEMMA CreateKeeps ==
  ASSUME RdbInv, TypeOK', NEW s \in Savers, CreateTmp(s)
  PROVE  RdbInv'
<1>1. /\ s \in wants /\ owner = None /\ wants' = wants \ {s} /\ owner' = s
      /\ tmp' = <<[op |-> "header"]>>
      /\ UNCHANGED <<content, present, pc, job, loop, stopping, stage, at, left, disk, issued,
                     acked, before, due>>
  BY DEF CreateTmp, dataVars, ghostVars
<1>2. InMemory' = InMemory /\ OnDisk' = OnDisk /\ OnTmp' = {}
  BY <1>1, LoadedNothing DEF InMemory, OnDisk, OnTmp
<1>3. stage = "next" /\ at = 0 /\ owner' # None
  BY <1>1, SaverNames DEF RdbInv, TmpShape
<1>4. \A b \in Clients : Pending(b)' <=> Pending(b)
  BY <1>1 DEF Pending
<1>5. KeysArePresent' /\ WritesAreLocal' /\ WritesAreNew' /\ DiskIsWhole'
  BY <1>1, <1>2, <1>4 DEF RdbInv, KeysArePresent, WritesAreLocal, WritesAreNew, DiskIsWhole
<1>6. CallersWait'
  BY <1>1 DEF RdbInv, CallersWait
<1>7. FilesFollowMemory' /\ BeforeIsAcked' /\ SnapshotIsCut'
  BY <1>1, <1>2 DEF RdbInv, FilesFollowMemory, BeforeIsAcked, SnapshotIsCut
<1>8. TmpShape'
  BY <1>1, <1>3 DEF TmpShape
<1>9. WalkedIsWritten' /\ WritesAreWhole'
  <2>1. \A q \in InMemory : q[1] \in Databases
    BY MemoryMembers DEF RdbInv
  <2>2. \A q \in InMemory' : ~Walked(q)'
    BY <1>1, <1>2, <1>3, <2>1 DEF Walked, Databases
  <2> QED BY <2>2 DEF WalkedIsWritten, WritesAreWhole
<1> QED BY <1>5, <1>6, <1>7, <1>8, <1>9 DEF RdbInv

\* A step of the walk changes the temporary file and how far the walk is.
LEMMA WalkStep ==
  ASSUME RdbInv, TypeOK', InSave, TmpShape', OnTmp' \subseteq InMemory,
         WalkedIsWritten', WritesAreWhole'
  PROVE  RdbInv'
<1>1. UNCHANGED <<content, present, pc, job, loop, stopping, wants, owner, disk, issued, acked,
                  before, due>>
  BY DEF InSave, dataVars, ghostVars
<1>2. InMemory' = InMemory /\ OnDisk' = OnDisk
  BY <1>1 DEF InMemory, OnDisk
<1>3. \A b \in Clients : Pending(b)' <=> Pending(b)
  BY <1>1 DEF Pending
<1>4. KeysArePresent' /\ WritesAreLocal' /\ WritesAreNew' /\ DiskIsWhole'
  BY <1>1, <1>2, <1>3 DEF RdbInv, KeysArePresent, WritesAreLocal, WritesAreNew, DiskIsWhole
<1>5. CallersWait'
  BY <1>1 DEF RdbInv, CallersWait
<1>6. FilesFollowMemory' /\ BeforeIsAcked' /\ SnapshotIsCut'
  BY <1>1, <1>2 DEF RdbInv, FilesFollowMemory, BeforeIsAcked, SnapshotIsCut
<1> QED BY <1>4, <1>5, <1>6 DEF RdbInv

\* A step that writes no values, and comes past none that is in memory.
LEMMA WalkWritesNothing ==
  ASSUME RdbInv, TypeOK', InSave, TmpShape', OnTmp' = OnTmp,
         \A q \in InMemory : Walked(q)' => Walked(q),
         \A q \in InMemory : ~(q[1] = at' /\ stage' = "keys" /\ q[2] \in Strings /\ Walked(q)')
                              \/ (at' = at /\ stage' = stage)
  PROVE  RdbInv'
<1>1. /\ UNCHANGED <<owner, acked>> /\ InMemory' = InMemory /\ OnDisk' = OnDisk
  BY DEF InSave, dataVars, ghostVars, InMemory, OnDisk
<1>2. OnTmp' \subseteq InMemory
  BY DEF RdbInv, FilesFollowMemory
<1>3. WalkedIsWritten'
  BY <1>1 DEF RdbInv, WalkedIsWritten
<1>4. WritesAreWhole'
  BY <1>1 DEF RdbInv, WritesAreWhole
<1> QED BY <1>2, <1>3, <1>4, WalkStep

\* The walk enters a database, leaves it, or is over.
LEMMA DatabaseKeeps ==
  ASSUME RdbInv, TypeOK', OpenDatabase \/ CloseDatabase \/ Finish
  PROVE  RdbInv'
<1>1. /\ owner # None /\ owner' = owner /\ InSave
      /\ tmp \in Seq(Records) /\ Len(tmp) >= 1 /\ tmp[1].op = "header"
      /\ at \in 0 .. NumDatabases /\ NumDatabases \in Nat
  BY RdbAssumption DEF OpenDatabase, CloseDatabase, Finish, InSave, RdbInv, TypeOK, TmpShape
<1>2. \A q \in InMemory : q[1] \in Databases /\ q[1] \in Nat /\ q[2] \in present[q[1]]
  BY MemoryMembers DEF RdbInv, KeysArePresent, Databases
<1>3. ASSUME NEW r \in Records, r.op # "key", tmp' = Append(tmp, r)
      PROVE  /\ OnTmp' = OnTmp /\ tmp' # << >> /\ tmp'[1].op = "header"
             /\ Len(tmp') = Len(tmp) + 1 /\ Len(tmp') >= 2 /\ tmp'[Len(tmp')] = r
             /\ r.op = "selectdb" => CurrentDB(tmp', Len(tmp')) = r.db
  <2>1. /\ Len(tmp') = Len(tmp) + 1 /\ tmp'[Len(tmp) + 1] = r /\ tmp'[1] = tmp[1] /\ tmp' # << >>
    BY <1>1, <1>3
  <2> QED BY <1>1, <1>3, <2>1, LoadedAppend DEF OnTmp
<1>4. CASE OpenDatabase
  <2>1. stage = "next" /\ at < NumDatabases /\ at \in Databases
    BY <1>1, <1>4 DEF OpenDatabase, Databases
  <2>2. CASE present[at] = {}
    <3>1. at' = at + 1 /\ UNCHANGED <<stage, left, tmp>>
      BY <1>4, <2>2 DEF OpenDatabase
    <3>2. TmpShape' /\ OnTmp' = OnTmp
      BY <1>1, <2>1, <3>1 DEF RdbInv, TmpShape, OnTmp
    <3>3. \A q \in InMemory : Walked(q)' => Walked(q)
      BY <1>1, <1>2, <2>1, <2>2, <3>1 DEF Walked
    <3> QED BY <1>1, <2>1, <3>1, <3>2, <3>3, WalkWritesNothing
  <2>3. CASE present[at] # {}
    <3>1. /\ stage' = "keys" /\ left' = present[at] /\ at' = at
          /\ tmp' = Append(tmp, [op |-> "selectdb", db |-> at])
      BY <1>4, <2>3 DEF OpenDatabase
    <3>2. [op |-> "selectdb", db |-> at] \in Records
      BY <2>1, SaveRecords
    <3>3. TmpShape' /\ OnTmp' = OnTmp
      BY <1>1, <1>3, <3>1, <3>2 DEF TmpShape
    <3>4. \A q \in InMemory : /\ Walked(q)' => Walked(q)
                             /\ ~(q[1] = at' /\ stage' = "keys" /\ q[2] \in Strings /\ Walked(q)')
      BY <1>1, <1>2, <2>1, <3>1 DEF Walked
    <3> QED BY <1>1, <3>3, <3>4, WalkWritesNothing
  <2> QED BY <2>2, <2>3
<1>5. CASE CloseDatabase
  <2>1. /\ stage = "keys" /\ left = {} /\ stage' = "next" /\ at' = at + 1
        /\ UNCHANGED <<left, tmp>>
    BY <1>5 DEF CloseDatabase
  <2>2. TmpShape' /\ OnTmp' = OnTmp
    BY <1>1, <2>1 DEF RdbInv, TmpShape, OnTmp
  <2>3. \A q \in InMemory : Walked(q)' => Walked(q)
    BY <1>1, <1>2, <2>1 DEF Walked
  <2> QED BY <1>1, <2>1, <2>2, <2>3, WalkWritesNothing
<1>6. CASE Finish
  <2>1. /\ stage = "next" /\ at = NumDatabases /\ stage' = "rename" /\ UNCHANGED <<at, left>>
        /\ tmp' = Append(tmp, [op |-> "eof"])
    BY <1>6 DEF Finish
  <2>2. TmpShape' /\ OnTmp' = OnTmp
    <3>1. [op |-> "eof"] \in Records
      BY SaveRecords
    <3> QED BY <1>1, <1>3, <2>1, <3>1 DEF TmpShape
  <2>3. \A q \in InMemory : Walked(q)' => Walked(q)
    BY <2>1 DEF Walked
  <2> QED BY <1>1, <2>1, <2>2, <2>3, WalkWritesNothing
<1> QED BY <1>4, <1>5, <1>6

\* The walk writes a key with all that is in its value now.
LEMMA WriteKeyKeeps ==
  ASSUME RdbInv, TypeOK', WriteKey
  PROVE  RdbInv'
<1>1. PICK k \in left :
        /\ left' = left \ {k}
        /\ tmp' = IF content[at][k] = {} THEN tmp
                   ELSE Append(tmp, [op |-> "key", key |-> k, val |-> content[at][k]])
  BY DEF WriteKey
<1>2. /\ owner # None /\ stage = "keys" /\ InSave
      /\ UNCHANGED <<owner, stage, at, acked>> /\ InMemory' = InMemory /\ OnDisk' = OnDisk
  BY DEF WriteKey, InSave, dataVars, ghostVars, InMemory, OnDisk
<1>3. /\ at \in Databases /\ k \in Keys /\ content[at][k] \in SUBSET Writes
      /\ tmp \in Seq(Records) /\ CurrentDB(tmp, Len(tmp)) = at
      /\ tmp # << >> /\ tmp[1].op = "header"
  BY <1>2, SmallestValues DEF RdbInv, TypeOK, TmpShape
<1>4. /\ \A q : q \in OnTmp' <=> q \in OnTmp \/ (q \in InMemory /\ q[1] = at /\ q[2] = k)
      /\ TmpShape'
  <2>0. \A q : q \in InMemory => q = <<q[1], q[2], q[3]>> /\ q[3] \in content[q[1]][q[2]]
    BY MemoryMembers DEF RdbInv, InMemory
  <2>1. CASE content[at][k] = {}
    <3>1. ~\E q \in InMemory : q[1] = at /\ q[2] = k
      BY <2>0, <2>1
    <3>2. tmp' = tmp /\ OnTmp' = OnTmp
      BY <1>1, <2>1 DEF OnTmp
    <3>3. TmpShape'
      BY <1>2, <3>2 DEF RdbInv, TmpShape
    <3> QED BY <3>1, <3>2, <3>3
  <2>2. CASE content[at][k] # {}
    <3> DEFINE r == [op |-> "key", key |-> k, val |-> content[at][k]]
    <3>1. r \in Records /\ r.op = "key" /\ r.key = k /\ r.val = content[at][k]
      BY <1>3, SaveRecords
    <3>2. tmp' = Append(tmp, r)
      BY <1>1, <2>2
    <3> HIDE DEF r
    <3>3. OnTmp' = OnTmp \cup {at} \X {k} \X content[at][k]
      BY <1>3, <3>1, <3>2, LoadedAppend DEF OnTmp
    <3>4. \A q : q \in {at} \X {k} \X content[at][k] <=> (q \in InMemory /\ q[1] = at /\ q[2] = k)
      <4>1. \A w : <<at, k, w>> \in InMemory <=> w \in content[at][k]
        BY <1>3, MemoryMembers DEF RdbInv
      <4> QED BY <2>0, <4>1
    <3>5. /\ Len(tmp') = Len(tmp) + 1 /\ tmp' # << >> /\ tmp'[1] = tmp[1]
      BY <1>3, <3>2
    <3>6. CurrentDB(tmp', Len(tmp')) = at
      BY <1>3, <3>1, <3>2, <3>5, LoadedAppend
    <3>7. TmpShape'
      BY <1>2, <1>3, <3>5, <3>6 DEF TmpShape
    <3> QED BY <3>3, <3>4, <3>7
  <2> QED BY <2>1, <2>2
<1>5. \A q \in InMemory : Walked(q)' <=> Walked(q) \/ (q[1] = at /\ q[2] = k)
  BY <1>1, <1>2 DEF Walked
<1>6. WalkedIsWritten'
  BY <1>2, <1>4, <1>5 DEF RdbInv, WalkedIsWritten
<1>7. WritesAreWhole'
  <2> SUFFICES ASSUME NEW p \in OnTmp', NEW q \in InMemory, p[3] = q[3], Walked(q), q \notin OnTmp
               PROVE  q \in OnTmp'
    BY <1>2, <1>4, <1>5 DEF WritesAreWhole
  <2>1. CASE p \in OnTmp
    BY <1>2, <2>1 DEF RdbInv, WritesAreWhole
  <2>2. CASE p \in InMemory /\ p[1] = at /\ p[2] = k
    <3>1. q[1] = at /\ (q[2] = k \/ p[3] = 0 \/ q[2] \in Strings)
      BY <2>2 DEF RdbInv, WritesAreLocal
    <3>2. 0 \in acked
      BY DEF RdbInv, WritesAreNew
    <3>3. CASE q[3] = 0 \/ q[2] \in Strings
      BY <1>2, <3>1, <3>2, <3>3 DEF RdbInv, WalkedIsWritten
    <3> QED BY <1>4, <3>1, <3>3
  <2> QED BY <1>4, <2>1, <2>2
<1>8. OnTmp' \subseteq InMemory
  BY <1>4 DEF RdbInv, FilesFollowMemory
<1> QED BY <1>2, <1>4, <1>6, <1>7, <1>8, WalkStep

-----------------------------------------------------------------------------
(* The end of a save, and of a process.                                    *)

\* A temporary file that is ready to be renamed has all it has to have.
LEMMA SaveIsComplete ==
  ASSUME RdbInv, owner # None, stage = "rename"
  PROVE  /\ OnDisk \subseteq OnTmp /\ due[owner] \subseteq OnTmp /\ OnTmp \subseteq InMemory
         /\ Whole(tmp)
         /\ \A q \in InMemory \ OnTmp : \A p \in OnTmp : q[3] \notin before[p[3]] \cup {p[3]}
<1>1. Whole(tmp)
  BY DEF RdbInv, TmpShape, Whole
<1>2. OnDisk \subseteq InMemory /\ OnTmp \subseteq InMemory
  BY DEF RdbInv, FilesFollowMemory
<1>3. \A q \in InMemory : Walked(q) /\ q[3] \in Writes
  <2>1. at = NumDatabases /\ NumDatabases \in Nat
    BY RdbAssumption DEF RdbInv, TmpShape
  <2>2. \A q \in InMemory : q[1] \in Databases /\ q[3] \in Writes
    BY MemoryMembers DEF RdbInv
  <2> QED BY <2>1, <2>2 DEF Walked, Databases
<1>4. \A q \in InMemory : q[3] \in acked \/ q \in OnDisk => q \in OnTmp
  BY <1>3 DEF RdbInv, WalkedIsWritten
<1>5. \A q \in due[owner] : q \in InMemory /\ q[3] \in acked
  BY DEF RdbInv, FilesFollowMemory, TypeOK
<1>6. ASSUME NEW q \in InMemory \ OnTmp, NEW p \in OnTmp
      PROVE  q[3] \notin before[p[3]] \cup {p[3]}
  <2>1. q[3] # p[3]
    BY <1>3, <1>6 DEF RdbInv, WritesAreWhole
  <2>2. before[p[3]] \subseteq acked
    BY <1>2, <1>3, <1>6 DEF RdbInv, BeforeIsAcked
  <2> QED BY <1>4, <1>6, <2>1, <2>2
<1> QED BY <1>1, <1>2, <1>4, <1>5, <1>6

\* Save returns to its caller, with the old file or the new one in place.
LEMMA ReturnKeeps ==
  ASSUME RdbInv, TypeOK', owner # None, owner # Closer,
         Leave(owner, TRUE) \/ Leave(owner, FALSE),
         tmp' = << >>, UNCHANGED <<issued, ghostVars>>,
         disk' = disk \/ (stage = "rename" /\ disk' = tmp)
  PROVE  RdbInv'
<1>1. /\ owner' = None /\ stage' = "next" /\ at' = 0 /\ left' = {}
      /\ SaveReturns(owner, TRUE) \/ SaveReturns(owner, FALSE)
  BY DEF Leave
<1>2. /\ due' = [due EXCEPT ![owner] = {}]
      /\ pc' = IF owner \in Clients THEN [pc EXCEPT ![owner] = "idle"] ELSE pc
      /\ owner # Loop => loop' = loop
      /\ UNCHANGED <<content, present, job, stopping, wants, issued, acked, before>>
  BY <1>1 DEF SaveReturns, dataVars, ghostVars
<1>3. /\ \A b \in Clients : pc'[b] = IF b = owner THEN "idle" ELSE pc[b]
      /\ \A t \in Savers : due'[t] \subseteq due[t]
  BY <1>2 DEF RdbInv, TypeOK
<1>4. InMemory' = InMemory /\ OnTmp' = {}
  BY <1>2, LoadedNothing DEF InMemory, OnTmp
<1>5. /\ OnDisk' \subseteq InMemory
      /\ disk' # << >> => Whole(disk')
      /\ \A q \in InMemory \ OnDisk' : \A p \in OnDisk' : q[3] \notin before[p[3]] \cup {p[3]}
  <2>1. CASE disk' = disk
    BY <2>1 DEF OnDisk, RdbInv, FilesFollowMemory, SnapshotIsCut, DiskIsWhole
  <2>2. CASE stage = "rename" /\ disk' = tmp
    <3>1. OnDisk' = OnTmp
      BY <2>2 DEF OnDisk, OnTmp
    <3> QED BY <2>2, <3>1, SaveIsComplete
  <2> QED BY <2>1, <2>2
<1>6. \A b \in Clients : Pending(b)' => Pending(b)
  BY <1>3 DEF Pending
<1>7. KeysArePresent' /\ WritesAreLocal' /\ WritesAreNew'
  <2>1. \A b \in Clients : pc'[b] \in {"set", "lookup", "push"} => pc'[b] = pc[b]
    BY <1>3
  <2> QED BY <1>2, <1>4, <1>6, <2>1 DEF RdbInv, KeysArePresent, WritesAreLocal, WritesAreNew
<1>8. CallersWait'
  <2>1. owner \notin wants /\ wants \subseteq Savers
    BY DEF RdbInv, CallersWait, TypeOK
  <2> QED BY <1>1, <1>2, <1>3, <2>1, SaverNames DEF RdbInv, CallersWait
<1>9. TmpShape' /\ WalkedIsWritten' /\ WritesAreWhole'
  BY <1>1 DEF TmpShape, WalkedIsWritten, WritesAreWhole
<1>10. FilesFollowMemory' /\ BeforeIsAcked' /\ SnapshotIsCut' /\ DiskIsWhole'
  BY <1>2, <1>3, <1>4, <1>5 DEF RdbInv, FilesFollowMemory, BeforeIsAcked, SnapshotIsCut, DiskIsWhole
<1> QED BY <1>7, <1>8, <1>9, <1>10 DEF RdbInv

\* The process ends, and the next one has in memory what is in the file.
LEMMA RestartKeeps ==
  ASSUME RdbInv, TypeOK', Restart, tmp' = << >>, UNCHANGED <<issued, ghostVars>>,
         disk' = disk \/ (owner # None /\ stage = "rename" /\ disk' = tmp)
  PROVE  RdbInv' /\ InMemory' = OnDisk'
<1>1. /\ OnDisk' \subseteq InMemory
      /\ disk' # << >> => Whole(disk')
      /\ disk' \in Seq(Records)
  <2>1. CASE disk' = disk
    BY <2>1 DEF OnDisk, RdbInv, FilesFollowMemory, DiskIsWhole, TypeOK
  <2>2. CASE owner # None /\ stage = "rename" /\ disk' = tmp
    <3>1. OnDisk' = OnTmp
      BY <2>2 DEF OnDisk, OnTmp
    <3> QED BY <2>2, <3>1, SaveIsComplete DEF RdbInv, TypeOK
  <2> QED BY <2>1, <2>2
<1>2. InMemory' = OnDisk' /\ OnTmp' = {}
  <2>1. content' = Load(disk')
    BY DEF Restart
  <2> QED BY <1>1, <2>1, LoadMembers, LoadedNothing DEF OnDisk, OnTmp
<1>3. /\ wants' = {} /\ owner' = None /\ stage' = "next" /\ at' = 0 /\ left' = {}
      /\ \A b \in Clients : pc'[b] = "idle"
      /\ \A t \in Savers : due'[t] = {}
      /\ UNCHANGED <<issued, acked, before>>
  BY DEF Restart, ghostVars
<1>4. KeysArePresent'
  <2>1. \A d \in Databases, k \in Keys : content'[d][k] # {} => k \in present'[d]
    BY DEF Restart
  <2>2. \A q \in InMemory' : q[1] \in Databases /\ q[2] \in Keys /\ q[3] \in content'[q[1]][q[2]]
    BY DEF InMemory, Placed
  <2> QED BY <1>3, <2>1, <2>2 DEF KeysArePresent
<1>5. WritesAreNew'
  BY <1>1, <1>2, <1>3 DEF RdbInv, WritesAreNew, Pending
<1>6. WritesAreLocal'
  BY <1>1, <1>2, <1>3 DEF RdbInv, WritesAreLocal
<1>7. CallersWait' /\ TmpShape' /\ WalkedIsWritten' /\ WritesAreWhole'
  BY <1>3, SaverNames DEF CallersWait, TmpShape, WalkedIsWritten, WritesAreWhole
<1>8. FilesFollowMemory' /\ BeforeIsAcked' /\ SnapshotIsCut' /\ DiskIsWhole'
  BY <1>1, <1>2, <1>3 DEF RdbInv, FilesFollowMemory, BeforeIsAcked, SnapshotIsCut, DiskIsWhole
<1> QED BY <1>2, <1>4, <1>5, <1>6, <1>7, <1>8 DEF RdbInv

\* A crash, a save that fails, and a save that succeeds.
LEMMA EndKeeps ==
  ASSUME RdbInv, TypeOK', Crash \/ Rename \/ Fail
  PROVE  RdbInv'
<1>1. CASE Crash
  BY <1>1, RestartKeeps DEF Crash
<1>2. CASE Rename
  <2>1. /\ owner # None /\ stage = "rename" /\ disk' = tmp /\ tmp' = << >> /\ Leave(owner, TRUE)
        /\ UNCHANGED <<issued, ghostVars>>
    BY <1>2 DEF Rename, ghostVars
  <2> QED BY <2>1, ReturnKeeps, RestartKeeps DEF Leave
<1>3. CASE Fail
  <2>1. /\ owner # None /\ disk' = disk /\ tmp' = << >> /\ Leave(owner, FALSE)
        /\ UNCHANGED <<issued, ghostVars>>
    BY <1>3 DEF Fail, SaveFails
  <2> QED BY <2>1, ReturnKeeps, RestartKeeps DEF Leave
<1> QED BY <1>1, <1>2, <1>3

-----------------------------------------------------------------------------
(* The theorems.                                                           *)

\* The invariant holds when the first process starts, with the file in memory.
LEMMA RdbInitially == Init => RdbInv /\ InMemory = OnDisk
<1> SUFFICES ASSUME Init PROVE RdbInv /\ InMemory = OnDisk
  OBVIOUS
<1> USE SaverNames, SmallestValues
<1>1. disk \in Seq(Records) /\ DiskIsWhole /\ OnDisk = {0} \X Stored \X {0}
  BY FirstFile DEF Init, DiskIsWhole, OnDisk
<1>2. /\ content \in [Databases -> [Keys -> SUBSET Writes]]
      /\ \A d \in Databases, k \in Keys : content[d][k] = IF d = 0 /\ k \in Stored THEN {0} ELSE {}
      /\ Stored \subseteq Keys
  BY RdbAssumption DEF Init, Keys
<1>3. TypeOK
  <2>1. /\ present \in [Databases -> SUBSET Keys]
        /\ pc \in [Clients -> {"idle", "set", "lookup", "push", "count", "save"}]
        /\ before \in [Writes -> SUBSET Writes] /\ due \in [Savers -> SUBSET Placed]
    BY <1>2 DEF Init
  <2>2. job \in [Clients -> [db : Databases, keys : SUBSET Keys, id : Writes]]
    BY DEF Init
  <2>3. /\ 0 \in 0 .. MaxWrites /\ tmp \in Seq(Records) /\ acked \subseteq Writes
    BY DEF Init
  <2>4. /\ loop \in {"select", "save", "reset", "stopped"} /\ stopping \in BOOLEAN
        /\ wants \subseteq Savers /\ owner \in Savers \cup {None}
        /\ stage \in {"next", "keys", "rename"} /\ at \in 0 .. NumDatabases
        /\ (stage = "keys" => at < NumDatabases) /\ left \subseteq Keys
        /\ changes \in Nat /\ age \in 0 .. MaxAge /\ issued \in 0 .. MaxWrites
    BY <2>3 DEF Init
  <2> QED BY <1>1, <1>2, <2>1, <2>2, <2>3, <2>4 DEF TypeOK
<1>4. InMemory = {0} \X Stored \X {0}
  <2>1. ASSUME NEW q \in InMemory PROVE q \in {0} \X Stored \X {0}
    BY <1>2, <2>1 DEF InMemory, Placed
  <2>2. ASSUME NEW q \in {0} \X Stored \X {0} PROVE q \in InMemory
    <3>1. q \in Placed /\ q[1] = 0 /\ q[2] \in Stored /\ q[3] = 0
      BY <1>2, <2>2 DEF Placed
    <3> QED BY <1>2, <3>1 DEF InMemory
  <2> QED BY <2>1, <2>2
<1>5. \A q \in InMemory : q[1] = 0 /\ q[2] \in Stored /\ q[3] = 0
  BY <1>4
<1>6. KeysArePresent /\ WritesAreNew /\ WritesAreLocal
  BY <1>5 DEF Init, KeysArePresent, WritesAreNew, WritesAreLocal, Pending
<1>7. CallersWait /\ TmpShape /\ WalkedIsWritten /\ WritesAreWhole
  BY DEF Init, CallersWait, TmpShape, WalkedIsWritten, WritesAreWhole
<1>8. FilesFollowMemory /\ BeforeIsAcked /\ SnapshotIsCut
  <2>1. OnTmp = {}
    BY LoadedNothing DEF Init, OnTmp
  <2> QED BY <1>1, <1>4, <2>1 DEF Init, FilesFollowMemory, BeforeIsAcked, SnapshotIsCut
<1> QED BY <1>1, <1>3, <1>4, <1>6, <1>7, <1>8 DEF RdbInv

\* Every step of a connection, of the snapshot loop, of Save and of the failures
\* keeps the invariant.
LEMMA RdbStep ==
  ASSUME RdbInv, [Next]_vars
  PROVE  RdbInv'
<1>1. TypeOK'
  <2>1. CASE UNCHANGED vars
    BY <2>1 DEF vars, dataVars, saveVars, ghostVars, RdbInv, TypeOK
  <2> QED BY <2>1, WriterTyped, LoopTyped, SaveTyped DEF Next, RdbInv
<1>2. ASSUME NEW c \in Clients, Command(c) PROVE RdbInv'
  <2>1. CASE IssueSet(c)
    BY <1>1, <2>1, IssueKeeps DEF IssueSet
  <2>2. CASE IssuePush(c)
    BY <1>1, <2>2, IssueKeeps DEF IssuePush
  <2> QED BY <1>1, <1>2, <2>1, <2>2, CallsKeep DEF Command
<1>3. ASSUME NEW c \in Clients, Writer(c) PROVE RdbInv'
  BY <1>1, <1>3, WriteKeeps, LookupKeeps, CountKeeps DEF Writer
<1>4. CASE LoopTick \/ Shutdown
  BY <1>1, <1>4, CallsKeep
<1>5. CASE LoopReset \/ LoopStops \/ Tick \/ UNCHANGED vars
  BY <1>1, <1>5, ClockKeeps
<1>6. CASE \E s \in Savers : CreateTmp(s)
  BY <1>1, <1>6, CreateKeeps
<1>7. CASE Saving
  BY <1>1, <1>7, DatabaseKeeps, WriteKeyKeeps, EndKeeps DEF Saving
<1>8. CASE Crash \/ Fail
  BY <1>1, <1>8, EndKeeps
<1> QED BY <1>2, <1>3, <1>4, <1>5, <1>6, <1>7, <1>8 DEF Next

\* The invariant holds in every reachable state.
LEMMA RdbInvariant == Spec => []RdbInv
<1>1. Init => RdbInv
  BY RdbInitially
<1>2. RdbInv /\ [Next]_vars => RdbInv'
  BY RdbStep
<1> QED BY <1>1, <1>2, PTL DEF Spec

\* For any number of connections, databases, keys and writes, the state of the
\* writers, of Save and of the files is well typed; in particular the walk of
\* Save never opens a database beyond the last.
THEOREM TypeCorrect == Spec => []TypeOK
  BY RdbInvariant, PTL DEF RdbInv

\* The snapshot file always loads, whenever a crash or an error comes: Save
\* renames a file only after it has written its header and its end (rdb.go
\* 163-229).
THEOREM FileAlwaysLoads == Spec => []DiskIsWhole
  BY RdbInvariant, PTL DEF RdbInv

\* The file is a consistent cut through all databases, although they are walked
\* one after the other while containers change: no write is answered while r.mu
\* is held (IncrementChanges), and a database's strings stand still while it is
\* walked.
THEOREM FileIsCut == Spec => []SnapshotIsCut
  BY RdbInvariant, PTL DEF RdbInv

-----------------------------------------------------------------------------
(* The refinement of DurableStore.                                         *)

\* A call of Save asks for what is in memory and answered.
LEMMA CallAsks ==
  ASSUME RdbInv, NEW s \in Savers, CallSave(s), UNCHANGED <<content, disk>>
  PROVE  Durable!Next
<1>1. InMemory' = InMemory /\ OnDisk' = OnDisk
  BY DEF InMemory, OnDisk
<1>2. due \in [Savers -> SUBSET Placed]
  BY DEF RdbInv, TypeOK
<1>3. due' = [due EXCEPT ![s] = {p \in InMemory : p[3] \in acked}]
  BY DEF CallSave
<1>4. due'[s] = {p \in InMemory : p[3] \in acked}
  BY <1>2, <1>3
<1>5. due' = [due EXCEPT ![s] = due'[s]] /\ due'[s] \subseteq InMemory
  BY <1>3, <1>4
<1>6. Durable!Ask(s)
  BY <1>1, <1>5 DEF Durable!Ask
<1> QED BY <1>6 DEF Durable!Next

\* A write that takes effect adds to what is in memory.
LEMMA WriteWrites ==
  ASSUME RdbInv, NEW c \in Clients, content' = Written(c), UNCHANGED <<disk, due>>
  PROVE  Durable!Next
<1>1. InMemory \subseteq InMemory' /\ OnDisk' = OnDisk
  BY WrittenMembers DEF RdbInv, OnDisk
<1>2. InMemory' \subseteq Placed
  BY DEF InMemory, Placed
<1>3. Durable!Write
  BY <1>1, <1>2 DEF Durable!Write
<1> QED BY <1>3 DEF Durable!Next

\* The next process starts on the old file, or on that of the final save.
LEMMA RestartRestarts ==
  ASSUME RdbInv, TypeOK', Restart, tmp' = << >>, UNCHANGED <<issued, ghostVars>>,
         disk' = disk \/ (owner # None /\ stage = "rename" /\ disk' = tmp)
  PROVE  Durable!Next
<1>1. InMemory' = OnDisk'
  BY RestartKeeps
<1>2. due' = [s \in Savers |-> {}]
  BY DEF Restart
<1>3. OnDisk' = OnDisk \/ \E s \in Savers : Durable!Copied(s)
  <2>1. CASE disk' = disk
    BY <2>1 DEF OnDisk
  <2>2. CASE owner # None /\ stage = "rename" /\ disk' = tmp
    <3>1. OnDisk' = OnTmp /\ owner \in Savers
      BY <2>2 DEF OnDisk, OnTmp, RdbInv, TypeOK
    <3>2. Durable!Copied(owner)
      BY <2>2, <3>1, SaveIsComplete DEF Durable!Copied
    <3> QED BY <3>1, <3>2
  <2> QED BY <2>1, <2>2
<1>4. Durable!Restart
  BY <1>1, <1>2, <1>3 DEF Durable!Restart, Durable!Nothing
<1> QED BY <1>4 DEF Durable!Next

\* A save that returns has failed, or has stored what its caller asked for.
LEMMA ReturnSaves ==
  ASSUME RdbInv, owner # None, owner # Closer,
         Leave(owner, TRUE) \/ Leave(owner, FALSE),
         disk' = disk \/ (stage = "rename" /\ disk' = tmp)
  PROVE  Durable!Next
<1>1. due' = [due EXCEPT ![owner] = {}] /\ content' = content
  BY DEF Leave, SaveReturns, dataVars
<1>2. InMemory' = InMemory /\ owner \in Savers
  BY <1>1 DEF InMemory, RdbInv, TypeOK
<1>3. CASE disk' = disk
  <2>1. OnDisk' = OnDisk
    BY <1>3 DEF OnDisk
  <2>2. Durable!Fail(owner)
    BY <1>1, <1>2, <2>1 DEF Durable!Fail
  <2> QED BY <1>2, <2>2 DEF Durable!Next
<1>4. CASE stage = "rename" /\ disk' = tmp
  <2>1. OnDisk' = OnTmp
    BY <1>4 DEF OnDisk, OnTmp
  <2>2. Durable!Save(owner)
    BY <1>1, <1>2, <1>4, <2>1, SaveIsComplete DEF Durable!Save, Durable!Copied
  <2> QED BY <1>2, <2>2 DEF Durable!Next
<1> QED BY <1>3, <1>4

\* Steps that touch neither memory nor file are invisible.
LEMMA OthersStutter ==
  ASSUME UNCHANGED <<content, disk, due>>
  PROVE  UNCHANGED Durable!vars
  BY DEF Durable!vars, InMemory, OnDisk

\* Every step is a step of the durable store or an invisible one.
LEMMA StepRefines ==
  ASSUME RdbInv, TypeOK', [Next]_vars
  PROVE  [Durable!Next]_(Durable!vars)
<1>1. ASSUME NEW c \in Clients, Command(c)
      PROVE  [Durable!Next]_(Durable!vars)
  <2>1. CASE IssueSet(c) \/ IssuePush(c)
    BY <2>1, OthersStutter DEF IssueSet, IssuePush, Issue, dataVars
  <2>2. CASE IssueSave(c)
    BY <2>2, CallAsks, SaverNames DEF IssueSave, dataVars
  <2>3. CASE IssueBgsave(c)
    <3>1. PICK b \in Background : CallSave(b)
      BY <2>3 DEF IssueBgsave
    <3> QED BY <2>3, <3>1, CallAsks, SaverNames DEF IssueBgsave, dataVars
  <2> QED BY <1>1, <2>1, <2>2, <2>3 DEF Command
<1>2. ASSUME NEW c \in Clients, Writer(c)
      PROVE  [Durable!Next]_(Durable!vars)
  <2>1. CASE Set(c) \/ Push(c)
    BY <2>1, WriteWrites DEF Set, Push
  <2>2. CASE GetOrCreate(c) \/ GetList(c) \/ IncrementChanges(c)
    BY <2>2, OthersStutter DEF GetOrCreate, GetList, IncrementChanges, dataVars
  <2> QED BY <1>2, <2>1, <2>2 DEF Writer
<1>3. CASE LoopTick \/ Shutdown
  BY <1>3, CallAsks, SaverNames DEF LoopTick, Shutdown, dataVars
<1>4. CASE LoopReset \/ LoopStops \/ Tick \/ UNCHANGED vars
  BY <1>4, OthersStutter DEF LoopReset, LoopStops, Tick, vars, dataVars
<1>5. CASE \E s \in Savers : CreateTmp(s)
  BY <1>5, OthersStutter DEF CreateTmp, dataVars
<1>6. CASE OpenDatabase \/ WriteKey \/ CloseDatabase \/ Finish
  BY <1>6, OthersStutter DEF OpenDatabase, WriteKey, CloseDatabase, Finish, InSave, dataVars
<1>7. CASE Rename
  <2>1. /\ owner # None /\ stage = "rename" /\ disk' = tmp /\ tmp' = << >> /\ Leave(owner, TRUE)
        /\ UNCHANGED <<issued, ghostVars>>
    BY <1>7 DEF Rename, ghostVars
  <2> QED BY <2>1, ReturnSaves, RestartRestarts DEF Leave
<1>8. CASE Fail
  <2>1. /\ owner # None /\ disk' = disk /\ tmp' = << >> /\ Leave(owner, FALSE)
        /\ UNCHANGED <<issued, ghostVars>>
    BY <1>8 DEF Fail, SaveFails
  <2> QED BY <2>1, ReturnSaves, RestartRestarts DEF Leave
<1>9. CASE Crash
  BY <1>9, RestartRestarts DEF Crash
<1> QED BY <1>1, <1>2, <1>3, <1>4, <1>5, <1>6, <1>7, <1>8, <1>9 DEF Next, Saving

\* Memory and snapshot file implement the durable store: a save that succeeds,
\* at whatever step other connections write, has stored everything that was
\* answered when it was called for and everything earlier saves had stored; and
\* no failure of Save, crash or shutdown loses what is in the file.
THEOREM ImplementsDurableStore == Spec => ActsAsDurableStore
<1>1. Init => Durable!Init
  <2> SUFFICES ASSUME Init PROVE Durable!Init
    OBVIOUS
  <2>1. InMemory = OnDisk /\ due = [s \in Savers |-> {}]
    BY RdbInitially DEF Init
  <2>2. InMemory \subseteq Placed
    BY DEF InMemory, Placed
  <2> QED BY <2>1, <2>2 DEF Durable!Init, Durable!Nothing
<1>2. RdbInv /\ RdbInv' /\ [Next]_vars => [Durable!Next]_(Durable!vars)
  BY StepRefines DEF RdbInv
<1> QED BY <1>1, <1>2, RdbInvariant, PTL DEF Spec, ActsAsDurableStore, Durable!Spec

=============================================================================
