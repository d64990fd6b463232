-------------------------------- MODULE Aof --------------------------------
(***************************************************************************)
(* The append-only file (pkg/persistence/aof.go) and the connections that  *)
(* write to it (SELECT and processCommand in pkg/server/tcp.go), with      *)
(* restarts, a kill in the middle of an entry, a loss of power, and the    *)
(* shutdown of the server.                                                 *)
(*                                                                         *)
(* A command is executed first and appended second, in two separate        *)
(* critical sections.  resp.Writer flushes after every element of an array *)
(* (the header goes out with the first one), so the file grows element by  *)
(* element and a killed process can leave part of an entry behind, after   *)
(* which the next process appends.  A command is an array of its name and  *)
(* its arguments, a SELECT marker one of two elements; both are read back  *)
(* by a parser that takes whatever values come next for the elements an    *)
(* array lacks, other arrays included.                                     *)
(*                                                                         *)
(* Databases are represented by the sequences of writes executed on them.  *)
(***************************************************************************)
EXTENDS Integers, Sequences, FiniteSets

CONSTANTS
  Clients,
  NumDatabases, \* logical databases (16 in the code)
  Events,       \* what may happen to the process: "kill", "power", "shutdown"
  Sizes,        \* how many elements a command may have, its name included
  MaxWrites     \* bound: commands issued in one behaviour

ASSUME AofAssumption ==
  /\ NumDatabases \in Nat \ {0}
  /\ Events \subseteq {"kill", "power", "shutdown"}
  /\ Sizes \subseteq Nat \ {0, 1}   \* every command that is logged has an argument
  /\ MaxWrites \in Nat
  /\ -1 \notin Clients   \* None

Databases == 0 .. NumDatabases - 1
Writes    == 1 .. MaxWrites
None      == -1

VARIABLES
  selected, \* connection -> its dbIndex
  mem,     \* database -> the commands executed on it, in order
  pc,      \* what each connection's goroutine does next
  job,     \* the command it runs: database, number and size
  file,    \* the entries in the file, as far as they were written
  synced,  \* how many of them are on disk for certain
  pending, \* the entries the holder of aof.mutex has yet to write or to complete
  writer,  \* the connection inside Aof.Write, or None
  lastDB,  \* aof.lastDB
  open,    \* aof.file is open
  issued,  \* number of commands issued
  home,    \* the database each command was executed on
  acked,   \* the commands that were answered
  before,  \* the commands answered before a command was issued
  torn,    \* the file had part of an entry at its end when a process started
  owed,    \* the elements such entries still lacked behind the first entry of the
           \* process that went on with the file
  refused, \* the commands whose append failed
  lost,    \* the commands that a loss of power has taken out of the file
  kept,    \* the commands that were answered before the last sync
  raced    \* databases on which a command was executed between the execution
           \* and the append of another one, in this process

log     == <<file, synced, pending, writer, lastDB, open>>
history == <<issued, home, acked, before, torn, owed, refused, lost, kept, raced>>
vars    == <<selected, mem, pc, job, log, history>>

\* An entry is an array of size elements, the first got of which are in the file
\* (the first one with the array's header).  n is the index in a SELECT marker, or
\* the number of a command.
Entries ==
  LET all == [kind : {"SELECT"}, n : Databases, size : {2}, got : Nat]
             \cup [kind : {"WRITE"}, n : Writes, size : Sizes, got : Nat]
  IN  {e \in all : e.got <= e.size}

SelectEntry(d)      == [kind |-> "SELECT", n |-> d, size |-> 2, got |-> 0]
WriteEntry(w, size) == [kind |-> "WRITE", n |-> w, size |-> size, got |-> 0]

NoJob == [db |-> 0, id |-> 0, size |-> 0]

\* The type invariant; connections inside Write hold the mutex, and the index
\* of a database that a command is run on is good (MultiDB.DB does not check).
TypeOK ==
  /\ selected \in [Clients -> Databases]
  /\ mem \in [Databases -> Seq(0 .. MaxWrites)]
  /\ pc \in [Clients -> {"idle", "execute", "append", "write", "reply"}]
  /\ job \in [Clients -> [db : Databases, id : 0 .. MaxWrites, size : {0} \cup Sizes]]
  /\ file \in Seq(Entries)
  /\ synced \in 0 .. Len(file)
  /\ pending \in Seq(Entries)
  /\ writer \in Clients \cup {None}
  /\ \A c \in Clients : pc[c] = "write" <=> writer = c
  /\ lastDB \in Databases \cup {None}
  /\ open \in BOOLEAN
  /\ issued \in 0 .. MaxWrites
  /\ home \in [Writes -> Databases]
  /\ acked \subseteq Writes
  /\ before \in [Writes -> SUBSET Writes]
  /\ torn \in BOOLEAN
  /\ owed \in Nat
  /\ {refused, lost, kept} \subseteq SUBSET Writes
  /\ raced \subseteq Databases

Init ==
  /\ selected = [c \in Clients |-> 0]
  /\ mem = [d \in Databases |-> << >>]
  /\ pc = [c \in Clients |-> "idle"]
  /\ job = [c \in Clients |-> NoJob]
  /\ file = << >>
  /\ synced = 0
  /\ pending = << >>
  /\ writer = None
  /\ lastDB = None
  /\ open = TRUE
  /\ issued = 0
  /\ home = [w \in Writes |-> 0]
  /\ acked = {}
  /\ before = [w \in Writes |-> {}]
  /\ torn = FALSE
  /\ owed = 0
  /\ refused = {}
  /\ lost = {}
  /\ kept = {}
  /\ raced = {}

-----------------------------------------------------------------------------
(* Reading the file back.                                                  *)

\* The elements that an entry lacks; a whole one has only elements of its own.
Lacks(e) == e.size - e.got
Whole(e) == Lacks(e) = 0

\* A SELECT marker with an index (the Str of an array is "", which Atoi refuses,
\* so the database stays).
isSelectEntry(e) == e.kind = "SELECT" /\ Whole(e)

\* fn is called with a command: number n is executed on the current database.
Apply(s, n) == [s.dbs EXCEPT ![s.db] = Append(@, n)]

\* Read, from its state s on, gets to entry e.  s.wanted says how many values
\* readArray has yet to read for all the arrays that are open: e is one of them,
\* and brings what it lacks itself.  When there are none, e begins a value.  A
\* command that lacks elements gets other entries for them and is then executed
\* as another command, number 0 (SET k with a marker for a value stores "").
ReadEntry(s, e) ==
  LET begins == s.wanted = 0
      wanted == (IF begins THEN 0 ELSE s.wanted - 1) + Lacks(e)
  IN  [wanted  |-> wanted,
       command |-> IF begins THEN e.kind = "WRITE" ELSE s.command,
       db      |-> IF begins /\ isSelectEntry(e) THEN e.n ELSE s.db,
       dbs     |-> IF begins /\ Whole(e) /\ e.kind = "WRITE" THEN Apply(s, e.n)
                   ELSE IF ~begins /\ wanted = 0 /\ s.command THEN Apply(s, 0)
                   ELSE s.dbs]

\* Read begins with database 0, and with empty databases in memory.
ReadNothing == [wanted |-> 0, command |-> FALSE, db |-> 0, dbs |-> [d \in Databases |-> << >>]]

\* The state of Read behind each entry.
Reading(f) ==
  LET behind[i \in 0 .. Len(f)] ==
        IF i = 0 THEN ReadNothing ELSE ReadEntry(behind[i - 1], f[i])
  IN  behind

\* The databases that a replay builds, and what is wanted at the end of the file:
\* an EOF inside a value ends the replay.
Read(f)   == Reading(f)[Len(f)].dbs
Wanted(f) == Reading(f)[Len(f)].wanted

\* The commands that are replayed as they were issued, and Read's currentDB there.
Replayed(f)     == {i \in 1 .. Len(f) : /\ f[i].kind = "WRITE" /\ Whole(f[i])
                                        /\ Reading(f)[i - 1].wanted = 0}
CurrentDB(f, i) == Reading(f)[i - 1].db

\* The number of a command, all that are replayed, and all that are in the file.
WriteAt(f, i) == f[i].n
WritesIn(f)   == {WriteAt(f, i) : i \in Replayed(f)}
Logged(f)     == {WriteAt(f, i) : i \in {j \in 1 .. Len(f) : f[j].kind = "WRITE"}}

-----------------------------------------------------------------------------
(* SELECT.                                                                 *)

\* Mutant: the index is not compared with the number of databases.
SelectUnchecked(c) ==
  /\ pc[c] = "idle"
  /\ \E index \in -1 .. NumDatabases : selected' = [selected EXCEPT ![c] = index]
  /\ UNCHANGED <<mem, pc, job, log, history>>

\* handleSelect: an index that is out of range leaves the database as it is.
Select(c) ==
  /\ pc[c] = "idle"
  /\ \E index \in -1 .. NumDatabases :
       selected' = IF index < 0 \/ index >= NumDatabases THEN selected
                   ELSE [selected EXCEPT ![c] = index]
  /\ UNCHANGED <<mem, pc, job, log, history>>

-----------------------------------------------------------------------------
(* processCommand and Aof.Write.                                           *)

Issue(c) ==
  /\ pc[c] = "idle"
  /\ issued < MaxWrites
  /\ issued' = issued + 1
  /\ before' = [before EXCEPT ![issued + 1] = acked]
  /\ \E size \in Sizes : job' = [job EXCEPT ![c] = [db |-> selected[c], id |-> issued + 1, size |-> size]]
  /\ home' = [home EXCEPT ![issued + 1] = selected[c]]
  /\ pc' = [pc EXCEPT ![c] = "execute"]
  /\ UNCHANGED <<selected, mem, log, acked, torn, owed, refused, lost, kept, raced>>

\* The databases with a command that is executed and not yet in line for the log.
InBetween(c) == {job[d].db : d \in {e \in Clients \ {c} : pc[e] = "append"}}

Run(c, answered) ==
  /\ pc[c] = "execute"
  /\ mem' = [mem EXCEPT ![job[c].db] = Append(@, job[c].id)]
  /\ pc' = [pc EXCEPT ![c] = "append"]
  /\ acked' = acked \cup answered
  /\ raced' = raced \cup ({job[c].db} \cap InBetween(c))
  /\ UNCHANGED <<selected, job, log, issued, home, before, torn, owed, refused, lost, kept>>

\* Mutant: the reply does not wait for the append.
ExecuteAndReply(c) == Run(c, {job[c].id})

\* handler(args, db): the command takes effect.
Execute(c) == Run(c, {})

\* aof.Write makes the entries and remembers the database.  What is open at the
\* end of the file takes the first of them, which is a marker when it is the first
\* one of a process.
Prepare(c, entries) ==
  /\ pc[c] = "append"
  /\ open
  /\ pending' = entries
  /\ lastDB' = job[c].db
  /\ writer' = c
  /\ pc' = [pc EXCEPT ![c] = "write"]
  /\ owed' = IF lastDB = None /\ Wanted(file) > 0 THEN owed + (Wanted(file) - 1) ELSE owed
  /\ UNCHANGED <<selected, mem, job, file, synced, open,
                 issued, home, acked, before, torn, refused, lost, kept, raced>>

Marker(c) == IF job[c].db # lastDB THEN <<SelectEntry(job[c].db)>> ELSE << >>

\* Mutant: the marker comes with the first entry only.
LockMarksFirst(c) ==
  /\ writer = None
  /\ Prepare(c, (IF lastDB = None THEN Marker(c) ELSE << >>) \o <<WriteEntry(job[c].id, job[c].size)>>)

\* aof.Write gets aof.mutex; a SELECT marker comes first when the database is
\* not the one of the entry before.
Lock(c) ==
  /\ writer = None
  /\ Prepare(c, Marker(c) \o <<WriteEntry(job[c].id, job[c].size)>>)

\* The file is closed: the error is printed and the command succeeds.
WriteFails(c) ==
  /\ pc[c] = "append"
  /\ writer = None
  /\ ~open
  /\ pc' = [pc EXCEPT ![c] = "reply"]
  /\ refused' = refused \cup {job[c].id}
  /\ UNCHANGED <<selected, mem, job, log, issued, home, acked, before, torn, owed, lost, kept, raced>>

\* One element is flushed; after the last one aof.mutex is released.
Flush(c) ==
  /\ pc[c] = "write"
  /\ LET e == [Head(pending) EXCEPT !.got = @ + 1]
     IN  /\ file' = IF e.got = 1 THEN Append(file, e) ELSE [file EXCEPT ![Len(file)] = e]
         /\ pending' = IF Whole(e) THEN Tail(pending) ELSE [pending EXCEPT ![1] = e]
  /\ IF pending' = << >>
       THEN writer' = None /\ pc' = [pc EXCEPT ![c] = "reply"]
       ELSE UNCHANGED <<writer, pc>>
  /\ UNCHANGED <<selected, mem, job, synced, lastDB, open, history>>

\* The response is written to the connection.
Reply(c) ==
  /\ pc[c] = "reply"
  /\ acked' = acked \cup {job[c].id}
  /\ pc' = [pc EXCEPT ![c] = "idle"]
  /\ job' = [job EXCEPT ![c] = NoJob]
  /\ UNCHANGED <<selected, mem, log, issued, home, before, torn, owed, refused, lost, kept, raced>>

\* A tick of syncLoop, under aof.mutex.  A sync that fails is printed and
\* leaves everything as it is.
Sync ==
  /\ open /\ writer = None
  /\ synced' = Len(file)
  /\ kept' = acked \ (refused \cup lost)
  /\ UNCHANGED <<selected, mem, pc, job, file, pending, writer, lastDB, open,
                 issued, home, acked, before, torn, owed, refused, lost, raced>>

-----------------------------------------------------------------------------
(* The end of a process and the start of the next one.                     *)

\* A process that finds the entries f: New replays them before the server
\* listens.  Nothing is kept of the history of commands that are not in the file.
Boot(f, last) ==
  /\ mem' = Read(f)
  /\ file' = f
  /\ selected' = [c \in Clients |-> 0]
  /\ pc' = [c \in Clients |-> "idle"]
  /\ job' = [c \in Clients |-> NoJob]
  /\ pending' = << >>
  /\ writer' = None
  /\ lastDB' = last
  /\ open' = TRUE
  /\ torn' = (torn \/ Wanted(f) > 0)
  /\ raced' = {}
  /\ home' = [w \in Writes |-> IF w \in Logged(f) THEN home[w] ELSE 0]
  /\ before' = [w \in Writes |-> IF w \in Logged(f) THEN before[w] ELSE {}]
  /\ UNCHANGED <<issued, acked, owed, refused, kept>>

\* Mutant: lastDB starts at 0.
StartAtZero(f) == Boot(f, 0)

\* Mutant: the file is opened with O_TRUNC.
StartTruncates(f) == Boot(<< >>, None)

\* NewAof opens the file for appending and forces a SELECT marker ahead of
\* the first write.
Start(f) == Boot(f, None)

\* The process is killed at any point; what it wrote is in the page cache.
Kill == "kill" \in Events /\ Start(file) /\ UNCHANGED <<synced, lost>>

\* The first n entries of f, of the last one the first got elements.
Cut(f, n, got) == [i \in 1 .. n |-> IF i = n THEN [f[i] EXCEPT !.got = got] ELSE f[i]]

\* The machine stops: what was written since the last sync may be gone from
\* any point on (a cut inside an element, or blocks that got to the disk in
\* another order, are left out).
PowerLoss ==
  /\ "power" \in Events
  /\ \E n \in synced .. Len(file) :
     \E got \in IF n = synced THEN {0} ELSE 1 .. file[n].got :
       LET f == IF n = synced THEN SubSeq(file, 1, n) ELSE Cut(file, n, got) IN
       /\ Start(f)
       /\ synced' = n
       /\ lost' = lost \cup (WritesIn(file) \ WritesIn(f))

\* Shutdown closes the file, without a sync; connections are served until the
\* process exits.
Close ==
  /\ "shutdown" \in Events
  /\ open
  /\ writer = None
  /\ open' = FALSE
  /\ UNCHANGED <<selected, mem, pc, job, file, synced, pending, writer, lastDB, history>>

Exit == ~open /\ Start(file) /\ UNCHANGED <<synced, lost>>

-----------------------------------------------------------------------------
Step(c) == Execute(c) \/ Lock(c) \/ WriteFails(c) \/ Flush(c) \/ Reply(c)

Next ==
  \/ \E c \in Clients : Select(c) \/ Issue(c) \/ Step(c)
  \/ Sync
  \/ Kill \/ PowerLoss \/ Close \/ Exit

Spec == Init /\ [][Next]_vars

-----------------------------------------------------------------------------
(* What the append-only file guarantees.                                   *)

\* Every answered command whose append did not fail and that no loss of power
\* has taken away is replayed exactly once, with this exception: a process that
\* appends behind an entry that lacks m elements loses as many commands at most
\* as that entry still lacks after the SELECT marker, m - 1 (readArray takes them
\* for elements; architecture.md:46 has no such exception, "Replaying the log
\* re-applies each command").  So none is lost as long as such entries lack one
\* element at most.
\* As long as no process has found any, whatever is replayed goes to the database
\* it was executed on, across restarts and whatever the order in which connections
\* on different databases get the mutex (README.md:103, "data ends up back in the
\* database it came from").
AckedIsReplayed ==
  LET commands == Replayed(file)
  IN  /\ Cardinality(acked \ (refused \cup lost \cup WritesIn(file))) <= owed
      /\ \A i, j \in commands : WriteAt(file, i) = WriteAt(file, j) => i = j
      /\ torn \/ \A i \in commands : CurrentDB(file, i) = home[WriteAt(file, i)]

\* No loss of power takes a command that was answered before the last sync, and
\* all of these are replayed, but for those that an entry has swallowed (syncLoop
\* takes the mutex, so it never syncs half an entry of a running process).
SyncedSurvives ==
  /\ kept \cap lost = {}
  /\ Cardinality(kept \ WritesIn(file)) <= owed

\* A command answered before another one was issued is replayed before it
\* (processCommand appends before it replies).
LogInRealTimeOrder ==
  LET commands == Replayed(file)
  IN  \A i, j \in commands : WriteAt(file, i) \in before[WriteAt(file, j)] => i < j

\* A database none of whose commands was executed between the execution and
\* the append of another is restored to the very history it has in memory,
\* whatever the other databases do meanwhile.  (Where two overlap, memory and
\* log may order them differently: the two sections of processCommand are not
\* one.)
SerialIsRestored ==
  LET restored == Read(file)
  IN  \A d \in Databases \ raced :
        /\ open /\ ~torn
        /\ \A c \in Clients : pc[c] \in {"append", "write"} => job[c].db # d
        => restored[d] = mem[d]

\* What a replay would apply now it will always apply, in the same place and
\* to the same database, unless a loss of power takes it away: appends, even
\* behind an entry that was left half written, change nothing in what comes
\* before.
ReplayOnlyGrows ==
  [][file' # file => \A i \in Replayed(file) :
       \/ WriteAt(file, i) \in lost'
       \/ /\ i \in Replayed(file')
          /\ WriteAt(file', i) = WriteAt(file, i)
          /\ CurrentDB(file', i) = CurrentDB(file, i)]_vars
=============================================================================
