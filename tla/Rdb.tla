-------------------------------- MODULE Rdb --------------------------------
(***************************************************************************)
(* RDB snapshots (pkg/persistence/rdb.go) under concurrent writers: the    *)
(* snapshot loop, SAVE, BGSAVE, the final save of a shutdown, the walk of  *)
(* the databases, the temporary file and its rename, crashes and Load.     *)
(* This is the server without an append-only file.                         *)
(*                                                                         *)
(* Save holds r.mu from its first line to its last and each database's own *)
(* mutex (read) only while it walks that database.  A string write is one  *)
(* section under the database's mutex; a write into a container (list, set *)
(* or hash) looks the container up under that mutex and changes it under   *)
(* the container's own, which the walk does not hold.  Before its reply    *)
(* every write adds one to r.changes under r.mu.                           *)
(*                                                                         *)
(* Writes are numbered, and a key's value is represented by the set of     *)
(* writes that made it.  Commands that remove data are left out.           *)
(***************************************************************************)
EXTENDS Integers, SequencesExt

CONSTANTS
  Clients,      \* connections
  NumDatabases, \* logical databases (16 in the code)
  Strings,      \* keys that hold strings
  Containers,   \* keys that hold a list, set or hash
  Stored,       \* containers of database 0 in the file the first process finds
  Background,   \* BGSAVE goroutines
  Triggers,     \* the "save <secs> <changes>" lines of the configuration
  Faults,       \* what may go wrong: "crash", "io", "shutdown"
  MaxWrites,    \* bound: writes issued in one behaviour
  MaxAge        \* bound: clocks stop counting here

Loop   == "snapshotLoop"
Closer == "Close"
None   == "none"

ASSUME RdbAssumption ==
  /\ NumDatabases \in Nat \ {0}
  /\ Strings \cap Containers = {}
  /\ Stored \subseteq Containers /\ IsFiniteSet(Stored)
  /\ \A t \in Triggers : t \in [Secs : 0 .. MaxAge, KeysChanged : Nat]
  /\ Faults \subseteq {"crash", "io", "shutdown"}
  /\ MaxWrites \in Nat
  /\ MaxAge \in Nat
  /\ Clients \cap Background = {}
  /\ {Loop, Closer, None} \cap (Clients \cup Background) = {}

Databases == 0 .. NumDatabases - 1
Keys      == Strings \cup Containers
Writes    == 0 .. MaxWrites   \* 0 is what was in the first file
Savers    == Clients \cup Background \cup {Loop, Closer}

VARIABLES
  content,  \* database -> key -> writes in its value
  present,  \* database -> keys in its maps
  pc,       \* what each connection's goroutine does next
  job,      \* the write it is doing
  loop,     \* what snapshotLoop does next
  stopping, \* stopCh is closed: the server is shutting down
  wants,    \* who called Save and waits for r.mu
  owner,    \* who is inside Save and holds r.mu
  stage,    \* Save: where it is
  at,       \* Save: the database it comes to or walks
  left,     \* Save: the keys of that database it has yet to write
  tmp,      \* the temporary file
  disk,     \* the snapshot file, << >> while there is none
  changes,  \* r.changes
  age,      \* time since r.lastSave
  issued,   \* number of writes issued
  acked,    \* writes that were answered
  before,   \* the writes answered before a write was issued
  due       \* what was in the databases, answered, when a save was called for

dataVars  == <<content, present>>
saveVars  == <<stage, at, left, tmp>>
ghostVars == <<acked, before>>
vars == <<dataVars, pc, job, loop, stopping, wants, owner, saveVars, disk,
          changes, age, issued, ghostVars, due>>

NoJob == [db |-> 0, keys |-> {}, id |-> 0]

Records ==
       [op : {"header", "eof"}]
  \cup [op : {"selectdb"}, db : Databases]
  \cup [op : {"key"}, key : Keys, val : SUBSET Writes]

\* A written value, placed: the write id is in the value of k in database d.
Placed == Databases \X Keys \X Writes
InMemory == {p \in Placed : p[3] \in content[p[1]][p[2]]}

\* The type invariant.
TypeOK ==
  /\ content \in [Databases -> [Keys -> SUBSET Writes]]
  /\ present \in [Databases -> SUBSET Keys]
  /\ pc \in [Clients -> {"idle", "set", "lookup", "push", "count", "save"}]
  /\ job \in [Clients -> [db : Databases, keys : SUBSET Keys, id : Writes]]
  /\ loop \in {"select", "save", "reset", "stopped"}
  /\ stopping \in BOOLEAN
  /\ wants \subseteq Savers
  /\ owner \in Savers \cup {None}
  /\ stage \in {"next", "keys", "rename"}
  /\ at \in 0 .. NumDatabases
  /\ stage = "keys" => at < NumDatabases
  /\ left \subseteq Keys
  /\ tmp \in Seq(Records)
  /\ disk \in Seq(Records)
  /\ changes \in Nat
  /\ age \in 0 .. MaxAge
  /\ issued \in 0 .. MaxWrites
  /\ acked \subseteq Writes
  /\ before \in [Writes -> SUBSET Writes]
  /\ due \in [Savers -> SUBSET Placed]

\* The files the first process may find: the order of the keys is that of a Go
\* map.
FirstFiles ==
  IF Stored = {} THEN {<< >>}
  ELSE {<<[op |-> "header"], [op |-> "selectdb", db |-> 0]>>
          \o [i \in DOMAIN keys |-> [op |-> "key", key |-> keys[i], val |-> {0}]]
          \o <<[op |-> "eof"]>> : keys \in SetToSeqs(Stored)}

Init ==
  /\ content = [d \in Databases |-> [k \in Keys |-> IF d = 0 /\ k \in Stored THEN {0} ELSE {}]]
  /\ present = [d \in Databases |-> IF d = 0 THEN Stored ELSE {}]
  /\ pc = [c \in Clients |-> "idle"]
  /\ job = [c \in Clients |-> NoJob]
  /\ loop = "select"
  /\ stopping = FALSE
  /\ wants = {}
  /\ owner = None
  /\ stage = "next"
  /\ at = 0
  /\ left = {}
  /\ tmp = << >>
  /\ disk \in FirstFiles
  /\ changes = 0
  /\ age = 0
  /\ issued = 0
  /\ acked = {0}
  /\ before = [w \in Writes |-> {}]
  /\ due = [s \in Savers |-> {}]

-----------------------------------------------------------------------------
(* The snapshot file and what Load makes of it.                            *)

\* currentDB at record i: the last SELECTDB, database 0 before the first.
CurrentDB(file, i) ==
  LET selects == {j \in 1 .. i : file[j].op = "selectdb"}
  IN  IF selects = {} THEN 0
                      ELSE file[CHOOSE j \in selects : \A m \in selects : m <= j].db

\* What Load puts into the databases, placed.
Loaded(file) ==
  UNION {{CurrentDB(file, i)} \X {file[i].key} \X file[i].val :
           i \in {j \in DOMAIN file : file[j].op = "key"}}

Load(file) ==
  LET loaded == Loaded(file)
  IN  [d \in Databases |-> [k \in Keys |-> {p[3] : p \in {q \in loaded : <<q[1], q[2]>> = <<d, k>>}}]]

\* Load meets the header and, at the end, opEOF; it fails otherwise.
Whole(file) ==
  /\ Len(file) >= 2
  /\ file[1].op = "header"
  /\ file[Len(file)].op = "eof"

OnDisk == Loaded(disk)

-----------------------------------------------------------------------------
(* Writers: processCommand runs the handler, counts the change, replies.   *)

\* saveDatabase holds database d's mutex for reading.
ReadLocked(d) == owner # None /\ stage = "keys" /\ at = d

Issue(c, ks, step) ==
  /\ pc[c] = "idle"
  /\ issued < MaxWrites
  /\ issued' = issued + 1
  /\ before' = [before EXCEPT ![issued + 1] = acked]
  /\ \E d \in Databases : job' = [job EXCEPT ![c] = [db |-> d, keys |-> ks, id |-> issued + 1]]
  /\ pc' = [pc EXCEPT ![c] = step]
  /\ UNCHANGED <<dataVars, loop, stopping, wants, owner, saveVars, disk, changes, age,
                 acked, due>>

\* SET, MSET, INCR: all the keys in one section.
IssueSet(c) == \E ks \in SUBSET Strings \ {{}} : Issue(c, ks, "set")

\* RPUSH, SADD, HSET, LSET and the like: one container.
IssuePush(c) == \E k \in Containers : Issue(c, {k}, "lookup")

\* The write reaches the keys of c's job.
Written(c) ==
  LET j == job[c] IN
  [content EXCEPT ![j.db] = [k \in Keys |-> IF k \in j.keys THEN @[k] \cup {j.id} ELSE @[k]]]

Set(c) ==
  /\ pc[c] = "set"
  /\ ~ReadLocked(job[c].db)
  /\ content' = Written(c)
  /\ present' = [present EXCEPT ![job[c].db] = @ \cup job[c].keys]
  /\ pc' = [pc EXCEPT ![c] = "count"]
  /\ UNCHANGED <<job, loop, stopping, wants, owner, saveVars, disk, changes, age, issued,
                 ghostVars, due>>

\* GetOrCreateList, -Set or -Hash.
GetOrCreate(c) ==
  /\ pc[c] = "lookup"
  /\ ~ReadLocked(job[c].db)
  /\ present' = [present EXCEPT ![job[c].db] = @ \cup job[c].keys]
  /\ pc' = [pc EXCEPT ![c] = "push"]
  /\ UNCHANGED <<content, job, loop, stopping, wants, owner, saveVars, disk, changes, age,
                 issued, ghostVars, due>>

\* GetList in LSET: a read lock, which the walk of a save does not keep out.
GetList(c) ==
  /\ pc[c] = "lookup"
  /\ job[c].keys \subseteq present[job[c].db]
  /\ pc' = [pc EXCEPT ![c] = "push"]
  /\ UNCHANGED <<dataVars, job, loop, stopping, wants, owner, saveVars, disk, changes, age,
                 issued, ghostVars, due>>

\* The container changes under its own mutex only.
Push(c) ==
  /\ pc[c] = "push"
  /\ content' = Written(c)
  /\ pc' = [pc EXCEPT ![c] = "count"]
  /\ UNCHANGED <<present, job, loop, stopping, wants, owner, saveVars, disk, changes, age,
                 issued, ghostVars, due>>

\* Mutant: changes is an atomic counter, without r.mu.
IncrementAtomically(c) ==
  /\ pc[c] = "count"
  /\ changes' = changes + 1
  /\ acked' = acked \cup {job[c].id}
  /\ pc' = [pc EXCEPT ![c] = "idle"]
  /\ job' = [job EXCEPT ![c] = NoJob]
  /\ UNCHANGED <<dataVars, loop, stopping, wants, owner, saveVars, disk, age, issued, before,
                 due>>

\* IncrementChanges under r.mu, then the reply.
IncrementChanges(c) ==
  /\ pc[c] = "count"
  /\ owner = None
  /\ changes' = changes + 1
  /\ acked' = acked \cup {job[c].id}
  /\ pc' = [pc EXCEPT ![c] = "idle"]
  /\ job' = [job EXCEPT ![c] = NoJob]
  /\ UNCHANGED <<dataVars, loop, stopping, wants, owner, saveVars, disk, age, issued, before,
                 due>>

-----------------------------------------------------------------------------
(* Calls of Save.                                                          *)

\* s calls Save; what was answered so far must be in the file if it succeeds.
CallSave(s) ==
  /\ wants' = wants \cup {s}
  /\ due' = [due EXCEPT ![s] = {p \in InMemory : p[3] \in acked}]

\* SAVE: the connection runs Save itself.
IssueSave(c) ==
  /\ pc[c] = "idle"
  /\ CallSave(c)
  /\ pc' = [pc EXCEPT ![c] = "save"]
  /\ UNCHANGED <<dataVars, job, loop, stopping, owner, saveVars, disk, changes, age, issued,
                 ghostVars>>

\* BGSAVE: a goroutine does, and the reply does not wait for it.
IssueBgsave(c) ==
  /\ pc[c] = "idle"
  /\ \E b \in Background : b \notin wants \cup {owner} /\ CallSave(b)
  /\ UNCHANGED <<dataVars, pc, job, loop, stopping, owner, saveVars, disk, changes, age,
                 issued, ghostVars>>

\* Mutant: the trigger compares with > instead of >=.
TriggeredLate ==
  \E t \in Triggers : age >= t.Secs /\ changes > t.KeysChanged

\* One of the save lines applies.
Triggered ==
  \E t \in Triggers : age >= t.Secs /\ changes >= t.KeysChanged

\* A tick of snapshotLoop: elapsed and changes are read under r.mu, which is
\* given back before Save takes it again.
LoopTick ==
  /\ loop = "select"
  /\ owner = None
  /\ Triggered
  /\ CallSave(Loop)
  /\ loop' = "save"
  /\ UNCHANGED <<dataVars, pc, job, stopping, owner, saveVars, disk, changes, age, issued,
                 ghostVars>>

\* After a successful Save, in another section of r.mu.
LoopReset ==
  /\ loop = "reset"
  /\ owner = None
  /\ age' = 0
  /\ changes' = 0
  /\ loop' = "select"
  /\ UNCHANGED <<dataVars, pc, job, stopping, wants, owner, saveVars, disk, issued, ghostVars,
                 due>>

\* snapshotLoop sees stopCh closed.
LoopStops ==
  /\ loop = "select"
  /\ stopping
  /\ loop' = "stopped"
  /\ UNCHANGED <<dataVars, pc, job, stopping, wants, owner, saveVars, disk, changes, age,
                 issued, ghostVars, due>>

\* Shutdown, RDB.Close: connections are still served during its Save.
Shutdown ==
  /\ "shutdown" \in Faults
  /\ ~stopping
  /\ stopping' = TRUE
  /\ CallSave(Closer)
  /\ UNCHANGED <<dataVars, pc, job, loop, owner, saveVars, disk, changes, age, issued,
                 ghostVars>>

-----------------------------------------------------------------------------
(* Starting the server: NewRDB with its Load, on the file there is.        *)

Restart ==
  /\ content' = Load(disk')
  /\ present' = [d \in Databases |-> {k \in Keys : Load(disk')[d][k] # {}}]
  /\ pc' = [c \in Clients |-> "idle"]
  /\ job' = [c \in Clients |-> NoJob]
  /\ loop' = "select"
  /\ stopping' = FALSE
  /\ wants' = {}
  /\ owner' = None
  /\ stage' = "next"
  /\ at' = 0
  /\ left' = {}
  /\ changes' = 0
  /\ age' = 0
  /\ due' = [s \in Savers |-> {}]

\* kill -9 at any time, and the next start.  A temporary file stays behind;
\* nothing reads it, and the next Save truncates it.
Crash ==
  /\ "crash" \in Faults
  /\ UNCHANGED disk
  /\ Restart
  /\ tmp' = << >>
  /\ UNCHANGED <<issued, ghostVars>>

-----------------------------------------------------------------------------
(* Save.                                                                   *)

\* The caller of Save goes on with its result: SAVE replies, snapshotLoop
\* resets its counters after a success, Close lets the process exit.
SaveReturns(s, ok) ==
  /\ due' = [due EXCEPT ![s] = {}]
  /\ pc' = IF s \in Clients THEN [pc EXCEPT ![s] = "idle"] ELSE pc
  /\ loop' = IF s = Loop THEN (IF ok THEN "reset" ELSE "select") ELSE loop
  /\ UNCHANGED <<dataVars, job, stopping, wants, changes, age>>

\* Mutant: the snapshot loop goes on to its next save with r.mu in its hands.
LeaveLocked(s, ok) ==
  IF s = Closer
    THEN Restart
    ELSE /\ owner' = IF s = Loop THEN Loop ELSE None
         /\ stage' = "next" /\ at' = 0 /\ left' = {}
         /\ IF s = Loop THEN UNCHANGED <<dataVars, pc, job, loop, stopping, wants, changes, age, due>>
                        ELSE SaveReturns(s, ok)

\* The deferred r.mu.Unlock(), then the caller.
Leave(s, ok) ==
  IF s = Closer
    THEN Restart
    ELSE /\ owner' = None
         /\ stage' = "next" /\ at' = 0 /\ left' = {}
         /\ SaveReturns(s, ok)

\* Every error path of Save returns the error and leaves no temporary file
\* that anything reads: os.Remove, or os.Create itself failed.
SaveFails ==
  /\ UNCHANGED disk
  /\ Leave(owner, FALSE)
  /\ tmp' = << >>
  /\ UNCHANGED <<issued, ghostVars>>

\* Mutant: the file is written in place.
CreateInPlace(s) ==
  /\ s \in wants
  /\ owner = None
  /\ wants' = wants \ {s}
  /\ owner' = s
  /\ tmp' = <<[op |-> "header"]>>
  /\ disk' = <<[op |-> "header"]>>
  /\ UNCHANGED <<dataVars, pc, job, loop, stopping, stage, at, left, changes, age, issued,
                 ghostVars, due>>

\* r.mu.Lock(), os.Create of the temporary file and the header.
CreateTmp(s) ==
  /\ s \in wants
  /\ owner = None
  /\ wants' = wants \ {s}
  /\ owner' = s
  /\ tmp' = <<[op |-> "header"]>>
  /\ UNCHANGED <<dataVars, pc, job, loop, stopping, stage, at, left, disk, changes, age,
                 issued, ghostVars, due>>

InSave ==
  UNCHANGED <<dataVars, pc, job, loop, stopping, wants, owner, disk, changes, age, issued,
              ghostVars, due>>

\* Mutant: no SELECTDB marker.
OpenDatabaseUnmarked ==
  /\ owner # None
  /\ stage = "next"
  /\ at < NumDatabases
  /\ stage' = "keys"
  /\ left' = present[at]
  /\ UNCHANGED <<at, tmp>>
  /\ InSave

\* Mutant: the loop over the databases goes one too far.
OpenDatabaseBeyond ==
  /\ owner # None
  /\ stage = "next"
  /\ at <= NumDatabases
  /\ IF at = NumDatabases \/ present[at] = {}
       THEN at' = at + 1 /\ UNCHANGED <<stage, left, tmp>>
       ELSE /\ stage' = "keys"
            /\ left' = present[at]
            /\ tmp' = Append(tmp, [op |-> "selectdb", db |-> at])
            /\ UNCHANGED at
  /\ InSave

\* saveDatabase locks the database and collects its maps; a database without
\* keys gets no section in the file.
OpenDatabase ==
  /\ owner # None
  /\ stage = "next"
  /\ at < NumDatabases
  /\ IF present[at] = {}
       THEN at' = at + 1 /\ UNCHANGED <<stage, left, tmp>>
       ELSE /\ stage' = "keys"
            /\ left' = present[at]
            /\ tmp' = Append(tmp, [op |-> "selectdb", db |-> at])
            /\ UNCHANGED at
  /\ InSave

\* One key, strings first; a container that is empty by now is left out.
WriteKey ==
  /\ owner # None
  /\ stage = "keys"
  /\ \E k \in left :
       /\ k \in Strings \/ left \cap Strings = {}
       /\ left' = left \ {k}
       /\ tmp' = IF content[at][k] = {} THEN tmp
                   ELSE Append(tmp, [op |-> "key", key |-> k, val |-> content[at][k]])
  /\ UNCHANGED <<stage, at>>
  /\ InSave

\* The database's mutex is released.
CloseDatabase ==
  /\ owner # None
  /\ stage = "keys"
  /\ left = {}
  /\ stage' = "next"
  /\ at' = at + 1
  /\ UNCHANGED <<left, tmp>>
  /\ InSave

\* opEOF, Flush, Sync, Close: any error so far, or one of these, ends it.
Finish ==
  /\ owner # None
  /\ stage = "next"
  /\ at = NumDatabases
  /\ tmp' = Append(tmp, [op |-> "eof"])
  /\ stage' = "rename"
  /\ UNCHANGED <<at, left>>
  /\ InSave

\* os.Create, a write, Flush, Sync, Close or Rename failed.
Fail ==
  /\ "io" \in Faults
  /\ owner # None
  /\ stage \in {"next", "rename"}
  /\ at \in {0, NumDatabases}
  /\ SaveFails

\* os.Rename, and Save returns nil.
Rename ==
  /\ owner # None
  /\ stage = "rename"
  /\ disk' = tmp
  /\ tmp' = << >>
  /\ Leave(owner, TRUE)
  /\ UNCHANGED <<issued, acked, before>>

\* A second goes by.
Tick ==
  /\ age < MaxAge
  /\ age' = age + 1
  /\ UNCHANGED <<dataVars, pc, job, loop, stopping, wants, owner, saveVars, disk, changes,
                 issued, ghostVars, due>>

-----------------------------------------------------------------------------
Command(c) == IssueSet(c) \/ IssuePush(c) \/ IssueSave(c) \/ IssueBgsave(c)

Writer(c) == Set(c) \/ GetOrCreate(c) \/ GetList(c) \/ Push(c) \/ IncrementChanges(c)

Saving == OpenDatabase \/ WriteKey \/ CloseDatabase \/ Finish \/ Rename

Next ==
  \/ \E c \in Clients : Command(c) \/ Writer(c)
  \/ LoopTick \/ LoopReset \/ LoopStops
  \/ Shutdown \/ Crash
  \/ \E s \in Savers : CreateTmp(s)
  \/ Saving \/ Fail
  \/ Tick

Spec == Init /\ [][Next]_vars

\* Goroutines run, and a mutex that is free again and again is obtained in
\* the end (sync.Mutex hands over to a waiter after a millisecond): one condition
\* for each goroutine, which waits in one place at a time.
FairSpec ==
  /\ Spec
  /\ \A c \in Clients : SF_vars(Writer(c) \/ CreateTmp(c))
  /\ \A s \in Background \cup {Closer} : SF_vars(CreateTmp(s))
  /\ SF_vars(LoopTick \/ CreateTmp(Loop) \/ LoopReset)
  /\ WF_vars(Saving \/ Fail)
  /\ WF_vars(Tick)

-----------------------------------------------------------------------------
(* What the snapshots guarantee.                                           *)

\* The snapshot file always loads: a crash or an error in the middle of a
\* save never leaves a partial file under its name (Save writes a temporary
\* file and renames it after Flush, Sync and Close).
DiskIsWhole == disk # << >> => Whole(disk)

\* The file is a consistent cut through all databases: a write is there with
\* all its keys, and with every write that was answered before it was issued.
\* The databases are walked one after the other, containers change while they
\* are walked, and a command that only looks its container up (LSET) is not kept
\* out by the walk's read lock; what orders such writes is that IncrementChanges
\* waits for r.mu before the reply.
SnapshotIsCut ==
  \A q \in InMemory \ OnDisk : \A p \in OnDisk : q[3] \notin before[p[3]] \cup {p[3]}

\* Memory and file together are a durable store: a save that succeeds has every
\* value in the file that was in memory and answered when it was called for, in
\* its own database and key, and everything earlier saves have stored; a crash,
\* an error or a shutdown at any step loses nothing that is in the file, and the
\* next process has exactly that in memory.  Saves are serialised by r.mu, and a
\* walk that goes on for many steps while containers change still acts as one.
Durable == INSTANCE DurableStore
             WITH Items <- Placed, Callers <- Savers,
                  mem <- InMemory, disk <- OnDisk, owed <- due

ActsAsDurableStore == Durable!Spec

\* Every command is answered: a write that waits for r.mu in IncrementChanges
\* and a SAVE that waits for another, while another connection goes on calling
\* SAVE, the snapshot loop tries again and again, and any of these saves fails.
CommandsReturn == \A c \in Clients : pc[c] # "idle" ~> pc[c] = "idle"

\* A save line does its work: when its count of changes is reached while the
\* snapshot loop is in its select, every write answered so far gets into the
\* file, unless the loop's own saves fail forever; a failed save leaves the
\* counters as they are, so the next tick tries again, and connections that keep
\* calling SAVE do not keep the loop out.  (A write answered between the loop's
\* Save and its reset of the counters is forgotten and not promised here: Save
\* gives r.mu back in between, rdb.go:137-146.)
TriggerFires ==
  <>[][~(owner = Loop /\ Fail)]_vars =>
  \A t \in Triggers, w \in 1 .. MaxWrites :
    w \in acked /\ loop = "select" /\ changes >= t.KeysChanged
      ~> \E p \in OnDisk : p[3] = w

=============================================================================
