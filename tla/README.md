# ShoreDB in TLA+

A verification project for ShoreDB, a Redis-compatible key-value server in Go
with 16 logical databases, RDB snapshots, an append-only file, blocking list
pops and publish/subscribe. The modules model the code under `pkg/`; source
paths below are relative to the repository.

    tlc -workers 2 -config ListStorePops.cfg MCListStore
    tlapm ListStoreProofs.tla

`PROJECT.json` lists every run with its module and configuration, the source
lines behind every definition, the hazards and which property is aimed at each.

## The system

Each connection has a goroutine (`server/tcp.go`, `handleConnection`) that reads
a command, runs its handler and writes the reply. Everything else is shared:

| Component | State | Operations | Interacts with |
|---|---|---|---|
| List, Set, Hash (`datastruct`) | items under the object's own mutex | LPush, LPop, LRem, SAdd, HSet, ... | handlers hold pointers to them |
| Database (`commands/database.go`) | `Store`, `Lists`, `Sets`, `Hashes`, `Expires` under `db.Mu`; `listCond` under `listMu` | lookups, DeleteKey, expireIfNeeded, SweepExpired, signalListPush, waitForListSignal | handlers, RDB walk, expiry loop |
| Handlers (`commands/*_commands.go`) | none | one per command | databases, RDB, broker |
| Broker (`pubsub`) | `subs` under `p.mu`, a buffered Go channel per subscription | Subscribe, Unsubscribe, Publish | connections, delivery goroutines |
| RDB (`persistence/rdb.go`) | `lastSave`, `changes` under `r.mu`; the snapshot file | Save, Load, snapshotLoop, IncrementChanges, Close | walks every database; every write counts a change |
| AOF (`persistence/aof.go`) | `lastDB` and the file under `aof.mutex` | Write, Read, Close, syncLoop | `processCommand` appends, `New` replays |
| Server (`server/server.go`) | | New, expiryLoop, Shutdown | all of the above |
| Embedded client (`shoredis`) | current database, a shared RDB | the handlers, without log or change count | databases, RDB |

What is hard here:

- *Many small critical sections.* A list command takes `db.Mu` to look its list
  up, the list's mutex to change it, that mutex again to look at the length and
  `db.Mu` again to unlink the key. Nothing holds them together.
- *A condition variable* shared by all keys of a database, with a timer per wait.
- *A walk during writes*: Save holds a database's mutex, containers change under
  their own.
- *Two records of one history*: memory and the log are changed in separate
  sections, and replay is code of its own that has to agree with the handlers.
- *Deadlines*: found passed under one lock, acted on under another, by readers,
  writers and the sweep alike.
- *Nested locks*: SINTER, SUNION and SDIFF read-lock one set inside another.
- *Crashes*: a save cut short, a log entry cut short, a shutdown while clients
  are served.

For each component, the properties that make it correct are in the tables below.

## Modules

| Module | Models | State and actions |
|---|---|---|
| `GoInt` | Go's ints | a range and its wrap-around |
| `ListOps` | `datastruct.List` | one operator per method, on sequences |
| `ListObject` | the same, driven | one list, every sequence of methods |
| `LengthCodec` | `writeLength`, `readLength` | operators on sequences of bytes |
| `IntText` | `parseInt`, `intToString`, `HIncrBy` | operators on texts of digits, ints of a given range |
| `CommandTable` | `commandSpecs`, COMMAND GETKEYS, the handlers' argument checks | the table and two readings of it |
| `Objects` | drives the four above | a list, a hash field, a number |
| `ListStore` (+ `MCListStore`) | list commands under concurrency | one action per lock section |
| `PubSub` (+ `MCPubSub`) | broker and connections | one action per argument, offered subscriber, receive and write |
| `SetLocks` | the mutexes of Set objects | one action per lock taken |
| `Expiry` | deadlines under concurrency | one action per lock section |
| `DurableStore` | what snapshots promise | a store and its copy; a save is one step |
| `Rdb` (+ `MCRdb`) | snapshots under concurrent writers | one action per section of a writer and per key of the walk |
| `Keyspace` (+ `MCKeyspace`) | all data commands in sequence, and their replay | a live database and the one a replay builds |
| `Aof` (+ `MCAof`) | the log, SELECT and processCommand | one action per element written |
| `ListStoreProofs`, `PubSubProofs`, `ExpiryProofs`, `RdbProofs`, `KeyspaceProofs`, `AofProofs`, `ObjectsProofs` | | theorems about the module of that name |
| `Extrema` | | least and greatest elements, induction and recursion on natural numbers, for the proofs |

`ListOps` is used by `ListObject`, `ListStore` and `Keyspace`, so the list
arithmetic is written once; `ListOps` and `IntText` take their ints from `GoInt`.
`Rdb` implements `DurableStore`
(`ActsAsDurableStore`).

### ListStore

`heap[k]` is the sequence of List objects ever created for key `k`, `Lists[k]`
the index of the one in `db.Lists`, `ref[c]` the pointer a handler holds, which
may be to an unlinked object. `pc[c]` is the lock section a connection comes to
next. An element is numbered by its push, so it is known which push it is from.
A handler runs through

    push:  GetOrCreateList -> Push -> SignalListPush
    pop:   GetList -> Pop | Rem -> CheckLen -> Unlink
    block: the same over its keys, then CheckDeadline -> WaitForListSignal
           -> (parked) -> WaitReturns -> first key again
    DEL:   DeleteKey for one key after the other

`WaitForListSignal` is one step because the code holds `listMu` from the time it
looks at the clock until `Cond.Wait` gives it back. Time is a three-valued clock
per deadline (`before`, `at`, `after`): the code compares once with `<= 0` and
once with a strict `After`, and the instant `at` tells them apart. A fired timer
is a goroutine of its own (`callbacks`) that `timer.Stop()` no longer reaches.
Keys here have no TTL. `popped`, `acked`, `ahead` and `unseen` are history for
the properties.

### PubSub

Go channels are numbered in the order they are made. `Readers` are the
publishers that hold `p.mu`; Subscribe and Unsubscribe wait for them. A receive
from a Go channel takes no lock. `own[c]` is the connection's `subs` map,
`subs` the broker's. The buffer is a constant (16 in the code, 1 in the runs, so
that it is full). That a waiting writer holds back new readers (Go's RWMutex) is
not modelled as state; the fair specification assumes its effect.

### SetLocks

A command holds the sets it looked up; what it takes afterwards are the mutexes
of those objects. `pending[s]` is the writer that has announced itself to the
RWMutex of `s`: from then on no reader is admitted (`MayRLock`), and the writer
waits for the readers inside (`MayLock`). A combining command enters its first
set and then makes `InnerCalls` calls on the last one, each with a read lock of
its own, as many as SInter, SUnion and SDiff make at most.

### Expiry

`entries` are the places in the maps that hold something ("Lists" stands for
lists, sets and hashes), `Expires[k]` is no deadline, one ahead or one past. Every
command but SET and MSET goes through `expireIfNeeded`: a look at the deadline
(`Write`, `CheckDeadline`), the deletion (`Evict`), and only then its own section.
`doom` is a key between the two. KEYS, SCAN, DBSIZE and the expiry loop collect
the due keys under one read lock and then call expireIfNeeded for each
(`Collect`, `CheckDeadline`, `Evict`). MGET of one key stands for every lookup of
one key.

`mortal` and `stale` are history. An entry is mortal once its deadline has come
since a command last settled how long it lives; one that is settled while a
deletion of its key is under way is mortal too, because expireIfNeeded does not
look again. That is what the code does to an answered SET, INCR or EXPIRE in that
window, and `EvictsOnlyDue` says that it is all it does.

### Objects

`Objects` drives one of three things at a time: a list, a hash field, and a number
that is a length or a count of arguments. The references are independent of the
code's way: positions for lists, "read back what was written, and nothing of a
truncated prefix" for lengths, the replied value for counters, the arguments a
handler looks up for GETKEYS. A byte has `Base` values, and the ints go
from `-Half` to `Half - 1` and wrap around there (`GoInt`), so that all forms of a
length and both ends of the int range are within reach, as HINCRBY's increment and as
LREM's count; the boundaries are multiples of `Base`
as they are in the code. The loops of LREM, parseInt and intToString are recursive
functions on positions and numbers.

### Rdb

This is a server without an append-only file, so a start loads the snapshot. A
value is the set of writes that made it; commands that remove data are left out,
since the properties are about what must not be lost. A string write is one
section under `db.Mu`; a container write looks the container up under `db.Mu`
and changes it under its own mutex only; LSET looks it up under a read lock, which
a walk does not keep out (`GetList`). The first process may find a file (`Stored`). `Save` goes from `CreateTmp` through
`OpenDatabase`, `WriteKey` and `CloseDatabase` to `Finish` and `Rename`, with
`r.mu` held; `Fail` is an error of any of the file operations (errWriter keeps
the first error of the walk and Save looks at it at the end), and `Crash` may
come at any step. The end of Close's Save and the exit of the process are one step; an
exit that takes longer is a SAVE followed by a `Crash`. The file is a sequence of records; its lengths are in
`LengthCodec`. Database indices that `dbAt` does not know do not occur.

`DurableStore` says what this amounts to: a store `mem`, a copy `disk`, and per
caller what it is owed. A save is one step that makes the copy something between
the old copy with what its caller is owed, and memory; a start has exactly the
copy in memory. The mapping takes `mem` and `disk` to the sets of values placed in
memory and in the file as Load would read it, and `owed` to `due`, what was
answered and in memory when the save was called for. The walk is many steps; the
step that maps to Save is the rename.

`SnapshotIsCut` is about all databases at once: a write is in the file with all its
keys and with every write that was answered before it was issued, in whichever
database. It does not follow from the walk's locks alone: two LSETs of one
connection to two lists, the first already walked and the second not, would be in
the file the later without the earlier. It holds because the server answers the
first only after IncrementChanges got `r.mu`, which Save holds to its end; the
mutant of this property is a change counter that does without.

### Keyspace

Commands run one after the other and each is one step. `db` is the live
database; `copy` is what `replayCommand` would build from the log so far,
updated with each logged command. A container that is empty is one that is
absent, which is exact when commands do not overlap. INCR, DECR and DECRBY are
INCRBY with another amount; PEXPIRE is EXPIRE. Values are small integers or
`NotInt`, a string that is not one; the two integer parsers are not modelled
character by character. A deadline is `future` or `due`. The loops over several
keys or fields (MSET, HMSET, DEL, the keys of a blocking pop) are given by what they
leave: of two values for one key the later, of several keys the first with data.

`replayCommand` has one case per case of the Go switch, written from that switch and
not from the handlers. For most commands the two call the same methods and the
comparison confirms just that; INCRBY and the pops have Go code of their own
(`replayIncrement`, `replayListPop`), and SET and MSET write the maps themselves.

### Aof

`resp.Writer` flushes after each element of an array, and the array's header
goes out with its first element, so the file grows element by element. The file is
a sequence of entries; an entry is a SELECT marker of two elements or a command of
any of the `Sizes`, and `got` says how many of its elements have been written. Only
the last entry of a process can lack some. Elements larger than the 4096-byte buffer
would be written in several pieces; they are left out. `selected[c]` is a
connection's database, and `Select` is given indices on both sides of the range.

The parser takes whatever value comes next for a missing element, an array included.
`Reading` goes through the entries and keeps in `wanted` how many values all open
arrays still want: an entry met while some are wanted is one of them and adds what it
lacks itself; one met while none are begins a value. A command completed with other
entries is executed as another command, number 0. So behind an entry that lacks m
elements the next process's first SELECT marker and its next m - 1 entries are not
replayed; `owed` counts those m - 1.

`Kill` is a stop anywhere with the start of the next process: the page cache
stays. `PowerLoss` keeps what the last `Sync` covered and any prefix of the rest
(a cut inside an element, and blocks that reach the disk out of order, are left
out). `Close` and `Exit` are the graceful shutdown with connections served in
between. What the properties have to leave out is remembered by name: `torn` (a
process started behind part of an entry), `owed` (how many entries behind a marker
such entries can swallow), `refused` (the append failed), `lost`
(taken by a loss of power) and `raced` (a database on which a command was executed
between the execution and the append of another).

## Runs

Passing runs; each property has a mutant of the code that breaks it.

| Run | Properties | What it shows |
|---|---|---|
| `objects` | LRangeCorrect, LSetReadByLIndex, LRemCorrect, PushedValuesComeOff, LengthRoundTrip, GetKeysAgrees, CounterIsKept | list methods, length encoding, counter text and GETKEYS agree with definitions that do not share their code |
| `list_pops` | TypeOK, EmptyListHasOwner, NoPushMissedWhileParked, NoElementTwice, NotOvertaken, UnlinkedStaysUnlinked | racing push, LPOP, BLPOP, LREM and DEL; a parked pop is woken by every later push |
| `list_live` | CommandsReturn | every command but a pop without deadline returns |
| `pubsub` | TypeOK, RegistryExact, NoSendOnClosed, CountIsExact, PublishReturns, AllWritten, CleanupEnds | registry, closed channels and PUBLISH's count; PUBLISH and the cleanup end though nobody reads; accepted messages get written if clients read |
| `rdb_safety` | TypeOK, DiskIsWhole, SnapshotIsCut, ActsAsDurableStore | crash, I/O error and shutdown at any step; the refinement of `DurableStore` |
| `rdb_live` | CommandsReturn, TriggerFires | two connections that keep writing and calling SAVE, the snapshot loop, and saves that fail: commands return, and a save line that applies gets every answered write into the file unless the loop's own saves fail for ever |
| `keyspace` | ReplayRestores | replay rebuilds every key that no TTL or SPOP has touched |
| `aof` | TypeOK, AckedIsReplayed, SyncedSurvives, LogInRealTimeOrder, SerialIsRestored, ReplayOnlyGrows | kills inside entries, losses of power, shutdowns; no connection gets to a database that does not exist |
| `expiry` | TypeOK, EvictsOnlyDue, ReadsNothingExpired, SweepCatchesAll | a sweep, a reader and a writer in every interleaving of check and deletion; the sweep alone clears every passed deadline |

Runs in which the code does not do what a document says (expected violations;
`PROJECT.json` quotes the line of the document):

| Run | What happens |
|---|---|
| `list_lost_push` | a pop unlinks the key after a push got into its list |
| `list_lost_wakeup` | a push between the last look and the wait wakes nobody |
| `set_deadlock` | SADD or SPOP of s between the two read locks of SUNION s s: both wait for ever (a SINTER of s alone does the same). The lock stays held, so every later command on that set, and a Save that comes to it, waits as well |

Other places where the code and its documents differ, met while modelling. The
models do what the code does; no run is about them, and the properties named
here leave them out:

- SUBSCRIBE to a channel already subscribed is not confirmed (`tcp.go:173`;
  `commands-pubsub.md:25` says every channel is).
- A change counted between the snapshot loop's Save and its reset is forgotten
  and triggers no save (`rdb.go:138`; `configuration.md:52`). `TriggerFires`
  starts from states in which the loop is in its select; without that conjunct TLC
  finds the loss.
- SAVE and BGSAVE do not update what LASTSAVE reports (`string_commands.go:140`;
  `commands-persistence.md:35`).
- Every write waits for `r.mu` in IncrementChanges while any database is walked
  (`rdb.go:117`; `commands-persistence.md:39` says other databases do not stall).
- A replayed SPOP may take another member (`tcp.go:416`; `configuration.md:45`).
  `ReplayRestores` leaves such a key out until it is deleted, as it does a key
  that has had a TTL (a documented limitation) and keys that were tried by one
  blocking pop together with such a key.
- PERSIST replies 1 for a missing key whose TTL was left behind when its list,
  set or hash became empty (`expire_commands.go:111`;
  `commands-expiration.md:55`).
- DEL counts a key once for each map it is in (`database.go:314`;
  `commands-strings.md:33`).
- What is answered between the look at a passed deadline and the deletion (a SET
  or INCR of the key, an EXPIRE or PERSIST) is deleted with the rest
  (`database.go:201`). `mortal` in `Expiry` includes such entries.
- A log entry left half written by a kill takes what the next process appends for the
  elements it lacks (`parser.go:142`, `aof.go:126`; `architecture.md:46`, "Replaying the
  log re-applies each command against the right database"). With one element missing,
  that is the process's SELECT marker (`lastDB` is -1, so it begins with one), and the
  commands behind it go to another database. With m missing (SET, LPUSH, HSET and
  MSET have three elements or more), the next m - 1 entries, answered commands
  among them, are swallowed as well and are never replayed, synced or not; the torn
  command is executed with arrays for arguments, whose `Str` is "". `AckedIsReplayed` and
  `SyncedSurvives` allow for the loss of that many (`owed`) and no more, and are about a
  command's own database in files in which no process has found half an entry (`torn`).
- LREM with the smallest integer for its count removes nothing: its negation stays
  negative (`datastruct.go:156`; `commands-lists.md:102`, "remove up to `abs(count)`
  occurrences"). `LRemCorrect` has it so.
- Two overlapping commands on one database can be logged in the other order than
  they were executed, so a restart gives the key the other value (`tcp.go:243`;
  `README.md:103`). `SerialIsRestored` is about databases without such a pair.
- Shutdown closes the log without a sync (`aof.go:85`).
- HINCRBY that arrives at the smallest integer stores "-", which counts as 0 from
  then on (`datastruct.go:483`). `CounterIsKept` leaves that integer out.
- Close of a client made with `shoredis.New` returns nil (`shoredis.go:103`;
  `embedding.md:95` says it is an error), and Close of two clients that share one RDB
  closes a channel twice (`rdb.go:511`).
- SET on an expired list, set or hash drops the deadline and keeps the container
  (`string_commands.go:27`; `commands-expiration.md:11`).
- Commands answered after a shutdown closed the log are not in it
  (`server.go:110`; `quickstart.md:91`). `AckedIsReplayed` leaves out the
  commands whose append failed.

### Bounds

Every bound is a constant. In the list runs three connections (two with fairness) are enough for a
pair that races and a third that comes in between (the lost push needs two
pushes and a pop); two elements make a list that is emptied and filled again;
`list_live` has two keys and key pairs, for the order in which they are tried.
In `pubsub` a buffer of one is full with two messages, and two connections with
two channels make two subscriptions of one name or of one connection.
`rdb_safety` has two databases so that markers matter, a string, two containers
that are in the file from the start, so that one can be walked before and one after
a write, and two writes, enough for both to fall into one walk or for one to come
before a save; the snapshot loop's own calls are left to
`rdb_live`, which has two connections, a BGSAVE, one string and two writes, and I/O
errors; the number of SAVEs is not bounded. `keyspace` issues every command on two keys;
`MaxHeld` bounds how many keys the maps of a database hold at once, so that a
key can be in two maps or two keys in one. `aof` has three commands
of three elements, enough for an entry that lacks two, the answered command that is
swallowed behind the marker, and one after it. `expiry` has two keys,
so that a sweep's list gets old and an MGET checks one key while the other
changes, and one goroutine of each kind: two writers would only add pairs whose
sections the reader and the sweep already separate. `objects` has lists of four
over three values with indices from -5 to 5, bytes of eight values with lengths
past the last one that four bytes hold, ints from -64 to 63, and up to eight
arguments. `set_deadlock` needs two connections; it has two sets for the
two-set form. Connections (and the
keys that no command tells apart) are a symmetry set in runs without liveness
properties.

Deadlock is checked except in the runs of `ListStore` with blocking pops, where
all connections may wait in pops with timeout 0, in `pubsub`, where all
connections may have hung up, and in `set_deadlock`, which is about a liveness
property that the deadlock violates.

### Fairness

- `ListStore`: weak fairness of each handler step, of time and of timers: the
  Go scheduler runs every goroutine, and the sections have no other guard than a
  mutex that each holder gives back. Nobody has to send a command.
- `PubSub`: publishers are scheduled, and the cleanup of a connection gets
  `p.mu` in the end (strong fairness: the lock gives a waiting writer precedence
  over new readers). Clients need not read: no fairness of delivery is assumed,
  except by `AllWritten`, whose premise `ClientsRead` states it.
- `Expiry`: weak fairness of the ticker and of the expiry loop's goroutine; the
  sections under `db.Mu` are short, and nobody else has to do anything.
- `SetLocks`: strong fairness of every step, more than Go promises, so that the
  violation is not one of scheduling.
- `Rdb`: strong fairness of whoever waits for a mutex (a Go mutex is handed to a
  waiter that has waited for a millisecond) and weak fairness of the save in
  progress and of time.

## Proofs

TLAPS proves the following for every value of the constants that meets the
modules' assumptions: any number of connections, keys, databases, messages and
writes. The assumptions say that bounds are numbers, that the sets a model takes apart
are disjoint, and that what a file holds at the start is finite.

**List commands** (`ListStoreProofs`)

- `TypeCorrect`: TypeOK contains that no entry of `db.Lists` dangles and that a
  handler's pointer and key index are good wherever they are used; with that it is
  inductive. `WellFormedKept` says that handlers which are not stepping stay well
  formed because List objects never disappear.
- `NoEmptyListLeftBehind` (EmptyListHasOwner): only a pop or an LREM empties a list,
  and it is then at `len`, which makes it an owner; from `len` it goes to `unlink`
  exactly if the list is still empty; a list created empty is owned by the push
  that created it.
- `NoElementReturnedTwice` (NoElementTwice): inductive as `OnceInv`, which adds the
  elements a push has yet to put in (`PendingIsNew`): they are in no list, taken
  by no pop and in the hands of one push. Without it nothing says that a push
  does not repeat an element.
- `NoListComesBack` (UnlinkedStaysUnlinked), an action property: a step that changes
  an entry of `db.Lists` removes it or enters a list that did not exist.
- `ParkedMissesNothing` (NoPushMissedWhileParked), from `OnceInv`: a push
  into a list that a parked pop waits for stands at `signal` afterwards, and the
  broadcast that takes it from there unparks everyone.
- `PopsInOrder` (NotOvertaken), for configurations without LPUSH, RPOP and BRPOP
  (`HeadPopsOnly`, as in `list_pops`): `OrderInv` says where an element is while one
  that was ahead of it can still be found: in the same list object behind it, or
  in the hands of a push that has that object, or removed. The step that needs
  this is a push through a pointer to a list that has been unlinked.

**Broker** (`PubSubProofs`)

- `RegistryIsExact`, `PublishIsSafe` (RegistryExact, NoSendOnClosed): strengthened by
  the bound on channel numbers (a new Go channel is nowhere yet) and by
  `TodoRegistered`: what a publisher has yet to offer is registered. The last is
  where the lock matters: it would fail if Unsubscribe did not wait for readers.
- `TypeCorrect`, `CountIsTakers` (TypeOK, CountIsExact): `DeliveryInv` adds that a
  message under way is its publisher's alone, that no subscriber who has yet to be
  offered it has taken it (`OfferedOnce`, without which a count could be one short), and
  that what a subscriber took is what was written to it, then what its goroutine
  holds, then its buffer (`StreamsAreWhole`).

**Deadlines** (`ExpiryProofs`)

- `TypeCorrect`, `EvictionIsDue` (EvictsOnlyDue), `LookupsSeeNothingExpired`
  (ReadsNothingExpired). `ExpiryInv` adds that whatever is past its deadline is
  mortal, and for lookups that a value found due on arrival is still due
  (`StaleIsDue`) and its key still to be checked or deleted (`StaleIsAhead`).
  ReadsNothingExpired is that statement when nothing is left to check.

**Snapshots** (`RdbProofs`)

- `TypeCorrect`, `FileAlwaysLoads` (DiskIsWhole), `FileIsCut` (SnapshotIsCut).
  `RdbInv` describes the temporary file at each stage (`TmpShape`), what of memory
  must be in it already (`WalkedIsWritten`: what was answered, what earlier saves
  stored, and the strings of the database that is locked) and that a write
  is there with all its keys the walk has come past (`WritesAreWhole`). That answered
  writes are among the first is where `r.mu` comes in: nothing is answered
  while a save holds it.
- `ImplementsDurableStore` (ActsAsDurableStore): initial states map to initial
  states, the rename maps to Save, a call for a save to the abstract call, a crash
  to a restart from the copy, a write that takes effect to a write, and every
  other step to a stutter. Save's obligation is WalkedIsWritten at the end of the walk.

**Log** (`AofProofs`)

- `TypeCorrect`, `AnswersAreReplayed` (AckedIsReplayed), `SyncIsEnough`
  (SyncedSurvives), `ReplayInRealTimeOrder` (LogInRealTimeOrder), for commands of any
  number of elements. `Reading` is a recursive function along the file; `ReadingRuns`
  unfolds it, and files that agree up to a position are read alike up to there
  (`ReadingSame`). `AofInv` says what the holder of the mutex has yet to write
  (`PendingIsRest`), that a command is in the log once and answered after that
  (`CommandsAreNew`), and that what was answered before a sync is in the synced part
  (`KeptIsSynced`). `LossIsOwed` is the strengthening that bounds the loss: the
  answered commands that are not replayed, and the values that the open arrays at the end
  of the file still want, are together no more than `owed`. Each entry that is appended
  behind open arrays moves one from the second number to the first; a marker
  moves none, which is why the first entry of a process has to be one.
- `ReplayIsStable` (ReplayOnlyGrows), an action property, from the same invariant and
  `ReadingSame`.
- `SerialDatabaseIsRestored` (SerialIsRestored): `MemoryFollowsLog` says how far memory
  may be ahead of the log in between: by the one command that is executed and not
  in line for the log.

**Algorithms** (`ObjectsProofs`)

- `LengthsRoundTrip` (LengthRoundTrip): for every base divisible by four and every
  number. Quotients and remainders are unique (`DivUnique`), so each of the three
  forms is read back, and which form it is can be told from the first byte.
- `KeysAreThoseUsed` (GetKeysAgrees): for any number of arguments. No name is in two
  rows, so the row found is the right one; then one case per row.
- `RangeIsExact`, `SetIsReadBack`, `PushesAreUndone` (LRangeCorrect, LSetReadByLIndex,
  PushedValuesComeOff): for lists of any length. Each is a fact about any
  sequence of values, and `ListTyped` says that no method, LREM included, makes
  anything else of the list.
- `RemovalIsExact` (LRemCorrect), for every int: `RemLoopCorrect` is the loop's invariant. After p
  items the dropped ones are the occurrences whose rank among all occurrences
  is at most the limit, and the kept ones stand in their order; ranks grow by one at
  an occurrence and stay otherwise (`RankSteps`). A negative count runs
  the same loop on the reversed list, and `MirrorRank` turns ranks from the head
  into ranks from the tail. The limit of the smallest int is negative, and no rank
  is that small.
- `CounterKept` (CounterIsKept), an action property, for ints of any range `Half`: a
  number is ten times its quotient plus its last digit, so that parseInt's loop over
  the digits of intToString gives it back and never wraps on the way
  (`DigitsReadBack`); the sign is undone by a second negation for every int but the
  smallest (`WrapMinus`); the smallest has no digits and every other int some, so
  no two ints share a text. The invariant (`FieldTyped`) is that a field is a sign
  with decimal digits, or no number.

**Replay** (`KeyspaceProofs`)

- `ReplayIsFaithful` (ReplayRestores). ReplayRestores alone is not inductive: a key with
  a deadline would be erased in the live database and not in the replayed one. `KInv`
  adds that a key that is not excused has no deadline in the live database and
  that the replayed one has none at all. A command touches its own keys only
  (`Local`), expireIfNeeded leaves a key without a deadline alone (`Fetched`), and so
  both sides apply the same function to the same entry; there is one lemma per
  handler. `ReplayDispatch` compares replayCommand with the handlers case by case. The
  two cases that differ are `IncrementInStep` and `PopInStep`: a pop over several keys takes the same first key with data
  on both sides if none of them is excused, and if one is, all of them are afterwards.

The library's induction theorems take an operator for the predicate, which the
installed provers cannot instantiate. `Extrema` has induction and the existence
of recursive functions with a set in that place (`InductionSet`, `RecursionExists`),
derived from the well-foundedness of the natural numbers; the loops above are proved
with these.

Only model-checked are the liveness properties (CommandsReturn, PublishReturns,
AllWritten, CleanupEnds, TriggerFires, SweepCatchesAll): fairness and ENABLED are
outside the prover. Every other property of a passing run is a theorem.

## Not modelled

- The RESP parser and the configuration file at the level of characters, glob
  patterns, HELLO and the formatting subcommands of COMMAND: no state, no order.
- AUTH: one comparison of strings that sets a flag of the connection.
- The embedded client `shoredis`: a typed facade over the handlers that are
  modelled. Where it differs from the server (no change count, no wait for `r.mu`
  before a call returns, several clients on one RDB) is in the list of hazards.
- The amount of an EXPIRE, and with it the overflow of its multiplication; the
  instant at which clock and deadline are equal, where expireIfNeeded and
  SweepExpired differ.
- Hash readers under concurrency; writes to sockets that fail (in `PubSub` such a write
  counts as written).
- Commands of different kinds logged by overlapping connections: `Keyspace` knows
  the commands and runs them in sequence, `Aof` interleaves them and does not tell
  them apart.
- The documentation site.

Hazards that no property covers are listed in `PROJECT.json` with the reason.

## Plan

Done, in this order: list commands under concurrency and their first theorems; the
broker; snapshots; the sequential commands and their replay; the log; deadlines
under concurrency; set locks; the codecs and the command table; losses of power
and SELECT in the log; the durable store and its refinement.

Every safety and action property of the passing runs and the refinement of
`DurableStore` are proved.

Left, if the project grows: commands of different kinds logged by overlapping
connections (a composition of `Keyspace` and `Aof`), hash readers under
concurrency, and the embedded client.
