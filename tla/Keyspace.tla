------------------------------ MODULE Keyspace ------------------------------
(***************************************************************************)
(* What the data commands do to one logical database when they run one     *)
(* after the other (pkg/commands), and what replayCommand (pkg/server)     *)
(* makes of the same commands when it reads them back from the append-only *)
(* file.  The two are separate pieces of Go that have to agree.            *)
(*                                                                         *)
(* A database has four maps and a map of deadlines; a key may be in        *)
(* several of the maps, no command looks at another's type.  A deadline is *)
(* "future" or "due".  A container that is empty is one that is not there: *)
(* run one after the other, the commands delete a container they emptied.  *)
(*                                                                         *)
(* db is the live database and copy the one a replay of the log written so *)
(* far would build: every command that processCommand logs is applied to   *)
(* copy by replayCommand.                                                  *)
(***************************************************************************)
EXTENDS ListOps, FiniteSets

CONSTANTS
  Keys, Fields,
  Numbers,   \* the integers values are taken from
  NotInt,    \* a value that is not an integer
  Nil,       \* no such map entry
  MaxHeld,   \* bound: keys in the maps of a database, one in two maps counted twice
  MaxLen,    \* bound: elements of a list
  MaxInt     \* bound: magnitude of an integer value

ASSUME KeyspaceAssumption ==
  /\ Numbers \subseteq -MaxInt .. MaxInt
  /\ MaxHeld \in Nat
  /\ MaxLen \in Nat
  /\ MaxInt \in Nat

Values   == Numbers \cup {NotInt}
Stored   == (-MaxInt .. MaxInt) \cup {NotInt}
NoFields == [f \in Fields |-> Nil]

VARIABLES
  db,      \* the live database
  copy,    \* the database replayed from the log
  excused  \* keys a TTL or a random pop may have set apart in the two databases

vars == <<db, copy, excused>>

Empty ==
  [Store   |-> [k \in Keys |-> Nil],
   Lists   |-> [k \in Keys |-> << >>],
   Sets    |-> [k \in Keys |-> {}],
   Hashes  |-> [k \in Keys |-> NoFields],
   Expires |-> [k \in Keys |-> "none"]]

\* A command: its name, keys, values (or fields), fields and number.
Call(name, ks, vs, fs, n) == [name |-> name, keys |-> ks, vals |-> vs, fields |-> fs, num |-> n]

\* What a handler leaves and replies; ok is false for an error reply.
Result(s, ok, n) == [db |-> s, ok |-> ok, num |-> n]

-----------------------------------------------------------------------------
(* database.go                                                             *)

\* The keys in K are taken out of every map.
EraseAll(s, K) ==
  [Store   |-> [k \in Keys |-> IF k \in K THEN Nil ELSE s.Store[k]],
   Lists   |-> [k \in Keys |-> IF k \in K THEN << >> ELSE s.Lists[k]],
   Sets    |-> [k \in Keys |-> IF k \in K THEN {} ELSE s.Sets[k]],
   Hashes  |-> [k \in Keys |-> IF k \in K THEN NoFields ELSE s.Hashes[k]],
   Expires |-> [k \in Keys |-> IF k \in K THEN "none" ELSE s.Expires[k]]]

Due(s) == {k \in Keys : s.Expires[k] = "due"}

expireIfNeeded(s, k) == EraseAll(s, {k} \cap Due(s))

\* SweepExpired, every 200 ms.
SweepExpired(s) == EraseAll(s, Due(s))

\* The maps k is in.
Types(s, k) ==
       (IF s.Store[k] # Nil THEN {"string"} ELSE {})
  \cup (IF s.Lists[k] # << >> THEN {"list"} ELSE {})
  \cup (IF s.Sets[k] # {} THEN {"set"} ELSE {})
  \cup (IF s.Hashes[k] # NoFields THEN {"hash"} ELSE {})

Exists(s, k) == Types(s, k) # {}

\* DeleteKey of each key in turn: what is expired is not counted, and a key
\* that is named twice is counted once.
DeleteKeys(s, K) ==
  Result(EraseAll(s, K), TRUE,
         Cardinality(UNION {{k} \X Types(expireIfNeeded(s, k), k) : k \in K}))

-----------------------------------------------------------------------------
(* The handlers.                                                           *)

\* g after g[xs[i]] = vs[i] for each i in turn: of two values for one x the
\* later one stays.
Updated(g, xs, vs) ==
  [x \in DOMAIN g |-> IF x \in ToSet(xs) THEN vs[Max({i \in DOMAIN xs : xs[i] = x})] ELSE g[x]]

\* SET and MSET: no lookup, the TTL is dropped.
mset(s, c) ==
  Result([s EXCEPT !.Store   = Updated(@, c.keys, c.vals),
                   !.Expires = [k \in Keys |-> IF k \in ToSet(c.keys) THEN "none" ELSE @[k]]],
         TRUE, 0)

del(s, c) == DeleteKeys(s, ToSet(c.keys))

\* INCR, DECR, INCRBY and DECRBY add c.num; the TTL stays.
increment(s, c) ==
  LET k == c.keys[1]
      t == expireIfNeeded(s, k)
      n == IF t.Store[k] = Nil THEN 0 ELSE t.Store[k]
  IN  IF n = NotInt THEN Result(t, FALSE, 0)
      ELSE Result([t EXCEPT !.Store[k] = n + c.num], TRUE, n + c.num)

\* GetOrCreateList(key).LPush / RPush.
push(s, c) ==
  LET k == c.keys[1]
      t == expireIfNeeded(s, k)
      items == IF c.name = "LPUSH" THEN LPush(t.Lists[k], c.vals) ELSE RPush(t.Lists[k], c.vals)
  IN  Result([t EXCEPT !.Lists[k] = items], TRUE, Len(items))

FromLeft(c) == c.name \in {"LPOP", "BLPOP"}

Popped(items, left) == IF left THEN LPop(items).rest ELSE RPop(items).rest

\* LPOP and RPOP, and BLPOP and BRPOP: the first of the keys that has data
\* (with none, the blocking ones time out and reply Null, which is no error).
pop(s, c) ==
  LET ks    == c.keys
      data  == {i \in DOMAIN ks : expireIfNeeded(s, ks[i]).Lists[ks[i]] # << >>}
      tried == IF data = {} THEN DOMAIN ks ELSE 1 .. Min(data)
      t     == EraseAll(s, {ks[i] : i \in tried} \cap Due(s))
  IN  IF data = {} THEN Result(t, TRUE, 0)
      ELSE Result([t EXCEPT !.Lists[ks[Min(data)]] = Popped(@, FromLeft(c))], TRUE, 1)

lset(s, c) ==
  LET k == c.keys[1]
      t == expireIfNeeded(s, k)
  IN  IF InRange(t.Lists[k], c.num)
        THEN Result([t EXCEPT !.Lists[k] = LSet(@, c.num, c.vals[1])], TRUE, 0)
        ELSE Result(t, FALSE, 0)

lrem(s, c) ==
  LET k == c.keys[1]
      t == expireIfNeeded(s, k)
      r == LRem(t.Lists[k], c.num, c.vals[1])
  IN  Result([t EXCEPT !.Lists[k] = r.items], TRUE, r.removed)

sadd(s, c) ==
  LET k == c.keys[1]
      t == expireIfNeeded(s, k)
  IN  Result([t EXCEPT !.Sets[k] = @ \cup ToSet(c.vals)],
             TRUE, Cardinality(ToSet(c.vals) \ t.Sets[k]))

srem(s, c) ==
  LET k == c.keys[1]
      t == expireIfNeeded(s, k)
  IN  Result([t EXCEPT !.Sets[k] = @ \ ToSet(c.vals)],
             TRUE, Cardinality(ToSet(c.vals) \cap t.Sets[k]))

\* HSET and HMSET.
hmset(s, c) ==
  LET k == c.keys[1]
      t == expireIfNeeded(s, k)
  IN  Result([t EXCEPT !.Hashes[k] = Updated(@, c.fields, c.vals)], TRUE, 0)

hdel(s, c) ==
  LET k == c.keys[1]
      t == expireIfNeeded(s, k)
  IN  Result([t EXCEPT !.Hashes[k] = [f \in Fields |-> IF f \in ToSet(c.fields) THEN Nil ELSE @[f]]],
             TRUE, Cardinality({f \in ToSet(c.fields) : t.Hashes[k][f] # Nil}))

hincrby(s, c) ==
  LET k == c.keys[1]
      f == c.fields[1]
      t == expireIfNeeded(s, k)
      n == IF t.Hashes[k][f] = Nil THEN 0 ELSE t.Hashes[k][f]
  IN  IF n = NotInt THEN Result(t, FALSE, 0)
      ELSE Result([t EXCEPT !.Hashes[k][f] = n + c.num], TRUE, n + c.num)

\* EXPIRE and PEXPIRE (a deadline that is not in the future passes with the
\* next Pass step); PERSIST looks at Expires only.
setExpire(s, c) ==
  LET k == c.keys[1]
      t == expireIfNeeded(s, k)
  IN  IF Exists(t, k) THEN Result([t EXCEPT !.Expires[k] = "future"], TRUE, 1)
                      ELSE Result(t, TRUE, 0)

persist(s, c) ==
  LET k == c.keys[1]
      t == expireIfNeeded(s, k)
  IN  Result([t EXCEPT !.Expires[k] = "none"], TRUE, IF t.Expires[k] = "none" THEN 0 ELSE 1)

Handle(s, c) ==
  CASE c.name \in {"SET", "MSET"}                     -> mset(s, c)
    [] c.name = "DEL"                                 -> del(s, c)
    [] c.name = "INCRBY"                              -> increment(s, c)
    [] c.name \in {"LPUSH", "RPUSH"}                  -> push(s, c)
    [] c.name \in {"LPOP", "RPOP", "BLPOP", "BRPOP"}  -> pop(s, c)
    [] c.name = "LSET"                                -> lset(s, c)
    [] c.name = "LREM"                                -> lrem(s, c)
    [] c.name = "SADD"                                -> sadd(s, c)
    [] c.name = "SREM"                                -> srem(s, c)
    [] c.name \in {"HSET", "HMSET"}                   -> hmset(s, c)
    [] c.name = "HDEL"                                -> hdel(s, c)
    [] c.name = "HINCRBY"                             -> hincrby(s, c)
    [] c.name = "EXPIRE"                              -> setExpire(s, c)
    [] c.name = "PERSIST"                             -> persist(s, c)

-----------------------------------------------------------------------------
(* replayCommand.                                                          *)

\* The table of commands that are logged.
shouldPersist(name) == name \notin {"EXPIRE", "PERSIST"}

\* Its own copy of increment, without the TTL check.
replayIncrement(s, k, amount) ==
  LET n == IF s.Store[k] = Nil THEN 0 ELSE s.Store[k]
  IN  IF n = NotInt THEN s ELSE [s EXCEPT !.Store[k] = n + amount]

\* Mutant: only the first key is tried.
replayFirstOnly(s, ks, left) ==
  [s EXCEPT !.Lists[ks[1]] = IF @ = << >> THEN @ ELSE Popped(@, left)]

\* A pop again, from the first key with data; the value is not in the log.
replayListPop(s, ks, left) ==
  LET withData == {i \in DOMAIN ks : s.Lists[ks[i]] # << >>}
  IN  IF withData = {} THEN s
      ELSE [s EXCEPT !.Lists[ks[Min(withData)]] = Popped(@, left)]

\* One case per command, each with its own lookup (which checks the TTL) and
\* its own call of the object's method; what the method returns is ignored.
\* SET and MSET write the maps themselves.
replayCommand(s, c) ==
  LET k == c.keys[1]
      f == c.fields[1]
      t == expireIfNeeded(s, k)
      n == IF t.Hashes[k][f] = Nil THEN 0 ELSE t.Hashes[k][f]
  IN
  CASE c.name \in {"SET", "MSET"} ->
         [s EXCEPT !.Store   = Updated(@, c.keys, c.vals),
                   !.Expires = [j \in Keys |-> IF j \in ToSet(c.keys) THEN "none" ELSE @[j]]]
    [] c.name = "DEL"      -> EraseAll(s, ToSet(c.keys))
    [] c.name = "INCRBY"   -> replayIncrement(s, k, c.num)
    [] c.name = "LPUSH"    -> [t EXCEPT !.Lists[k] = LPush(@, c.vals)]
    [] c.name = "RPUSH"    -> [t EXCEPT !.Lists[k] = RPush(@, c.vals)]
    [] c.name \in {"LPOP", "RPOP", "BLPOP", "BRPOP"} -> replayListPop(s, c.keys, FromLeft(c))
    [] c.name = "LSET" ->
         IF InRange(t.Lists[k], c.num) THEN [t EXCEPT !.Lists[k] = LSet(@, c.num, c.vals[1])] ELSE t
    [] c.name = "LREM"     -> [t EXCEPT !.Lists[k] = LRem(@, c.num, c.vals[1]).items]
    [] c.name = "SADD"     -> [t EXCEPT !.Sets[k] = @ \cup ToSet(c.vals)]
    [] c.name = "SREM"     -> [t EXCEPT !.Sets[k] = @ \ ToSet(c.vals)]
    [] c.name \in {"HSET", "HMSET"} -> [t EXCEPT !.Hashes[k] = Updated(@, c.fields, c.vals)]
    [] c.name = "HDEL" ->
         [t EXCEPT !.Hashes[k] = [g \in Fields |-> IF g \in ToSet(c.fields) THEN Nil ELSE @[g]]]
    [] c.name = "HINCRBY"  -> IF n = NotInt THEN t ELSE [t EXCEPT !.Hashes[k][f] = n + c.num]

-----------------------------------------------------------------------------
Init ==
  /\ db = Empty
  /\ copy = Empty
  /\ excused = {}

\* Within the bounds.
Fits(s) ==
  /\ SumFunction([k \in Keys |-> Cardinality(Types(s, k))]) <= MaxHeld
  /\ \A k \in Keys :
       /\ Len(s.Lists[k]) <= MaxLen
       /\ s.Store[k] \in Stored \cup {Nil}
       /\ \A f \in Fields : s.Hashes[k][f] \in Stored \cup {Nil}

\* The keys that are excused after a command: those that got a TTL, which is
\* not logged, and those that a pop tried together with an excused one; not
\* those that DEL has emptied on both sides.
Excused(c, n) ==
  LET ks == ToSet(c.keys) IN
  CASE c.name = "EXPIRE" /\ n = 1                                -> excused \cup ks
    [] c.name \in {"BLPOP", "BRPOP"} /\ ks \cap excused # {}     -> excused \cup ks
    [] c.name = "DEL"                                            -> excused \ ks
    [] OTHER                                                     -> excused

\* processCommand: run the handler, and log the command unless it failed.
processCommand(c) ==
  LET r == Handle(db, c) IN
  /\ db' = r.db
  /\ copy' = IF r.ok /\ shouldPersist(c.name) THEN replayCommand(copy, c) ELSE copy
  /\ excused' = Excused(c, r.num)
  /\ Fits(db')
  /\ Fits(copy')

Pairs(S) == {<<x>> : x \in S} \cup (S \X S)

Set     == \E k \in Keys, v \in Values : processCommand(Call("SET", <<k>>, <<v>>, << >>, 0))
MSet    == \E ks \in Keys \X Keys, vs \in Values \X Values :
             processCommand(Call("MSET", ks, vs, << >>, 0))
Del     == \E ks \in Pairs(Keys) : processCommand(Call("DEL", ks, << >>, << >>, 0))
IncrBy  == \E k \in Keys, n \in Numbers : processCommand(Call("INCRBY", <<k>>, << >>, << >>, n))
Push    == \E name \in {"LPUSH", "RPUSH"}, k \in Keys, vs \in Pairs(Values) :
             processCommand(Call(name, <<k>>, vs, << >>, 0))
Pop     == \E name \in {"LPOP", "RPOP"}, k \in Keys :
             processCommand(Call(name, <<k>>, << >>, << >>, 0))
BPop    == \E name \in {"BLPOP", "BRPOP"}, ks \in Pairs(Keys) :
             processCommand(Call(name, ks, << >>, << >>, 0))
LSetCmd == \E k \in Keys, n \in -MaxLen .. MaxLen, v \in Values :
             processCommand(Call("LSET", <<k>>, <<v>>, << >>, n))
LRemCmd == \E k \in Keys, n \in -1 .. 1, v \in Values :
             processCommand(Call("LREM", <<k>>, <<v>>, << >>, n))
SetAdd  == \E name \in {"SADD", "SREM"}, k \in Keys, vs \in Pairs(Values) :
             processCommand(Call(name, <<k>>, vs, << >>, 0))
HSet    == \E k \in Keys, f \in Fields, v \in Values :
             processCommand(Call("HSET", <<k>>, <<v>>, <<f>>, 0))
HMSet   == \E k \in Keys, fs \in Fields \X Fields, vs \in Values \X Values :
             processCommand(Call("HMSET", <<k>>, vs, fs, 0))
HDel    == \E k \in Keys, fs \in Pairs(Fields) :
             processCommand(Call("HDEL", <<k>>, << >>, fs, 0))
HIncrBy == \E k \in Keys, f \in Fields, n \in Numbers :
             processCommand(Call("HINCRBY", <<k>>, << >>, <<f>>, n))
Expire  == \E name \in {"EXPIRE", "PERSIST"}, k \in Keys :
             processCommand(Call(name, <<k>>, << >>, << >>, 0))

\* SPOP takes any member, and so does its replay.
SPop ==
  /\ \E k \in Keys :
       LET t == expireIfNeeded(db, k) IN
       /\ excused' = excused \cup {k}
       /\ IF t.Sets[k] = {} THEN db' = t
          ELSE \E m \in t.Sets[k] : db' = [t EXCEPT !.Sets[k] = @ \ {m}]
       /\ IF copy.Sets[k] = {} THEN copy' = copy
          ELSE \E m \in copy.Sets[k] : copy' = [copy EXCEPT !.Sets[k] = @ \ {m}]

\* A deadline passes.
Pass ==
  /\ \E k \in Keys :
       /\ db.Expires[k] = "future"
       /\ db' = [db EXCEPT !.Expires[k] = "due"]
  /\ UNCHANGED <<copy, excused>>

\* A tick of expiryLoop.
Sweep ==
  /\ db' = SweepExpired(db)
  /\ UNCHANGED <<copy, excused>>

Next ==
  \/ Set \/ MSet \/ Del \/ IncrBy
  \/ Push \/ Pop \/ BPop \/ LSetCmd \/ LRemCmd
  \/ SetAdd \/ SPop
  \/ HSet \/ HMSet \/ HDel \/ HIncrBy
  \/ Expire \/ Pass \/ Sweep

Spec == Init /\ [][Next]_vars

-----------------------------------------------------------------------------
\* Key k holds the same in both databases.
Same(s, t, k) ==
  /\ s.Store[k] = t.Store[k]
  /\ s.Lists[k] = t.Lists[k]
  /\ s.Sets[k] = t.Sets[k]
  /\ s.Hashes[k] = t.Hashes[k]

\* A restart brings back what was there: replaying the log with replayCommand
\* gives every key exactly the value the handlers gave it, unless it has had
\* a TTL or an SPOP, or shared a blocking pop with such a key, since it was
\* last deleted (commands one after the other; failed ones not logged).
ReplayRestores == \A k \in Keys \ excused : Same(db, copy, k)

=============================================================================
