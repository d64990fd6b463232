---------------------------- MODULE CommandTable ----------------------------
(***************************************************************************)
(* commandSpecs, the table behind COMMAND, and COMMAND GETKEYS             *)
(* (pkg/commands/admin_commands.go), next to what the handlers do with     *)
(* their arguments.  Both are kept by hand.  Commands without keys are     *)
(* left out; GETKEYS refuses them.                                         *)
(***************************************************************************)
EXTENDS Integers

\* arity counts the name, and is a minimum when negative; positions of keys
\* count from 1, from the end when negative.
Row(names, arity, firstKey, lastKey, step) ==
  [names |-> names, arity |-> arity, firstKey |-> firstKey, lastKey |-> lastKey, step |-> step]

commandSpecs ==
  {Row({"GET", "TYPE", "INCR", "DECR", "LPOP", "RPOP", "LLEN", "SMEMBERS", "SCARD", "SPOP",
        "HGETALL", "HKEYS", "HVALS", "HLEN", "TTL", "PTTL", "PERSIST"}, 2, 1, 1, 1),
   Row({"SET", "INCRBY", "DECRBY", "LINDEX", "SISMEMBER", "HGET", "HEXISTS",
        "EXPIRE", "PEXPIRE"}, 3, 1, 1, 1),
   Row({"LRANGE", "LSET", "LREM", "HSET", "HINCRBY"}, 4, 1, 1, 1),
   Row({"LPUSH", "RPUSH", "SADD", "SREM", "HDEL", "HMGET"}, -3, 1, 1, 1),
   Row({"HMSET"}, -4, 1, 1, 1),
   Row({"DEL", "EXISTS", "MGET", "SINTER", "SUNION", "SDIFF"}, -2, 1, -1, 1),
   Row({"MSET"}, -3, 1, -1, 2),
   Row({"BLPOP", "BRPOP"}, -3, 1, -2, 1)}

KeyCommands == UNION {row.names : row \in commandSpecs}

findCommandSpec(name) == CHOOSE row \in commandSpecs : name \in row.names

AdmitsArgs(spec, n) == IF spec.arity > 0 THEN n + 1 = spec.arity ELSE n + 1 >= -spec.arity

\* Mutant: a position from the end is one too far to the left.
lastPositionShort(spec, n) ==
  LET last == IF spec.lastKey < 0 THEN n + spec.lastKey ELSE spec.lastKey
  IN  IF last <= spec.firstKey THEN spec.firstKey ELSE last

lastPosition(spec, n) ==
  LET last == IF spec.lastKey < 0 THEN n + spec.lastKey + 1 ELSE spec.lastKey
  IN  IF last <= spec.firstKey THEN spec.firstKey ELSE last

\* COMMAND GETKEYS name followed by n arguments: the positions it returns.
getKeys(name, n) ==
  LET spec == findCommandSpec(name)
  IN  {i \in spec.firstKey .. n :
         i <= lastPosition(spec, n) /\ (i - spec.firstKey) % spec.step = 0}

-----------------------------------------------------------------------------
(* The handlers: how many arguments each accepts, and which it takes for   *)
(* keys.                                                                   *)

stringHandles(name, n) ==
  \/ name \in {"GET", "TYPE", "INCR", "DECR"} /\ n = 1
  \/ name \in {"SET", "INCRBY", "DECRBY"} /\ n = 2
  \/ name \in {"DEL", "EXISTS", "MGET"} /\ n >= 1
  \/ name = "MSET" /\ n >= 2 /\ n % 2 = 0

expireHandles(name, n) ==
  \/ name \in {"TTL", "PTTL", "PERSIST"} /\ n = 1
  \/ name \in {"EXPIRE", "PEXPIRE"} /\ n = 2

listHandles(name, n) ==
  \/ name \in {"LPUSH", "RPUSH", "BLPOP", "BRPOP"} /\ n >= 2
  \/ name \in {"LPOP", "RPOP", "LLEN"} /\ n = 1
  \/ name = "LINDEX" /\ n = 2
  \/ name \in {"LRANGE", "LSET", "LREM"} /\ n = 3

setHandles(name, n) ==
  \/ name \in {"SADD", "SREM"} /\ n >= 2
  \/ name \in {"SMEMBERS", "SCARD", "SPOP"} /\ n = 1
  \/ name = "SISMEMBER" /\ n = 2
  \/ name \in {"SINTER", "SUNION", "SDIFF"} /\ n >= 1

hashHandles(name, n) ==
  \/ name \in {"HSET", "HINCRBY"} /\ n = 3
  \/ name \in {"HGET", "HEXISTS"} /\ n = 2
  \/ name \in {"HGETALL", "HKEYS", "HVALS", "HLEN"} /\ n = 1
  \/ name \in {"HDEL", "HMGET"} /\ n >= 2
  \/ name = "HMSET" /\ n >= 3 /\ n % 2 = 1

\* The table of handlers.
handles(name, n) ==
  \/ stringHandles(name, n) \/ expireHandles(name, n) \/ listHandles(name, n)
  \/ setHandles(name, n) \/ hashHandles(name, n)

keysUsed(name, n) ==
  CASE name \in {"DEL", "EXISTS", "MGET", "SINTER", "SUNION", "SDIFF"} -> 1 .. n
    [] name = "MSET" -> {i \in 1 .. n : i % 2 = 1}
    [] name \in {"BLPOP", "BRPOP"} -> 1 .. n - 1
    [] OTHER -> {1}

\* COMMAND describes the commands as their handlers treat them: whatever a
\* handler accepts the arity admits, and GETKEYS names exactly the arguments
\* the handler looks up (commands-admin.md:56, "returns which of the given
\* arguments are key names").
TableAgrees(n) ==
  \A name \in KeyCommands :
    handles(name, n) => /\ AdmitsArgs(findCommandSpec(name), n)
                        /\ getKeys(name, n) = keysUsed(name, n)
=============================================================================
