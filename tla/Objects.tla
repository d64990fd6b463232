------------------------------ MODULE Objects -------------------------------
(***************************************************************************)
(* The algorithms that work on one object or one number at a time, each    *)
(* driven through the values it can meet: a List through its methods       *)
(* (ListObject), a hash field through HSET and HINCRBY (IntText), and a    *)
(* number that is used as a length in an RDB file (LengthCodec) and as a   *)
(* count of arguments (CommandTable).  One of the three is busy at a time. *)
(***************************************************************************)
EXTENDS ListObject, LengthCodec, IntText, CommandTable

CONSTANTS
  MaxNumber, \* bound: the number
  MaxArgs    \* bound: arguments of a command

VARIABLES
  n,      \* the number under test
  field,  \* the text of the hash field; none is as good as an empty one
  reply   \* the reply of the last HINCRBY, NotInt if it was an error

NoField == Text("", << >>)

\* What clients store with HSET: odd spellings, a number too large for an int,
\* and no number.
Typed == {Text("", <<0, 7>>), Text("+", <<5>>), Text("-", << >>), Text("-", <<9, 9, 9>>), NotInt}

vars == <<items, n, field, reply>>

ObjectsInit == Init /\ n = 0 /\ field = NoField /\ reply = 0

ListMethod == n = 0 /\ field = NoField /\ Next /\ UNCHANGED <<n, field, reply>>

Measure ==
  /\ items = << >> /\ field = NoField
  /\ IF n = 0 THEN n' \in 1 .. MaxNumber ELSE n' = 0
  /\ UNCHANGED <<items, field, reply>>

HSet ==
  /\ items = << >> /\ n = 0
  /\ field' \in Typed
  /\ UNCHANGED <<items, n, reply>>

\* HINCRBY, which counts from 0 if there is no field.
Increment ==
  /\ items = << >> /\ n = 0
  /\ \E increment \in Ints :
       LET done == HIncrBy(field, increment) IN field' = done.field /\ reply' = done.reply
  /\ UNCHANGED <<items, n>>

ObjectsNext == ListMethod \/ Measure \/ HSet \/ Increment

ObjectsSpec == ObjectsInit /\ [][ObjectsNext]_vars

-----------------------------------------------------------------------------
(* Properties.                                                             *)

\* A length below 2^32 is read back as it was written, exactly its bytes are
\* taken off whatever follows, and a file that ends inside them is an error,
\* never a shorter length (writeLength and readLength, rdb.go:541-580).
LengthRoundTrip ==
  LET bytes == writeLength(n)
  IN  n < Limit =>
        /\ \A b \in 0 .. Base - 1 : readLength(Append(bytes, b)) = Length(n, Len(bytes))
        /\ \A k \in 0 .. Len(bytes) - 1 : readLength(SubSeq(bytes, 1, k)).used = 0

\* The field holds what the last HINCRBY replied, in its only canonical
\* spelling, so that the next HINCRBY and a replay of the log go on from it:
\* true of every int but the smallest (parseInt and intToString,
\* datastruct.go:447-499).
CounterIsKept ==
  [][Increment /\ field # NotInt /\ reply' # MinInt =>
       /\ reply' \in Ints
       /\ parseInt(field') = reply'
       /\ \A i \in Ints : intToString(i) = field' => i = reply']_vars

\* COMMAND GETKEYS and the handlers agree, for n arguments.
GetKeysAgrees == n <= MaxArgs => TableAgrees(n)
=============================================================================
