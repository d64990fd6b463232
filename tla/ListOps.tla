------------------------------ MODULE ListOps ------------------------------
(***************************************************************************)
(* The value-level behaviour of datastruct.List (pkg/datastruct), one      *)
(* operator per method: what a call returns and what it leaves in l.items. *)
(* Each method runs entirely under l.mu, so a method is one atomic step of *)
(* the modules that use these operators.  Go's zero-based slice indices    *)
(* are shifted to TLA+'s one-based sequences here and nowhere else.        *)
(***************************************************************************)
EXTENDS GoInt, Sequences, SequencesExt

\* Mutant: the values are prepended as a block.
LPushBlock(items, values) == values \o items

\* List.LPush prepends its values one at a time, so they end up reversed.
LPush(items, values) == Reverse(values) \o items

\* Mutant: the values go to the head.
RPushFront(items, values) == values \o items

\* List.RPush appends its values in the order given.
RPush(items, values) == items \o values

\* Mutant: the element is returned and stays.
LPopPeek(items) == [value |-> Head(items), rest |-> items]

\* List.LPop / List.RPop: the element taken and the items left; both are
\* called with a nonempty slice only (the methods return ok = false first).
LPop(items) == [value |-> Head(items), rest |-> Tail(items)]
RPop(items) == [value |-> Last(items), rest |-> Front(items)]

\* A negative index counts from the tail: -1 is the last element.
Absolute(index, length) == IF index < 0 THEN length + index ELSE index

\* Mutant: stop is clamped to the length instead of the last position.
LRangeUnclamped(items, start, stop) ==
  LET length == Len(items)
      first  == Max({Absolute(start, length), 0})
      last   == Min({Absolute(stop, length), length})
  IN  IF length = 0 \/ first >= last \/ first >= length
        THEN << >>
        ELSE SubSeq(items, first + 1, last)

\* List.LRange, with both ends inclusive and clamped to the list.
LRange(items, start, stop) ==
  LET length == Len(items)
      first  == Max({Absolute(start, length), 0})
      last   == Min({Absolute(stop, length), length - 1})
  IN  IF length = 0 \/ first > last \/ first >= length
        THEN << >>
        ELSE SubSeq(items, first + 1, last + 1)

InRange(items, index) == Absolute(index, Len(items)) \in 0 .. Len(items) - 1

\* List.LIndex: <<value>> or << >> for ok = false.
LIndex(items, index) ==
  IF InRange(items, index)
    THEN <<items[Absolute(index, Len(items)) + 1]>> ELSE << >>

\* Mutant: a negative index is taken from the wrong end.
LSetNoWrap(items, index, value) ==
  IF index \in 0 .. Len(items) - 1
    THEN [items EXCEPT ![index + 1] = value] ELSE items

\* List.LSet: the items after the call (unchanged when it returns false).
LSet(items, index, value) ==
  IF InRange(items, index)
    THEN [items EXCEPT ![Absolute(index, Len(items)) + 1] = value] ELSE items

\* One iteration of LRem's loops: drop item while fewer than limit are gone.
RemStep(acc, item, value, limit) ==
  IF item = value /\ acc.removed < limit
    THEN [acc EXCEPT !.removed = @ + 1]
    ELSE [acc EXCEPT !.items = Append(@, item)]

\* The loop from the head to the tail; after[i] is its state after i iterations.
RemLoop(items, value, limit) ==
  LET after[i \in 0 .. Len(items)] ==
        IF i = 0 THEN [items |-> << >>, removed |-> 0]
                 ELSE RemStep(after[i - 1], items[i], value, limit)
  IN  after[Len(items)]

\* How many LRem may drop.  The smallest int stays negative: then it drops none.
RemLimit(items, count) == IF count = 0 THEN Len(items) ELSE IF count > 0 THEN count ELSE Wrap(-count)

\* Mutant: a negative count also removes from the head.
LRemForward(items, count, value) == RemLoop(items, value, RemLimit(items, count))

\* List.LRem: count = 0 removes every occurrence, count > 0 the first count
\* from the head, count < 0 the first RemLimit from the tail.
LRem(items, count, value) ==
  LET back == RemLoop(Reverse(items), value, RemLimit(items, count))
  IN  IF count >= 0 THEN RemLoop(items, value, RemLimit(items, count))
      ELSE [items |-> Reverse(back.items), removed |-> back.removed]
=============================================================================
