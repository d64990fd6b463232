----------------------------- MODULE ListObject -----------------------------
(***************************************************************************)
(* One datastruct.List driven through every sequence of its methods up to  *)
(* a length, so that each content it can have is visited, and its index    *)
(* arithmetic and LREM's loops compared with definitions that speak about  *)
(* positions only.                                                         *)
(***************************************************************************)
EXTENDS ListOps, FiniteSets

CONSTANTS Values, MaxLen

ASSUME MaxLenAssumption == MaxLen \in Nat

VARIABLE items

Indices == -(MaxLen + 1) .. MaxLen + 1

Init == items = << >>

Pushing == \E values \in {<<v>> : v \in Values} \cup (Values \X Values) :
             /\ Len(items) + Len(values) <= MaxLen
             /\ items' \in {LPush(items, values), RPush(items, values)}

Popping == items # << >> /\ items' \in {LPop(items).rest, RPop(items).rest}

Setting == \E i \in Indices, v \in Values : items' = LSet(items, i, v)

Removing == \E n \in Ints, v \in Values : items' = LRem(items, n, v).items

Next == Pushing \/ Popping \/ Setting \/ Removing

Spec == Init /\ [][Next]_items

-----------------------------------------------------------------------------
\* Position p (from 0) counted from the end a Redis index refers to.
Denotes(p, index) == p = index \/ p - Len(items) = index

\* LRANGE returns exactly the elements between the two positions, in order,
\* and LRANGE 0 i followed by LRANGE i+1 -1 is the whole list (List.LRange's
\* clamping of negative and oversized indices).
LRangeCorrect ==
  \A start, stop \in Indices :
    LET n   == Len(items)
        lo  == IF start < 0 THEN n + start ELSE start
        hi  == IF stop < 0 THEN n + stop ELSE stop
        ps  == {p \in 0 .. n - 1 : lo <= p /\ p <= hi}
        got == LRange(items, start, stop)
    IN  /\ Len(got) = Cardinality(ps)
        /\ \A p \in ps : got[Cardinality({q \in ps : q <= p})] = items[p + 1]
        /\ start >= 0 /\ stop = start + 1
             => LRange(items, 0, start) \o LRange(items, stop, -1) = items

\* LSET changes the element LINDEX reads at the same index, whichever end it
\* counts from, and no other; out of range both refuse (List.LSet, LIndex).
LSetReadByLIndex ==
  \A i, j \in Indices, v \in Values :
    LET after == LSet(items, i, v)
        same(p) == Denotes(p, i) /\ Denotes(p, j)
    IN  LIndex(after, j) = IF \E p \in 0 .. Len(items) - 1 : same(p)
                             THEN <<v>> ELSE LIndex(items, j)

\* LREM keeps the order of what it keeps and drops the |count| occurrences
\* nearest the head (count > 0) or the tail (count < 0), all for 0, whatever int
\* count is but the smallest: -count is the smallest again then, and LREM drops
\* nothing (datastruct.go:156; commands-lists.md:102 says "abs(count)").
LRemCorrect ==
  \A count \in Ints, v \in Values :
    LET n      == Len(items)
        occ    == {p \in 1 .. n : items[p] = v}
        rank(p) == IF count < 0 THEN Cardinality({q \in occ : q >= p})
                                ELSE Cardinality({q \in occ : q <= p})
        limit  == IF count < 0 THEN -count ELSE count
        gone   == {p \in occ : count # MinInt /\ (count = 0 \/ rank(p) <= limit)}
        kept   == 1 .. n \ gone
        got    == LRem(items, count, v)
    IN  /\ got.removed = Cardinality(gone)
        /\ Len(got.items) = Cardinality(kept)
        /\ \A p \in kept : got.items[Cardinality({q \in kept : q <= p})] = items[p]

\* The values of one LPUSH come off the head last to first, those of one
\* RPUSH off the tail; popping them restores the list.
PushedValuesComeOff ==
  \A v, w \in Values :
    /\ LPop(LPush(items, <<v, w>>)) = [value |-> w, rest |-> LPush(items, <<v>>)]
    /\ RPop(RPush(items, <<v, w>>)) = [value |-> w, rest |-> RPush(items, <<v>>)]
    /\ LPop(LPush(items, <<v>>)).rest = items
    /\ RPop(RPush(items, <<v>>)).rest = items
=============================================================================
