------------------------------- MODULE GoInt --------------------------------
(***************************************************************************)
(* Go's ints, which wrap around, for the code that computes with ints that *)
(* clients choose.                                                         *)
(***************************************************************************)
EXTENDS Integers

CONSTANT Half   \* ints are at least -Half and less than Half, which is 2^63 in the code

ASSUME HalfAssumption == Half \in Nat \ {0}

MinInt == -Half
Ints   == MinInt .. Half - 1

\* The int that n becomes.
Wrap(n) == ((n + Half) % (2 * Half)) - Half
=============================================================================
