------------------------------ MODULE Extrema ------------------------------
(***************************************************************************)
(* Natural numbers, for the proofs: least and greatest elements of sets of *)
(* them (the last marker before a record, in the persistence files), and   *)
(* induction and recursion along them (the loops of LREM, of parseInt and  *)
(* of intToString), with sets in the place of predicates.                  *)
(***************************************************************************)
EXTENDS Integers, WellFoundedInduction, TLAPS

\* A nonempty set of natural numbers has a least element.
LEMMA MinExists ==
  ASSUME NEW T \in SUBSET Nat, T # {}
  PROVE  \E x \in T : \A y \in T : x <= y
<1> DEFINE R == OpToRel(<, Nat)
<1>1. IsWellFoundedOn(R, Nat)
  BY NatLessThanWellFounded
<1>2. \A x, y \in Nat : <<x, y>> \in R <=> x < y
  BY DEF OpToRel
<1> HIDE DEF R
<1>3. PICK x \in T : \A y \in T : ~(<<y, x>> \in R)
  BY <1>1, WFMin
<1>4. \A y \in T : ~(y < x)
  BY <1>2, <1>3
<1> QED BY <1>4

\* A nonempty set of natural numbers with an upper bound has a greatest
\* element.
LEMMA MaxExists ==
  ASSUME NEW n \in Nat, NEW T \in SUBSET (0 .. n), T # {}
  PROVE  \E x \in T : \A y \in T : y <= x
<1> DEFINE U == {m \in Nat : n - m \in T}
<1>1. PICK t \in T : TRUE
  OBVIOUS
<1>2. n - t \in U
  BY <1>1
<1>3. PICK x \in U : \A y \in U : x <= y
  <2> HIDE DEF U
  <2>1. U \in SUBSET Nat /\ U # {}
    BY <1>2 DEF U
  <2> QED BY <2>1, MinExists
<1>4. n - x \in T /\ x \in Nat
  BY <1>3
<1>5. \A y \in T : n - y \in U
  OBVIOUS
<1> QED BY <1>3, <1>4, <1>5

-----------------------------------------------------------------------------
(* Induction and recursion, with a set in the place of the predicate.      *)

\* A set that has 0 and the successor of each of its numbers has them all.
LEMMA InductionSet ==
  ASSUME NEW T, 0 \in T, \A i \in Nat : i \in T => i + 1 \in T
  PROVE  \A i \in Nat : i \in T
<1> DEFINE U == {i \in Nat : i \notin T}
<1>1. SUFFICES ASSUME U # {} PROVE FALSE
  OBVIOUS
<1>2. U \in SUBSET Nat
  OBVIOUS
<1> HIDE DEF U
<1>3. PICK x \in U : \A y \in U : x <= y
  BY <1>1, <1>2, MinExists
<1>4. x \in Nat /\ x \notin T /\ x # 0
  BY DEF U
<1>5. x - 1 \in Nat /\ x - 1 \notin U
  BY <1>2, <1>3, <1>4
<1>6. x - 1 \in T
  BY <1>5 DEF U
<1> QED BY <1>4, <1>5, <1>6

\* f starts with b, and goes on with step.
IsRecursion(f, b, step, N) ==
  f[0] = b /\ \A i \in 1 .. N : f[i] = step[<<f[i - 1], i>>]

\* A recursive function on 0 .. N exists.
LEMMA RecursionExists ==
  ASSUME NEW S, NEW b \in S, NEW N \in Nat, NEW step \in [S \X (1 .. N) -> S]
  PROVE  \E f \in [0 .. N -> S] : IsRecursion(f, b, step, N)
<1> DEFINE Good(f, m) == f[0] = b /\ \A i \in 1 .. m : f[i] = step[<<f[i - 1], i>>]
           T == {m \in Nat : m <= N => \E f \in [0 .. m -> S] : Good(f, m)}
<1>1. 0 \in T
  <2>1. [i \in 0 .. 0 |-> b] \in [0 .. 0 -> S] /\ Good([i \in 0 .. 0 |-> b], 0)
    OBVIOUS
  <2> QED BY <2>1
<1>2. ASSUME NEW m \in Nat, m \in T
      PROVE  m + 1 \in T
  <2> SUFFICES ASSUME m + 1 <= N
               PROVE  \E f \in [0 .. m + 1 -> S] : Good(f, m + 1)
    OBVIOUS
  <2>1. PICK f \in [0 .. m -> S] : Good(f, m)
    BY <1>2
  <2> DEFINE x == step[<<f[m], m + 1>>]
             g == [i \in 0 .. m + 1 |-> IF i <= m THEN f[i] ELSE x]
  <2>2. x \in S
    <3>1. <<f[m], m + 1>> \in S \X (1 .. N)
      OBVIOUS
    <3> QED BY <3>1
  <2> HIDE DEF x
  <2>3. g \in [0 .. m + 1 -> S]
    BY <2>2
  <2>4. g[0] = b
    BY <2>1
  <2>5. ASSUME NEW i \in 1 .. m + 1
        PROVE  g[i] = step[<<g[i - 1], i>>]
    <3>1. CASE i <= m
      BY <2>1, <3>1
    <3>2. CASE i = m + 1
      BY <3>2 DEF x
    <3> QED BY <3>1, <3>2
  <2> HIDE DEF g
  <2>6. Good(g, m + 1)
    BY <2>4, <2>5
  <2> QED BY <2>3, <2>6
<1> HIDE DEF T
<1>3. N \in T
  BY <1>1, <1>2, InductionSet
<1> QED BY <1>3 DEF T, IsRecursion
=============================================================================
