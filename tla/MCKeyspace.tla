----------------------------- MODULE MCKeyspace -----------------------------
(* Keyspace on a small instance. *)
EXTENDS Keyspace

\* No command tells one key from another.
Symmetry == Permutations(Keys)
=============================================================================
