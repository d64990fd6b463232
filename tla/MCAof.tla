------------------------------- MODULE MCAof --------------------------------
(* Symmetry for model checking Aof.                                        *)
EXTENDS Aof, TLC

Symmetry == Permutations(Clients)
=============================================================================
