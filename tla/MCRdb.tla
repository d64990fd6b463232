------------------------------- MODULE MCRdb -------------------------------
(* Instances of Rdb for TLC. *)
EXTENDS Rdb, TLC

\* "save 1 1".
OneChange == {[Secs |-> 1, KeysChanged |-> 1]}

\* Connections are alike, and so are the string keys and the containers.
Symmetry == Permutations(Clients) \cup Permutations(Strings) \cup Permutations(Containers)
=============================================================================
