---------------------------- MODULE MCListStore ----------------------------
(***************************************************************************)
(* ListStore on small instances: the key lists a blocking pop or DEL gets, *)
(* and the symmetry of the connections.                                    *)
(***************************************************************************)
EXTENDS ListStore

OneKeyLists == {<<k>> : k \in Keys}
TwoKeyLists == OneKeyLists \cup {ks \in Keys \X Keys : ks[1] # ks[2]}
OnePair     == {CHOOSE ks \in Keys \X Keys : ks[1] # ks[2]}
ClientSymmetry == Permutations(Clients)
=============================================================================
