--------------------------- MODULE MCROSACluster ---------------------------
(***************************************************************************)
(* ROSACluster for model checking.  Nothing tells one id of a kind from    *)
(* another, so states that differ by a permutation of the cluster ids, of  *)
(* the config ids or of the prefixes are one state; the runs that use this *)
(* check safety properties only.                                           *)
(***************************************************************************)
EXTENDS ROSACluster, TLC

Symmetry == Permutations(ClusterIDs) \cup Permutations(ConfigIDs) \cup Permutations(Prefixes)
=============================================================================
