------------------------- MODULE MCIdentityProvider -------------------------
(***************************************************************************)
(* Identity provider specs for model checking: one that names a CA and     *)
(* one that does not.  Ids are only compared for equality.                 *)
(***************************************************************************)
EXTENDS IdentityProvider, TLC

Plain   == [settings |-> "a", ca |-> FALSE]
Trusted == [settings |-> "b", ca |-> TRUE]

OneSpec  == {Trusted}
TwoSpecs == {Plain, Trusted}

Symmetry == Permutations(ClusterIDs) \cup Permutations(ProviderIDs)
=============================================================================
