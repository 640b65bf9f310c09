-------------------------- MODULE MCMcReference --------------------------
(* Instances of McReference for TLC.                                      *)
EXTENDS McReference, TLC

CONSTANTS n1, n2

MCNodes == {n1, n2}

Symmetry == Permutations(MCNodes)

=============================================================================
