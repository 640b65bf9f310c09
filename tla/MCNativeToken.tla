-------------------------- MODULE MCNativeToken --------------------------
(* Instances of NativeToken for TLC.                                      *)
EXTENDS NativeToken, TLC

CONSTANTS n1, n2, s1, s2

MCNodes == {n1, n2}

Symmetry == Permutations(MCNodes)

=============================================================================
