------------------------- MODULE MCAriadneInputs -------------------------
(* Instances of AriadneInputs for TLC.                                    *)
EXTENDS AriadneInputs, TLC

CONSTANTS c1, c2, s1, s2, v1

MCClients == {c1, c2}

MCScripts == {s1, s2}

MCValues == {v1}

MCBlockTimes == {1, 5, 6, 10}

Symmetry == Permutations(MCClients) \cup Permutations(MCScripts)

=============================================================================
