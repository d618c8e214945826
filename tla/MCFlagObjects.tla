---------------------------- MODULE MCFlagObjects ----------------------------
(* A small instance of FlagObjects for TLC. *)
EXTENDS FlagObjects, TLC

CONSTANTS k1, k2, v1, v2, m1, m2

TwoKeys == {k1, k2}
TwoVars == {v1, v2}
TwoMaps == {m1, m2}

Symmetry == Permutations(TwoKeys) \cup Permutations(TwoVars) \cup Permutations(TwoMaps)
=============================================================================
