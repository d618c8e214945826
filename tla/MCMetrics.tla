------------------------------ MODULE MCMetrics ------------------------------
(* A small instance of Metrics for TLC. *)
EXTENDS Metrics, TLC

CONSTANTS g1, g2

TwoCallers == {g1, g2}

CallerSymmetry == Permutations(TwoCallers)
=============================================================================
