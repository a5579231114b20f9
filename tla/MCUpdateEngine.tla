--------------------------- MODULE MCUpdateEngine ---------------------------
(* Instances of UpdateEngine for TLC. *)
EXTENDS UpdateEngine, TLC

CONSTANTS c1, c2

\* Only the fairness tells the operator from the other callers.
CallerSymmetry == Permutations(Callers)
=============================================================================
