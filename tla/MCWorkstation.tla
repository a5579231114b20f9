--------------------------- MODULE MCWorkstation ---------------------------
(***************************************************************************)
(* TLC's instances of Workstation: two nodes, two runs of kubeconfig.      *)
(***************************************************************************)
EXTENDS Workstation, TLC

CONSTANTS n1, n2, r1, r2, own

\* Neither nodes nor runs differ.
WorkstationSymmetry == Permutations(Nodes) \cup Permutations(Runs)
=============================================================================
