--------------------------- MODULE MCK0sLifecycle ---------------------------
(* Instances of K0sLifecycle for TLC. *)
EXTENDS K0sLifecycle

CONSTANTS c1, c2
=============================================================================
