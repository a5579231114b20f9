--------------------------- MODULE MCNodeReports ---------------------------
(***************************************************************************)
(* TLC's instance of NodeReports: the controller, a unit listed before it  *)
(* and one listed after it.                                                *)
(***************************************************************************)
EXTENDS NodeReports

CONSTANTS before, after, c1, bad

TwoUnits == <<before, K0s, after>>
=============================================================================
