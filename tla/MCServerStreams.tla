-------------------------- MODULE MCServerStreams --------------------------
(***************************************************************************)
(* TLC's instance of ServerStreams: one stream over a journal of at most   *)
(* three records of every kind, of which -n 2 may leave out the first.     *)
(***************************************************************************)
EXTENDS ServerStreams, TLC

CONSTANT s1
=============================================================================
