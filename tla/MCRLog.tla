------------------------------- MODULE MCRLog -------------------------------
(***************************************************************************)
(* Instance of RLog for TLC.                                               *)
(***************************************************************************)
EXTENDS RLog

CONSTANTS a, b
=============================================================================
