----------------------------- MODULE MCRunLater -----------------------------
(***************************************************************************)
(* Instance of RunLater for TLC.                                           *)
(***************************************************************************)
EXTENDS RunLater

CONSTANTS j1, j2
=============================================================================
