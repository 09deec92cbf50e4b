---------------------------- MODULE MCPollThread ----------------------------
(***************************************************************************)
(* Instances of PollThread for TLC.                                        *)
(***************************************************************************)
EXTENDS PollThread

CONSTANTS p1, p2, p3, f1, f2
=============================================================================
