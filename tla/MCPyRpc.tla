------------------------------ MODULE MCPyRpc -------------------------------
(***************************************************************************)
(* Instance of PyRpc for TLC.                                              *)
(***************************************************************************)
EXTENDS PyRpc

CONSTANTS c1, c2, f1
=============================================================================
