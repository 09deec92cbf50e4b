------------------------------ MODULE MCClient ------------------------------
(***************************************************************************)
(* Instances of Client for TLC.                                            *)
(***************************************************************************)
EXTENDS Client, TLC

CONSTANTS c1, c2

\* Callers are interchangeable in the runs without liveness properties.
Sym == Permutations(Callers)
=============================================================================
