------------------------------ MODULE MCServer ------------------------------
(***************************************************************************)
(* Instances of Server for TLC.                                            *)
(***************************************************************************)
EXTENDS Server, TLC

CONSTANTS k1, k2, r1, r2, r3

\* r1 is for a fast handler, r2 for one that replies from another thread, r3 has
\* no rpc_id.
MCRpc == [r \in Reqs |-> CASE r = r1 -> "fast" [] r = r2 -> "async" [] OTHER -> NoId]

\* Connections are interchangeable in the runs without liveness properties.
Sym == Permutations(Conns)
=============================================================================
