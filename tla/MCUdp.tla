------------------------------- MODULE MCUdp --------------------------------
(***************************************************************************)
(* Instance of Udp for TLC.                                                *)
(***************************************************************************)
EXTENDS Udp

CONSTANTS a1, r1, r2, big

\* Two requests would fit into one datagram, the big one into none.
MCSize == [r \in Reqs |-> IF r = big THEN 5 ELSE 2]
=============================================================================
