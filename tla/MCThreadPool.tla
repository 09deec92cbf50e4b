---------------------------- MODULE MCThreadPool ----------------------------
(***************************************************************************)
(* Instances of ThreadPool for TLC.                                        *)
(***************************************************************************)
EXTENDS ThreadPool, TLC

CONSTANTS a, b, c

\* a and c come from outside, c on a channel; b is submitted by a while a runs.
MCSubmitter == (a :> Nil) @@ (b :> a) @@ (c :> Nil)
MCChannel   == (a :> -1) @@ (b :> -1) @@ (c :> 4)
=============================================================================
