------------------------------ MODULE MCFuture ------------------------------
(***************************************************************************)
(* Instances of Future for TLC.                                            *)
(***************************************************************************)
EXTENDS Future

CONSTANTS w1, t1, t2

\* One argument with a fraction of a second and one without.
MCSec == [t \in {t1, t2} |-> IF t = t1 THEN 2 ELSE 3]
=============================================================================
