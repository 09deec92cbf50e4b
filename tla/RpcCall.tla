------------------------------ MODULE RpcCall -------------------------------
(***************************************************************************)
(* What a client promises of a call, whoever closes it and whenever: a     *)
(* call that begin_request accepted is completed once, by its reply or by  *)
(* the end of the connection, and stays so; a refused one is never         *)
(* completed.                                                              *)
(***************************************************************************)
CONSTANT Calls

VARIABLE outcome

Init == outcome = [x \in Calls |-> "none"]

Becomes(x, from, to) == outcome[x] = from /\ outcome' = [outcome EXCEPT ![x] = to]

Begin(x)  == Becomes(x, "none", "pending")
Refuse(x) == Becomes(x, "pending", "refused")
Reply(x)  == Becomes(x, "pending", "replied")

\* A close fails all calls that are pending.
Close == outcome' = [x \in Calls |-> IF outcome[x] = "pending" THEN "failed" ELSE outcome[x]]

Next == Close \/ \E x \in Calls : Begin(x) \/ Refuse(x) \/ Reply(x)

Spec == Init /\ [][Next]_outcome
=============================================================================
