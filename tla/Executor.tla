------------------------------ MODULE Executor ------------------------------
(***************************************************************************)
(* What a ThreadPool (base/threading.h) promises to the callers of         *)
(* run_async: a job whose submission returns 0 is started exactly once,    *)
(* one whose submission returns EPERM is never started, EPERM is returned  *)
(* only once the pool is stopping, and the pool does not finish its        *)
(* destruction while an accepted job has not completed.                    *)
(***************************************************************************)
CONSTANT Jobs

VARIABLES status, \* [Jobs -> {"none", "accepted", "rejected", "started", "finished"}]
          pool    \* "open", "stopping" (destructor entered), "gone" (destructor returned)

vars == <<status, pool>>

Init == /\ status = [j \in Jobs |-> "none"]
        /\ pool = "open"

Move(j, from, to) == /\ status[j] = from
                     /\ status' = [status EXCEPT ![j] = to]
                     /\ UNCHANGED pool

Accept(j) == pool # "gone" /\ Move(j, "none", "accepted")
Reject(j) == pool = "stopping" /\ Move(j, "none", "rejected")
Start(j)  == pool # "gone" /\ Move(j, "accepted", "started")
Finish(j) == pool # "gone" /\ Move(j, "started", "finished")

Stop == /\ pool = "open"
        /\ pool' = "stopping"
        /\ UNCHANGED status

Leave == /\ pool = "stopping"
         /\ \A j \in Jobs : status[j] \in {"none", "rejected", "finished"}
         /\ pool' = "gone"
         /\ UNCHANGED status

Next == \/ \E j \in Jobs : Accept(j) \/ Reject(j) \/ Start(j) \/ Finish(j)
        \/ Stop
        \/ Leave

Spec == Init /\ [][Next]_vars
=============================================================================
