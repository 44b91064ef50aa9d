---------------------------- MODULE JobLifecycle ----------------------------
(***************************************************************************)
(* The state machine of a job that the predicates of internal/model/job.go *)
(* and the services are written for, one transition at a time.             *)
(***************************************************************************)
CONSTANT Jobs

VARIABLE status    \* [Jobs -> status], "none" before the job is submitted

Move(j, from, to) ==
    /\ status[j] \in from
    /\ status' = [status EXCEPT ![j] = to]

Submit(j)   == Move(j, {"none"}, "pending")
Schedule(j) == Move(j, {"pending", "retrying"}, "scheduled")
Start(j)    == Move(j, {"scheduled"}, "running")
Finish(j)   == \E s \in {"succeeded", "failed", "retrying"} :
                    Move(j, {"running"}, s)
Cancel(j)   == Move(j, {"pending", "scheduled", "retrying"}, "cancelled")
Retry(j)    == Move(j, {"failed", "retrying"}, "pending")

Init == status = [j \in Jobs |-> "none"]

Next == \E j \in Jobs : \/ Submit(j)
                        \/ Schedule(j)
                        \/ Start(j)
                        \/ Finish(j)
                        \/ Cancel(j)
                        \/ Retry(j)

Spec == Init /\ [][Next]_status
=============================================================================
