---------------------------- MODULE StoreBackend ----------------------------
(***************************************************************************)
(* The api-server on the store that buildRepository has chosen: the        *)
(* MemoryStore, as in ControlPlane, or MySQL.  On MySQL                    *)
(*  - a store call may fail, because the database is away or because the   *)
(*    client has gone and the request's context with it; the statement may *)
(*    have been executed all the same;                                     *)
(*  - the process may die anywhere and start again, with the store as it   *)
(*    is and nothing else left;                                            *)
(*  - created_at is stored in seconds, so that jobs may tie;               *)
(*  - nodes are not implemented: no GPU job finds one.                     *)
(***************************************************************************)
EXTENDS ControlPlane

CONSTANT MaxFaults   \* bound: store errors and crashes

ASSUME FaultsAssumption == MaxFaults \in Nat

VARIABLES
    backend,   \* STORE_BACKEND
    faults,    \* for the bound
    ran        \* history: the executions whose executor has been called

backendVars == <<backend, faults, ran>>
allVars == <<vars, backendVars>>

\* buildRepository.
BackendInit ==
    /\ Init
    /\ backend \in {"memory", "mysql"}
    /\ faults = 0
    /\ ran = {}

Fault ==
    /\ backend = "mysql"
    /\ up
    /\ faults < MaxFaults
    /\ faults' = faults + 1
    /\ UNCHANGED <<backend, ran>>

\* The record that the UpdateJob of the handler's label writes.
Written(h) ==
    CASE pc[h] = "mark_scheduled" -> WithStatus(h, "scheduled")
      [] pc[h] = "mark_running"   -> WithStatus(h, "running")
      [] pc[h] = "job_succeeded"  -> WithStatus(h, "succeeded")
      [] pc[h] = "job_failed"     -> AfterFailure(snap[h].retry,
                                                  MaxRetries[snap[h].id])
      [] pc[h] = "cancel_job"     -> WithStatus(h, "cancelled")
      [] pc[h] = "retry_job"      -> WithStatus(h, "pending")

Reads == {"schedule_job", "run_next"}
JobWrites == {"mark_scheduled", "mark_running", "job_succeeded", "job_failed",
              "cancel_job", "retry_job"}

\* The statement of the handler's next store call has been executed.
Executed(h) ==
    \/ pc[h] \in Reads /\ UNCHANGED <<jobs, executions>>
    \/ pc[h] \in JobWrites /\ UpdateJob(h, Written(h)) /\ UNCHANGED executions
    \/ /\ pc[h] = "create_execution"
       /\ executions' = Append(executions, NewExecution(snap[h]))
       /\ UNCHANGED jobs
    \/ /\ pc[h] \in {"succeeded", "failed"}
       /\ executions' = [executions EXCEPT ![exec[h]].status = pc[h]]
       /\ UNCHANGED jobs

NotExecuted(h) ==
    /\ pc[h] \in Reads \cup JobWrites
                 \cup {"create_execution", "succeeded", "failed"}
    /\ UNCHANGED <<jobs, executions>>

\* Every caller of a store call gives up at its error, except the loop of
\* SchedulePending.  finishFailed has counted the failure by then.
AfterError_Ignored(h) ==
    IF pc[h] \in {"succeeded", "failed"}
    THEN Goto(h, "job_" \o pc[h]) /\ UNCHANGED <<op, snap, target, exec,
                                                 dispatchLocals>>
    ELSE PlaceFailed(h)
AfterError(h) == PlaceFailed(h)

StoreError(h) ==
    /\ Fault
    /\ Executed(h) \/ NotExecuted(h)
    /\ AfterError(h)
    /\ \/ /\ pc[h] = "job_failed"
          /\ Count(FailureCounters(snap[h].retry, MaxRetries[snap[h].id])
                      \ {"executionCount"})
       \/ pc[h] # "job_failed" /\ UNCHANGED metrics
    /\ UNCHANGED <<nodes, avail, assigned, up, requests>>

\* Everything that the process held is gone.
Crash ==
    /\ Fault
    /\ up' = FALSE
    /\ pc' = [h \in Handlers |-> "idle"]
    /\ op' = [h \in Handlers |-> "none"]
    /\ snap' = [h \in Handlers |-> NoSnapshot]
    /\ target' = [h \in Handlers |-> NoNode]
    /\ exec' = [h \in Handlers |-> 0]
    /\ queue' = [h \in Handlers |-> {}]
    /\ batch' = [h \in Handlers |-> << >>]
    /\ limit' = [h \in Handlers |-> 0]
    /\ metrics' = [m \in Metrics |-> 0]
    /\ UNCHANGED <<store, requests>>

Restart ==
    /\ backend = "mysql"
    /\ ~up
    /\ up' = TRUE
    /\ UNCHANGED <<store, metrics, requests, locals, backendVars>>

\* heap.Pop when CreatedAt may tie.
PopTied(h) ==
    /\ backend = "mysql"
    /\ At(h, "pop")
    /\ Len(batch[h]) < limit[h]
    /\ \E s \in queue[h] :
         /\ \A t \in queue[h] : Priority[t.id] <= Priority[s.id]
         /\ queue' = [queue EXCEPT ![h] = Without(@, s)]
         /\ Hold(h, s)
         /\ Goto(h, PlaceLabel(s.id))
    /\ UNCHANGED <<store, metrics, up, requests, op, target, exec, batch,
                   limit, backendVars>>

\* The steps of ControlPlane; with MySQL RegisterNode returns
\* ErrNotImplemented, and no Metadata map is shared.
Served ==
    \/ \E j \in Jobs : CreateJob(j)
    \/ backend = "memory" /\ \E n \in Nodes : RegisterNode(n)
    \/ backend = "memory" /\ \E h \in Handlers : FatalMapWrite(h)
    \/ \E h \in Handlers : Arrive(h) \/ Advance(h)
    \/ Rest

BackendNext ==
    \/ /\ Served
       /\ ran' = ran \cup {exec[h] : h \in {g \in Handlers :
                               At(g, "execute") /\ pc'[g] # "execute"}}
       /\ UNCHANGED <<backend, faults>>
    \/ \E h \in Handlers : StoreError(h) \/ PopTied(h)
    \/ Crash
    \/ Restart

BackendSpec == BackendInit /\ [][BackendNext]_allVars
-----------------------------------------------------------------------------
(* Properties.                                                             *)

\* What an executor does is not done twice: with one handler at a time, a job
\* is executed again only after an execution that was recorded as failed,
\* whatever store calls fail and wherever the process dies in between.  A job
\* whose outcome could not be recorded stays "running" and is left alone.
EffectsOnce ==
    \A i, k \in ran :
        (i < k /\ executions[i].job = executions[k].job)
            => executions[i].status = "failed"
=============================================================================
