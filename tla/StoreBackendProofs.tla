------------------------- MODULE StoreBackendProofs -------------------------
(***************************************************************************)
(* Machine-checked proofs about StoreBackend: what survives store errors,  *)
(* crashes and restarts, first for any number of handlers, then for an     *)
(* api-server that serves one request at a time.  The second part rests on *)
(* the fact that a copy which a lone handler holds is never stale; the     *)
(* operations then follow the state machine of the job, and no executor    *)
(* is called again for a job that may have been executed.                  *)
(***************************************************************************)
EXTENDS ControlPlaneProofs, StoreBackend

\* Which operations a handler can be serving at a label; only SchedulePending
\* has copies queued.
OpOK(h) ==
    /\ op[h] # "dispatch" => queue[h] = {}
    /\ pc[h] = "idle" => op[h] = "none"
    /\ pc[h] = "pop" => op[h] = "dispatch"
    /\ pc[h] \in {"schedule_job", "create_execution", "run_next"} \cup Owning
            => op[h] # "dispatch"

OpInv == \A h \in Handlers : OpOK(h)
-----------------------------------------------------------------------------
(* Labels and operations.                                                  *)

LEMMA OpInit == Init => OpInv
  BY DEF Init, OpInv, OpOK, Owning, Attempting

LEMMA ReturnOp ==
    ASSUME Typed, NEW h \in Handlers, Return(h)
    PROVE  OpOK(h)'
  BY DEF Return, Goto, OpOK, Owning, Attempting, Typed, TypeOK

LEMMA PlaceFailedOp ==
    ASSUME Typed, OpInv, NEW h \in Handlers, PlaceFailed(h)
    PROVE  OpOK(h)'
<1>1. CASE op[h] = "dispatch"
  BY <1>1 DEF PlaceFailed, OpInv, OpOK, Owning, Attempting, Goto,
     dispatchLocals, Typed, TypeOK
<1>2. CASE op[h] # "dispatch"
  BY <1>2, ReturnOp DEF PlaceFailed
<1> QED
  BY <1>1, <1>2

LEMMA HandlerOp ==
    ASSUME Typed, OpInv, NEW h \in Handlers, Arrive(h) \/ Advance(h)
    PROVE  OpOK(h)'
<1> USE DEF OpInv, OpOK, Owning, Attempting, Accept, At, Goto, store,
            dispatchLocals, Typed, TypeOK
<1>1. ASSUME NEW j \in Jobs, ScheduleRequest(h, j) \/ RunRequest(h, j)
      PROVE  OpOK(h)'
  BY <1>1 DEF ScheduleRequest, RunRequest, Load, PlaceLabel
<1>2. ASSUME NEW j \in Jobs, CancelRequest(h, j) \/ RetryRequest(h, j)
      PROVE  OpOK(h)'
  BY <1>2 DEF CancelRequest, RetryRequest
<1>3. ASSUME NEW l \in Limits, DispatchRequest(h, l) PROVE OpOK(h)'
  BY <1>3 DEF DispatchRequest
<1>4. CASE ScheduleJob(h)
  BY <1>4, PlaceFailedOp DEF ScheduleJob, PlaceLabel
<1>5. CASE SelectNode(h) \/ AllocateGPU(h)
  BY <1>5, PlaceFailedOp DEF SelectNode, AllocateGPU
<1>6. CASE MarkScheduled(h)
  BY <1>6, ReturnOp DEF MarkScheduled, Placed
<1>7. CASE Pop(h)
  BY <1>7 DEF Pop, PlaceLabel, Without
<1>8. CASE BeginBatch(h)
  BY <1>8, ReturnOp DEF BeginBatch
<1>9. CASE RunNext(h)
  BY <1>9 DEF RunNext, Load
<1>10. CASE CreateExecution(h) \/ MarkRunning(h) \/ Execute(h)
  BY <1>10 DEF CreateExecution, MarkRunning, Execute
<1>11. CASE UpdateExecution(h)
  BY <1>11 DEF UpdateExecution
<1>12. CASE FinishSucceeded(h)
  BY <1>12, ReturnOp DEF FinishSucceeded
<1>13. CASE FinishFailed(h) \/ CancelJob(h) \/ RetryJob(h)
  BY <1>13, ReturnOp DEF FinishFailed, CancelJob, RetryJob
<1> HIDE DEF OpOK
<1> QED
  BY <1>1, <1>2, <1>3, <1>4, <1>5, <1>6, <1>7, <1>8, <1>9, <1>10, <1>11,
     <1>12, <1>13 DEF Arrive, Advance

LEMMA OpNext == Typed /\ OpInv /\ [Next]_vars => OpInv'
<1> SUFFICES ASSUME Typed, OpInv, [Next]_vars PROVE OpInv'
  OBVIOUS
<1>1. ASSUME NEW h \in Handlers, Arrive(h) \/ Advance(h) PROVE OpInv'
  <2>1. OpOK(h)'
    BY <1>1, HandlerOp
  <2>2. \A g \in Handlers : g # h => SameLocals(g)
    BY <1>1, ArriveFrame, AdvanceFrame
  <2>3. \A g \in Handlers : g # h => OpOK(g)'
    BY <2>2 DEF OpInv, OpOK, SameLocals
  <2> QED
    BY <2>1, <2>3 DEF OpInv
<1>2. ASSUME pc' = pc, op' = op, queue' = queue PROVE OpInv'
  BY <1>2 DEF OpInv, OpOK
<1> QED
  BY <1>1, <1>2 DEF Next, CreateJob, RegisterNode, FatalMapWrite, Rest, vars,
     store, locals, dispatchLocals
-----------------------------------------------------------------------------
(* Store errors, crashes and restarts, for any number of handlers.         *)

\* The steps that StoreBackend adds to those of ControlPlane.
LEMMA BackendSteps ==
    ASSUME [BackendNext]_allVars
    PROVE  \/ [Next]_vars
           \/ \E h \in Handlers : StoreError(h) \/ PopTied(h)
           \/ Crash
           \/ Restart
  BY DEF BackendNext, Served, Next, allVars

\* A call that reports an error has done what a call that succeeds does, or
\* nothing, and the handler gives up.
LEMMA StoreErrorEffect ==
    ASSUME NEW h \in Handlers, StoreError(h)
    PROVE  /\ jobs' = jobs \/ WritesJob(h)
           /\ executions' = executions \/ Opens(h) \/ Closes(h)
           /\ PlaceFailed(h)
<1>1. PlaceFailed(h)
  BY DEF StoreError, AfterError
<1>2. CASE NotExecuted(h)
  BY <1>1, <1>2 DEF NotExecuted
<1>3. CASE Executed(h) /\ pc[h] \in JobWrites
  <2>1. jobs' = [jobs EXCEPT ![snap[h].id] = Written(h)]
        /\ executions' = executions
    BY <1>3 DEF Executed, UpdateJob, JobWrites, Reads
  <2>2. WritesJob(h)
    BY <1>3, <2>1 DEF WritesJob, Writes, Written, Failure, JobWrites
  <2> QED
    BY <1>1, <2>1, <2>2
<1>4. CASE Executed(h) /\ pc[h] \notin JobWrites
  BY <1>1, <1>4 DEF Executed, Opens, Closes
<1> QED
  BY <1>2, <1>3, <1>4 DEF StoreError

LEMMA WritesTyped ==
    ASSUME Typed, NEW h \in Handlers, WritesJob(h)
    PROVE  jobs' \in [Jobs -> Job]
<1>1. snap[h] \in Snapshot /\ snap[h].retry \in Nat
  BY DEF WritesJob, Writes, Typed, HandlerOK, Holding, Labels, Snapshot
<1>2. Failure(h) \in Job
  BY <1>1 DEF Failure, AfterFailure, Job, JobStatus
<1>3. \A st \in JobStatus : WithStatus(h, st) \in Job
  BY <1>1 DEF WithStatus, Job
<1> QED
  BY <1>2, <1>3 DEF WritesJob, Writes, JobStatus, Typed, TypeOK

LEMMA OpensTyped ==
    ASSUME Typed, NEW h \in Handlers, Opens(h)
    PROVE  /\ executions' \in Seq(Execution)
           /\ Len(executions') = Len(executions) + 1
           /\ \A i \in 1..Len(executions) : executions'[i] = executions[i]
<1>1. executions \in Seq(Execution) /\ Len(executions) \in Nat
  BY DEF Typed, TypeOK
<1>2. NewExecution(snap[h]) \in Execution
  BY DEF Opens, NewExecution, Execution, ExecutionStatus, Typed, HandlerOK,
     Holding, Labels, Snapshot
<1> QED
  BY <1>1, <1>2 DEF Opens

\* The handlers that a step of h does not concern.
LEMMA FaultFrame ==
    ASSUME Typed, NEW h \in Handlers, NEW g \in Handlers, g # h,
           StoreError(h) \/ PopTied(h)
    PROVE  SameLocals(g)
<1>1. ASSUME Return(h) PROVE SameLocals(g)
  BY <1>1 DEF Return, Goto, SameLocals, Typed, TypeOK
<1>2. ASSUME PlaceFailed(h) PROVE SameLocals(g)
  BY <1>1, <1>2 DEF PlaceFailed, Goto, Hold, dispatchLocals, SameLocals, Typed,
     TypeOK
<1>3. CASE PopTied(h)
  BY <1>3 DEF PopTied, Goto, Hold, SameLocals, Typed, TypeOK
<1> QED
  BY <1>2, <1>3, StoreErrorEffect

\* A copy leaves the queue and is placed.
Popped(h) ==
    \E s \in queue[h] :
        /\ queue'[h] = queue[h] \ {s}
        /\ snap'[h] = s
        /\ pc[h] = "pop" /\ pc'[h] \in {"list_nodes", "mark_scheduled"}
        /\ jobs' = jobs /\ executions' = executions
        /\ op' = op /\ exec' = exec

LEMMA PopEffect ==
    ASSUME Typed, NEW h \in Handlers, Pop(h) \/ PopTied(h)
    PROVE  Popped(h)
  BY DEF Pop, PopTied, Popped, Without, PlaceLabel, Hold, Goto, At, store,
     Typed, TypeOK

LEMMA FaultTyped == Typed /\ [BackendNext]_allVars => Typed'
<1> SUFFICES ASSUME Typed, [BackendNext]_allVars PROVE Typed'
  OBVIOUS
<1>1. ASSUME NEW h \in Handlers, StoreError(h) PROVE Typed'
  <2>1. LocalsTyped'
    BY <1>1, StoreErrorEffect, PlaceFailedTyped
  <2>2. jobs' \in [Jobs -> Job]
    BY <1>1, StoreErrorEffect, WritesTyped DEF Typed, TypeOK
  <2>3. executions' \in Seq(Execution)
    BY <1>1, StoreErrorEffect, OpensTyped, ClosesTyped DEF Typed, TypeOK
  <2>4. metrics' \in [Metrics -> Nat]
    BY <1>1, CountTyped DEF StoreError, Typed, TypeOK
  <2>5. SharedTyped'
    BY <1>1, <2>2, <2>3, <2>4, TypedParts DEF StoreError, SharedTyped
  <2> QED
    BY <2>1, <2>5, TypedParts
<1>2. ASSUME NEW h \in Handlers, PopTied(h) PROVE Typed'
  BY <1>2 DEF PopTied, Without, At, Goto, Hold, PlaceLabel, Typed, TypeOK,
     HandlerOK, store, Labels, Holding, Ops
<1>3. CASE Crash
  <2>1. LocalsTyped'
    BY <1>3 DEF Crash, LocalsTyped, HandlerOK, Labels, Holding
  <2>2. SharedTyped'
    BY <1>3, TypedParts DEF Crash, store, SharedTyped
  <2> QED
    BY <2>1, <2>2, TypedParts
<1>4. CASE Restart
  BY <1>4 DEF Restart, store, locals, dispatchLocals, Typed, TypeOK, HandlerOK
<1> QED
  BY <1>1, <1>2, <1>3, <1>4, BackendSteps, TypedNext

LEMMA FaultOp == Typed /\ OpInv /\ [BackendNext]_allVars => OpInv'
<1> SUFFICES ASSUME Typed, OpInv, [BackendNext]_allVars PROVE OpInv'
  OBVIOUS
<1>1. ASSUME NEW h \in Handlers, StoreError(h) \/ PopTied(h) PROVE OpInv'
  <2>1. \A g \in Handlers : g # h => OpOK(g)'
    BY <1>1, FaultFrame DEF OpInv, OpOK, SameLocals
  <2>2. CASE StoreError(h)
    BY <2>1, <2>2, StoreErrorEffect, PlaceFailedOp DEF OpInv
  <2>3. CASE PopTied(h)
    <3>1. OpOK(h)'
      BY <2>3, PopEffect DEF Popped, OpInv, OpOK, Owning, Attempting
    <3> QED
      BY <2>1, <3>1 DEF OpInv
  <2> QED
    BY <1>1, <2>2, <2>3
<1>2. CASE Crash
  BY <1>2 DEF Crash, OpInv, OpOK, Owning, Attempting
<1>3. CASE Restart
  BY <1>3 DEF Restart, OpInv, OpOK, locals, dispatchLocals
<1> QED
  BY <1>1, <1>2, <1>3, BackendSteps, OpNext

\* A handler that gives up lets go of the execution it has, as it is.
LEMMA GiveUpFrees ==
    ASSUME Typed, ExecInv, OpInv, NEW h \in Handlers, PlaceFailed(h)
    PROVE  pc'[h] \in {"idle", "pop"} /\ exec'[h] = 0
<1>1. CASE op[h] = "dispatch"
  <2>1. pc[h] \notin Owning
    BY <1>1 DEF OpInv, OpOK
  <2>2. exec[h] = 0
    BY <2>1 DEF ExecInv, ExecOK
  <2> QED
    BY <1>1, <2>2 DEF PlaceFailed, Goto, Typed, TypeOK
<1>2. CASE op[h] # "dispatch"
  BY <1>2 DEF PlaceFailed, Return, Goto, Typed, TypeOK
<1> QED
  BY <1>1, <1>2

LEMMA FaultExec ==
    Typed /\ OpInv /\ ExecInv /\ [BackendNext]_allVars => ExecInv'
<1> SUFFICES ASSUME Typed, OpInv, ExecInv, [BackendNext]_allVars PROVE ExecInv'
  OBVIOUS
<1>0. Len(executions) \in Nat /\ exec \in [Handlers -> Nat]
  BY DEF Typed, TypeOK
<1>1. ASSUME NEW h \in Handlers, StoreError(h) PROVE ExecInv'
  <2>1. \A g \in Handlers : g # h => SameLocals(g)
    BY <1>1, FaultFrame
  <2>2. pc'[h] \in {"idle", "pop"} /\ exec'[h] = 0
    BY <1>1, StoreErrorEffect, GiveUpFrees
  <2>3. /\ Len(executions') \in Nat /\ Len(executions') >= Len(executions)
        /\ \A i \in 1..Len(executions) : i # exec[h] =>
                executions'[i] = executions[i]
    <3>1. CASE executions' = executions
      BY <1>0, <3>1
    <3>2. CASE Opens(h)
      BY <1>0, <3>2, OpensTyped
    <3>3. CASE Closes(h)
      <4>1. Len(executions') = Len(executions)
        BY <3>3, ClosesTyped
      <4>2. \A i \in 1..Len(executions) : i # exec[h] =>
                executions'[i] = executions[i]
        BY <3>3, ClosesTyped
      <4> QED
        BY <1>0, <4>1, <4>2
    <3> QED
      BY <1>1, <3>1, <3>2, <3>3, StoreErrorEffect
  <2>4. ExecOK(h)'
    BY <2>2, <2>3 DEF ExecOK, Owning, Attempting
  <2>5. ASSUME NEW g \in Handlers, g # h PROVE ExecOK(g)'
    <3>1. exec[g] # 0 => exec[g] # exec[h]
      BY <2>5 DEF ExecInv, OneOwner
    <3>2. ExecOK(g) /\ SameLocals(g)
      BY <2>1, <2>5 DEF ExecInv
    <3> QED
      BY <1>0, <2>3, <3>1, <3>2 DEF ExecOK, SameLocals, Mine, Owning
  <2>6. OneOwner'
    BY <2>1, <2>2 DEF ExecInv, OneOwner, SameLocals
  <2> QED
    BY <2>4, <2>5, <2>6 DEF ExecInv
<1>2. ASSUME NEW h \in Handlers, PopTied(h) PROVE ExecInv'
  <2>1. \A g \in Handlers : g # h => SameLocals(g)
    BY <1>2, FaultFrame
  <2>2. Popped(h)
    BY <1>2, PopEffect
  <2>3. ExecOK(h)'
    BY <2>2 DEF Popped, ExecInv, ExecOK, Owning, Attempting
  <2>4. ASSUME NEW g \in Handlers, g # h PROVE ExecOK(g)'
    BY <2>1, <2>2, <2>4 DEF Popped, ExecInv, ExecOK, SameLocals, Mine
  <2> QED
    BY <2>2, <2>3, <2>4 DEF Popped, ExecInv, OneOwner
<1>3. CASE Crash
  BY <1>0, <1>3 DEF Crash, store, ExecInv, ExecOK, OneOwner, Owning, Attempting
<1>4. CASE Restart
  BY <1>4 DEF Restart, store, locals, ExecInv, ExecOK, OneOwner, Mine
<1> QED
  BY <1>1, <1>2, <1>3, <1>4, BackendSteps, ExecNext

\* With faults too, the log only grows and closes what is open.
LEMMA FaultLog ==
    ASSUME Typed, ExecInv, [BackendNext]_allVars
    PROVE  LogStep
<1>1. ASSUME NEW h \in Handlers, StoreError(h) \/ PopTied(h) PROVE LogStep
  BY <1>1, StoreErrorEffect, PopEffect DEF Popped, LogStep
<1> QED
  BY <1>1, BackendSteps, LogSteps DEF Crash, Restart, store, LogStep

LEMMA FaultBacked ==
    Typed /\ ExecInv /\ BackedInv /\ [BackendNext]_allVars => BackedInv'
<1> SUFFICES ASSUME Typed, ExecInv, BackedInv, [BackendNext]_allVars, LogStep
             PROVE  BackedInv'
  BY FaultLog
<1>1. ASSUME NEW h \in Handlers, StoreError(h) \/ PopTied(h) PROVE BackedInv'
  <2>1. \A g \in Handlers : g # h => SameLocals(g)
    BY <1>1, FaultFrame
  <2>2. ASSUME PlaceFailed(h)
        PROVE  snap'[h] = NoSnapshot /\ queue'[h] \subseteq queue[h]
    BY <2>2 DEF PlaceFailed, Return, Hold, dispatchLocals, Typed, TypeOK
  <2>3. /\ snap'[h] \in {NoSnapshot} \cup queue[h]
        /\ queue'[h] \subseteq queue[h]
        /\ jobs' = jobs \/ WritesJob(h)
    BY <1>1, <2>2, StoreErrorEffect, PopEffect DEF Popped
  <2>4. \A g \in Handlers :
           /\ snap'[g] \in {snap[g], NoSnapshot} \cup queue[g] \cup Copies
           /\ queue'[g] \subseteq queue[g] \cup Copies
    BY <2>1, <2>3 DEF SameLocals
  <2> QED
    BY <2>3, <2>4, BackedStep
<1>2. CASE Crash
  <2>1. /\ jobs' = jobs
        /\ \A g \in Handlers : snap'[g] = NoSnapshot /\ queue'[g] = {}
    BY <1>2 DEF Crash, store
  <2> QED
    BY <2>1, BackedStep
<1>3. CASE Restart
  <2>1. jobs' = jobs /\ snap' = snap /\ queue' = queue
    BY <1>3 DEF Restart, store, locals, dispatchLocals
  <2> QED
    BY <2>1, BackedStep
<1> QED
  BY <1>1, <1>2, <1>3, BackendSteps, BackedNext

Surviving == Layered /\ OpInv

LEMMA SurvivingHolds == BackendSpec => []Surviving
<1>1. BackendInit => Surviving
  BY TypedInit, ExecInit, BackedInit, OpInit DEF BackendInit, Layered, Surviving
<1>2. Surviving /\ [BackendNext]_allVars => Surviving'
  BY FaultTyped, FaultExec, FaultBacked, FaultOp DEF Layered, Surviving
<1> QED
  BY <1>1, <1>2, PTL DEF BackendSpec

\* Whatever store calls fail, executed or not, and wherever the process dies:
\* an outcome that a stored job shows is one that an execution had.
THEOREM OutcomesSurviveFaults == BackendSpec => []OutcomeBacked
<1>1. Surviving => OutcomeBacked
  BY DEF Surviving, Layered, BackedInv, Backed, Legit, OutcomeBacked
<1> QED
  BY <1>1, SurvivingHolds, PTL

\* The execution history implements AttemptLog with faults too: an attempt is
\* numbered k only after k - 1 failed ones, also when a restarted process or a
\* client that saw an error tries again.
THEOREM AttemptLogSurvivesFaults == BackendSpec => AttemptLogSpec
<1>1. BackendInit => Attempts!Init
  BY DEF BackendInit, Init, Attempts!Init
<1>2. Surviving /\ [BackendNext]_allVars => [Attempts!Next]_executions
  BY FaultLog, LogFollows DEF Surviving, Layered
<1> QED
  BY <1>1, <1>2, SurvivingHolds, PTL DEF BackendSpec, AttemptLogSpec,
     Attempts!Spec
-----------------------------------------------------------------------------
(* One request at a time.                                                  *)

OneHandler == \A g, h \in Handlers : g = h

\* The store still holds what the copies of the handler say, and the status
\* that the handler's next UpdateJob relies on.
Fresh(h) ==
    LET job == jobs[snap[h].id]
    IN  /\ pc[h] \in {"list_nodes", "allocate_gpu", "mark_scheduled"} =>
              CanSchedule(job)
        /\ pc[h] \in {"create_execution", "mark_running"} =>
              job.status = "scheduled"
        /\ pc[h] \in Running => job.status = "running"
        /\ pc[h] = "cancel_job" => CanCancel(job)
        /\ pc[h] = "retry_job" => CanRetry(job)
        /\ pc[h] \in Holding \ {"schedule_job"} => job.retry = snap[h].retry

QueueFresh(h) ==
    \A s \in queue[h] : /\ CanSchedule(jobs[s.id])
                        /\ jobs[s.id].retry = s.retry
                        /\ pc[h] \in Holding => s.id # snap[h].id

FreshInv ==
    /\ \A h \in Handlers : Fresh(h) /\ QueueFresh(h)
    /\ \A j \in Jobs : jobs[j].status = "none" => jobs[j].retry = 0
-----------------------------------------------------------------------------
LEMMA FreshInit == Init => FreshInv
  BY DEF Init, FreshInv, Fresh, QueueFresh, Holding, Labels, Running,
     Owning, Attempting, Missing

\* The steps of the handler itself.
LEMMA ArriveFresh ==
    ASSUME OneHandler, Typed, OpInv, FreshInv, NEW h \in Handlers, Arrive(h)
    PROVE  Fresh(h)' /\ QueueFresh(h)' /\ jobs' = jobs
<1> USE DEF FreshInv, OpInv, OpOK, Fresh, QueueFresh, Holding, Labels, Running,
            Owning, Attempting, Accept, At, Goto, Hold, Copy, store,
            dispatchLocals, Typed, TypeOK
<1>1. ASSUME NEW j \in Jobs, ScheduleRequest(h, j)
      PROVE  Fresh(h)' /\ QueueFresh(h)' /\ jobs' = jobs
  BY <1>1 DEF ScheduleRequest, PlaceLabel
<1>2. ASSUME NEW j \in Jobs, RunRequest(h, j)
      PROVE  Fresh(h)' /\ QueueFresh(h)' /\ jobs' = jobs
  BY <1>2 DEF RunRequest, Load
<1>3. ASSUME NEW j \in Jobs, CancelRequest(h, j)
      PROVE  Fresh(h)' /\ QueueFresh(h)' /\ jobs' = jobs
  BY <1>3 DEF CancelRequest
<1>4. ASSUME NEW j \in Jobs, RetryRequest(h, j)
      PROVE  Fresh(h)' /\ QueueFresh(h)' /\ jobs' = jobs
  BY <1>4 DEF RetryRequest
<1>5. ASSUME NEW l \in Limits, DispatchRequest(h, l)
      PROVE  Fresh(h)' /\ QueueFresh(h)' /\ jobs' = jobs
  BY <1>5 DEF DispatchRequest
<1> QED
  BY <1>1, <1>2, <1>3, <1>4, <1>5 DEF Arrive

\* A handler that has returned has nothing that could be stale.
LEMMA ReturnFresh ==
    ASSUME Typed, NEW h \in Handlers, Return(h)
    PROVE  Fresh(h)' /\ QueueFresh(h)'
  BY DEF Return, Goto, OpOK, Fresh, QueueFresh, Holding, Labels, Running,
     Owning, Attempting, Typed, TypeOK

\* Giving up keeps what is queued fresh, whatever has been written for the job
\* that is given up.
LEMMA PlaceFailedFresh ==
    ASSUME Typed, OpInv, FreshInv, NEW h \in Handlers, PlaceFailed(h),
           jobs' = jobs \/ WritesJob(h)
    PROVE  Fresh(h)' /\ QueueFresh(h)'
<1>1. CASE op[h] = "dispatch"
  <2>1. pc'[h] = "pop" /\ queue' = queue
    BY <1>1 DEF PlaceFailed, Goto, dispatchLocals, Typed, TypeOK
  <2>2. \A s \in queue[h] : s.id \in Jobs /\ jobs'[s.id] = jobs[s.id]
    <3>1. \A s \in queue[h] : s.id \in Jobs
      BY DEF Snapshot, Typed, TypeOK
    <3>2. CASE WritesJob(h)
      <4>1. \A s \in queue[h] : s.id # snap[h].id
        BY <3>2 DEF WritesJob, Writes, FreshInv, QueueFresh, Holding, Labels
      <4>2. \A j \in Jobs : j # snap[h].id => jobs'[j] = jobs[j]
        BY <3>2 DEF WritesJob, Writes, Typed, TypeOK
      <4> QED
        BY <3>1, <4>1, <4>2
    <3> QED
      BY <3>1, <3>2
  <2>3. QueueFresh(h)'
    BY <2>1, <2>2 DEF FreshInv, QueueFresh, Holding, Labels
  <2> QED
    BY <2>1, <2>3 DEF Fresh, Holding, Labels, Running
<1>2. CASE op[h] # "dispatch"
  BY <1>2, ReturnFresh DEF PlaceFailed
<1> QED
  BY <1>1, <1>2

\* A copy that leaves the queue is fresh, and the only one of its job.
LEMMA PoppedFresh ==
    ASSUME Typed, FreshInv, NEW h \in Handlers, Popped(h)
    PROVE  Fresh(h)' /\ QueueFresh(h)'
<1>1. PICK s \in queue[h] :
          /\ queue'[h] = queue[h] \ {s}
          /\ snap'[h] = s
          /\ pc[h] = "pop" /\ pc'[h] \in {"list_nodes", "mark_scheduled"}
          /\ jobs' = jobs
  BY DEF Popped
<1>2. \A t \in queue[h] : t \in Snapshot /\ jobs[t.id].retry = t.retry
  BY DEF Typed, TypeOK, FreshInv, QueueFresh
<1>3. \A t \in queue'[h] : t.id # s.id
  BY <1>1, <1>2 DEF Snapshot
<1> QED
  BY <1>1, <1>3 DEF FreshInv, Fresh, QueueFresh, Running

\* A job that is not there has no retries, and no write brings one about.
LEMMA WritesKnown ==
    ASSUME Typed, FreshInv, NEW h \in Handlers, WritesJob(h)
    PROVE  \A j \in Jobs : jobs'[j].status = "none" => jobs'[j].retry = 0
<1>0. jobs \in [Jobs -> Job]
  BY DEF Typed, TypeOK
<1>1. /\ Failure(h).status # "none"
      /\ \A st \in JobStatus : WithStatus(h, st).status # "none"
  BY DEF Failure, AfterFailure, WithStatus, JobStatus
<1>2. \A j \in Jobs : jobs'[j] = jobs[j] \/ jobs'[j].status # "none"
  BY <1>0, <1>1 DEF WritesJob, Writes, JobStatus
<1> QED
  BY <1>2 DEF FreshInv

LEMMA AdvanceFresh ==
    ASSUME OneHandler, Typed, OpInv, FreshInv, NEW h \in Handlers, Advance(h)
    PROVE  Fresh(h)' /\ QueueFresh(h)'
<1> DEFINE Goal == Fresh(h)' /\ QueueFresh(h)'
<1>0. /\ pc[h] \in Holding => snap[h] \in Snapshot /\ snap[h].id \in Jobs
      /\ queue[h] \subseteq Snapshot
      /\ jobs \in [Jobs -> Job]
  BY DEF Typed, TypeOK, HandlerOK, Snapshot
<1>1. CASE ScheduleJob(h)
  <2>1. snap[h].id \in Jobs
    BY <1>0, <1>1 DEF ScheduleJob, At, Holding, Labels
  <2>2. CASE ~CanSchedule(jobs[snap[h].id])
    BY <1>1, <2>2, PlaceFailedFresh DEF ScheduleJob, store
  <2>3. CASE CanSchedule(jobs[snap[h].id])
    BY <1>1, <2>1, <2>3 DEF ScheduleJob, PlaceLabel, FreshInv, OpInv, OpOK, Fresh,
       QueueFresh, Holding, Labels, Running, Owning, Attempting, At, Goto,
       Hold, Copy, store, dispatchLocals, Typed, TypeOK
  <2> QED
    BY <2>2, <2>3
<1>2. CASE SelectNode(h)
  <2>1. CASE PlaceFailed(h)
    BY <1>2, <2>1, PlaceFailedFresh DEF SelectNode, store
  <2>2. CASE ~PlaceFailed(h)
    <3>1. /\ pc[h] = "list_nodes" /\ pc'[h] = "allocate_gpu"
          /\ snap' = snap /\ queue' = queue /\ jobs' = jobs
      BY <1>2, <2>2 DEF SelectNode, At, Goto, store, dispatchLocals, Typed,
         TypeOK
    <3> QED
      BY <3>1 DEF FreshInv, Fresh, QueueFresh, Holding, Labels, Running
  <2> QED
    BY <2>1, <2>2
<1>3. CASE AllocateGPU(h)
  <2>1. CASE PlaceFailed(h)
    BY <1>3, <2>1, PlaceFailedFresh DEF AllocateGPU
  <2>2. CASE ~PlaceFailed(h)
    <3>1. /\ pc[h] = "allocate_gpu" /\ pc'[h] = "mark_scheduled"
          /\ snap' = snap /\ queue' = queue /\ jobs' = jobs
      BY <1>3, <2>2 DEF AllocateGPU, At, Goto, dispatchLocals, Typed, TypeOK
    <3> QED
      BY <3>1 DEF FreshInv, Fresh, QueueFresh, Holding, Labels, Running
  <2> QED
    BY <2>1, <2>2
<1>4. CASE MarkScheduled(h)
  <2>1. /\ pc[h] = "mark_scheduled"
        /\ snap[h].id \in Jobs
        /\ jobs'[snap[h].id] = WithStatus(h, "scheduled")
        /\ \A j \in Jobs : j # snap[h].id => jobs'[j] = jobs[j]
    BY <1>0, <1>4 DEF MarkScheduled, At, UpdateJob, Holding, Labels
  <2>2. CASE Return(h)
    BY <2>2, ReturnFresh
  <2>3. CASE op[h] \in {"run", "batch"}
    BY <1>4, <2>1, <2>3 DEF MarkScheduled, Placed, FreshInv, OpInv, OpOK, Fresh,
       QueueFresh, Holding, Labels, Running, Owning, Attempting, Goto,
       WithStatus, dispatchLocals, Typed, TypeOK
  <2>4. CASE op[h] = "dispatch"
    <3>1. /\ pc'[h] = "pop"
          /\ op' = op
          /\ queue' = queue
      BY <1>4, <2>4 DEF MarkScheduled, Placed, Goto, Typed, TypeOK
    <3>2. QueueFresh(h)'
      BY <1>0, <2>1, <3>1 DEF FreshInv, QueueFresh, Holding, Labels, Snapshot
    <3> QED
      BY <2>4, <3>1, <3>2 DEF OpOK, Fresh, Holding, Labels, Running, Owning,
         Attempting
  <2> QED
    BY <1>4, <2>2, <2>3, <2>4 DEF MarkScheduled, Placed
<1>5. CASE Pop(h)
  BY <1>5, PopEffect, PoppedFresh
<1>6. CASE BeginBatch(h)
  <2>1. CASE Return(h)
    BY <2>1, ReturnFresh
  <2>2. CASE ~Return(h)
    BY <1>6, <2>2 DEF BeginBatch, FreshInv, OpInv, OpOK, Fresh, QueueFresh, Holding,
       Labels, Running, Owning, Attempting, At, Goto, store, Typed, TypeOK
  <2> QED
    BY <2>1, <2>2
<1>7. CASE RunNext(h)
  <2>1. Head(batch[h]) \in Jobs
    BY <1>7 DEF RunNext, At, Typed, TypeOK, HandlerOK
  <2> QED
    BY <1>7, <2>1 DEF RunNext, Load, FreshInv, OpInv, OpOK, Fresh, QueueFresh, Holding,
       Labels, Running, Owning, Attempting, At, Goto, Hold, Copy, store, Typed,
       TypeOK
<1>8. CASE CreateExecution(h)
  BY <1>8 DEF CreateExecution, FreshInv, Fresh, QueueFresh, Holding,
     Labels, Running, Owning, Attempting, At, Goto, dispatchLocals, Typed,
     TypeOK
<1>9. CASE MarkRunning(h)
  <2>1. /\ snap[h].id \in Jobs
        /\ jobs'[snap[h].id] = WithStatus(h, "running")
    BY <1>0, <1>9 DEF MarkRunning, At, UpdateJob, Holding, Labels
  <2> QED
    BY <1>9, <2>1 DEF MarkRunning, FreshInv, OpInv, OpOK, Fresh, QueueFresh, Holding,
       Labels, Running, Owning, Attempting, At, Goto, WithStatus,
       dispatchLocals, Typed, TypeOK
<1>10. CASE Execute(h)
  BY <1>10 DEF Execute, FreshInv, Fresh, QueueFresh, Holding, Labels,
     Running, Owning, Attempting, At, Goto, store, dispatchLocals, Typed, TypeOK
<1>11. CASE UpdateExecution(h)
  BY <1>11 DEF UpdateExecution, FreshInv, Fresh, QueueFresh, Holding,
     Labels, Running, Owning, Attempting, At, Goto, dispatchLocals, Typed,
     TypeOK
<1>12. CASE FinishSucceeded(h)
  <2>1. CASE Return(h)
    BY <2>1, ReturnFresh
  <2>2. CASE ~Return(h)
    BY <1>12, <2>2 DEF FinishSucceeded, FreshInv, OpInv, OpOK, Fresh, QueueFresh,
       Holding, Labels, Running, Owning, Attempting, At, Goto, dispatchLocals,
       Typed, TypeOK
  <2> QED
    BY <2>1, <2>2
<1>13. CASE FinishFailed(h) \/ CancelJob(h) \/ RetryJob(h)
  BY <1>13, ReturnFresh DEF FinishFailed, CancelJob, RetryJob
<1> QED
  BY <1>1, <1>2, <1>3, <1>4, <1>5, <1>6, <1>7, <1>8, <1>9, <1>10, <1>11,
     <1>12, <1>13 DEF Advance

LEMMA FreshNext ==
    ASSUME OneHandler, Typed, OpInv, FreshInv, [Next]_vars
    PROVE  FreshInv'
<1>0. jobs \in [Jobs -> Job]
  BY DEF Typed, TypeOK
<1>1. ASSUME NEW h \in Handlers, Arrive(h) PROVE FreshInv'
  BY <1>1, ArriveFresh DEF OneHandler, FreshInv
<1>2. ASSUME NEW h \in Handlers, Advance(h) PROVE FreshInv'
  <2>1. \A j \in Jobs : jobs'[j].status = "none" => jobs'[j].retry = 0
    BY <1>2, AdvanceWrites, WritesKnown DEF FreshInv
  <2> QED
    BY <1>2, <2>1, AdvanceFresh DEF OneHandler, FreshInv
<1>3. ASSUME NEW j \in Jobs, CreateJob(j) PROVE FreshInv'
  <2>1. /\ jobs[j].status = "none"
        /\ jobs'[j] = NewJob
        /\ \A i \in Jobs : i # j => jobs'[i] = jobs[i]
        /\ pc' = pc /\ op' = op /\ snap' = snap /\ queue' = queue
    BY <1>0, <1>3 DEF CreateJob, locals, dispatchLocals
  <2>3. ASSUME NEW h \in Handlers PROVE Fresh(h)'
    <3>1. CASE pc[h] \in Holding \ {"schedule_job"}
      <4>1. snap[h].id \in Jobs /\ snap[h].id # j
        BY <2>1, <3>1 DEF FreshInv, Fresh, CanSchedule, CanCancel, CanRetry,
           Holding, Labels, Running, Typed, HandlerOK, Snapshot
      <4> QED
        BY <2>1, <4>1 DEF FreshInv, Fresh
    <3>2. CASE pc[h] \notin Holding \ {"schedule_job"}
      BY <2>1, <3>2 DEF Fresh, Holding, Labels, Running
    <3> QED
      BY <3>1, <3>2
  <2>4. ASSUME NEW h \in Handlers PROVE QueueFresh(h)'
    <3>1. \A s \in queue[h] : s.id \in Jobs /\ s.id # j
      <4>1. \A s \in queue[h] : s.id \in Jobs
        BY DEF Typed, TypeOK, Snapshot
      <4>2. \A s \in queue[h] : jobs[s.id].status # "none"
        BY DEF FreshInv, QueueFresh, CanSchedule
      <4> QED
        BY <2>1, <4>1, <4>2
    <3> QED
      BY <2>1, <3>1 DEF FreshInv, QueueFresh
  <2>5. \A i \in Jobs : jobs'[i].status = "none" => jobs'[i].retry = 0
    BY <2>1 DEF FreshInv, NewJob
  <2> QED
    BY <2>3, <2>4, <2>5 DEF FreshInv
<1>4. ASSUME jobs' = jobs, pc' = pc, op' = op, snap' = snap, queue' = queue
      PROVE  FreshInv'
  BY <1>4 DEF FreshInv, Fresh, QueueFresh
<1> QED
  BY <1>1, <1>2, <1>3, <1>4 DEF Next, RegisterNode, FatalMapWrite, Rest, vars,
     store, locals, dispatchLocals

LEMMA FaultFresh ==
    ASSUME OneHandler, Typed, OpInv, FreshInv, [BackendNext]_allVars
    PROVE  FreshInv'
<1>1. ASSUME NEW h \in Handlers, StoreError(h) PROVE FreshInv'
  <2>1. \A j \in Jobs : jobs'[j].status = "none" => jobs'[j].retry = 0
    BY <1>1, StoreErrorEffect, WritesKnown DEF FreshInv
  <2>2. Fresh(h)' /\ QueueFresh(h)'
    BY <1>1, StoreErrorEffect, PlaceFailedFresh
  <2> QED
    BY <2>1, <2>2 DEF OneHandler, FreshInv
<1>2. ASSUME NEW h \in Handlers, PopTied(h) PROVE FreshInv'
  <2>1. Popped(h)
    BY <1>2, PopEffect
  <2>2. Fresh(h)' /\ QueueFresh(h)' /\ jobs' = jobs
    BY <2>1, PoppedFresh DEF Popped
  <2> QED
    BY <2>2 DEF OneHandler, FreshInv
<1>3. CASE Crash
  BY <1>3 DEF Crash, store, FreshInv, Fresh, QueueFresh, Holding, Labels,
     Running
<1>4. CASE Restart
  BY <1>4 DEF Restart, store, locals, dispatchLocals, FreshInv, Fresh,
     QueueFresh
<1> QED
  BY <1>1, <1>2, <1>3, <1>4, BackendSteps, FreshNext

Sequential == Layered /\ OpInv /\ FreshInv

LEMMA SequentialHolds ==
    ASSUME OneHandler
    PROVE  Spec => []Sequential
<1>1. Init => OpInv /\ FreshInv
  BY OpInit, FreshInit
<1>2. Layered /\ OpInv /\ FreshInv /\ [Next]_vars => OpInv' /\ FreshInv'
  BY OpNext, FreshNext DEF Layered
<1> QED
  BY <1>1, <1>2, LayeredHolds, PTL DEF Spec, Sequential

\* How one step changes the stored jobs: a submission, or a write by a handler.
JobsStep == \/ jobs' = jobs
            \/ \E j \in Jobs : CreateJob(j)
            \/ \E h \in Handlers : WritesJob(h)

LEMMA JobsSteps ==
    ASSUME Typed, [Next]_vars
    PROVE  JobsStep
<1>1. ASSUME NEW h \in Handlers, Arrive(h) PROVE jobs' = jobs
  BY <1>1, ArriveCopies
<1> QED
  BY <1>1, AdvanceWrites DEF Next, RegisterNode, FatalMapWrite, Rest, vars,
     store, JobsStep

LEMMA FaultJobs ==
    ASSUME Typed, [BackendNext]_allVars
    PROVE  JobsStep
<1>1. ASSUME NEW h \in Handlers, StoreError(h) \/ PopTied(h) PROVE JobsStep
  BY <1>1, StoreErrorEffect, PopEffect DEF Popped, JobsStep
<1> QED
  BY <1>1, BackendSteps, JobsSteps DEF Crash, Restart, store, JobsStep

LEMMA SequentialFaults ==
    ASSUME OneHandler
    PROVE  BackendSpec => []Sequential
<1>1. BackendInit => FreshInv
  BY FreshInit DEF BackendInit
<1>2. Surviving /\ FreshInv /\ [BackendNext]_allVars => FreshInv'
  BY FaultFresh DEF Surviving, Layered
<1> QED
  BY <1>1, <1>2, SurvivingHolds, PTL DEF BackendSpec, Surviving, Sequential

\* The copy that is written back is that of a job.
LEMMA WriterHolds ==
    ASSUME Typed, NEW h \in Handlers, WritesJob(h)
    PROVE  /\ pc[h] \in Holding \ {"schedule_job"}
           /\ snap[h] \in Snapshot
           /\ snap[h].id \in Jobs
           /\ snap[h].retry \in Nat
<1>1. pc[h] \in Holding \ {"schedule_job"}
  BY DEF WritesJob, Writes, Holding, Labels
<1>2. snap[h] \in Snapshot
  BY <1>1 DEF Typed, HandlerOK
<1> QED
  BY <1>1, <1>2 DEF Snapshot

\* A write by a handler whose copy is fresh is a transition of the job state
\* machine.
LEMMA LifecycleStep ==
    ASSUME Sequential, JobsStep
    PROVE  [Lifecycle!Next]_statusOf
<1>0. jobs \in [Jobs -> Job]
  BY DEF Sequential, Layered, Typed, TypeOK
<1>1. ASSUME NEW j \in Jobs, NEW r, NEW from, NEW to, r.status = to,
             jobs' = [jobs EXCEPT ![j] = r], jobs[j].status \in from
      PROVE  Lifecycle!Move(j, from, to)
  <2>1. statusOf' = [statusOf EXCEPT ![j] = to] /\ statusOf[j] \in from
    BY <1>0, <1>1 DEF statusOf
  <2> QED
    BY <2>1 DEF Lifecycle!Move
<1>2. ASSUME NEW j \in Jobs,
             \/ Lifecycle!Submit(j) \/ Lifecycle!Schedule(j)
             \/ Lifecycle!Start(j) \/ Lifecycle!Finish(j)
             \/ Lifecycle!Cancel(j) \/ Lifecycle!Retry(j)
      PROVE  Lifecycle!Next
  BY <1>2 DEF Lifecycle!Next
<1>3. ASSUME NEW j \in Jobs, CreateJob(j) PROVE Lifecycle!Next
  <2>1. NewJob.status = "pending" /\ jobs[j].status \in {"none"}
    BY <1>3 DEF CreateJob, NewJob
  <2>2. Lifecycle!Move(j, {"none"}, "pending")
    BY <1>1, <1>3, <2>1 DEF CreateJob
  <2> QED
    BY <1>2, <2>2 DEF Lifecycle!Submit
<1>4. ASSUME NEW h \in Handlers, WritesJob(h)
      PROVE  Lifecycle!Next
  <2>0. PICK j \in Jobs : j = snap[h].id
    BY <1>4, WriterHolds DEF Sequential, Layered
  <2>1. Fresh(h) /\ \A st : WithStatus(h, st).status = st
    BY <1>4 DEF Sequential, FreshInv, WithStatus
  <2>2. CASE Writes(h, "mark_scheduled", WithStatus(h, "scheduled"))
    <3>1. jobs[j].status \in {"pending", "retrying"}
      BY <2>0, <2>1, <2>2 DEF Writes, Fresh, CanSchedule
    <3>2. Lifecycle!Move(j, {"pending", "retrying"}, "scheduled")
      BY <1>1, <2>0, <2>1, <2>2, <3>1 DEF Writes
    <3> QED
      BY <1>2, <3>2 DEF Lifecycle!Schedule
  <2>3. CASE Writes(h, "mark_running", WithStatus(h, "running"))
    <3>1. jobs[j].status \in {"scheduled"}
      BY <2>0, <2>1, <2>3 DEF Writes, Fresh
    <3>2. Lifecycle!Move(j, {"scheduled"}, "running")
      BY <1>1, <2>0, <2>1, <2>3, <3>1 DEF Writes
    <3> QED
      BY <1>2, <3>2 DEF Lifecycle!Start
  <2>4. CASE Writes(h, "job_succeeded", WithStatus(h, "succeeded"))
    <3>1. jobs[j].status \in {"running"}
      BY <2>0, <2>1, <2>4 DEF Writes, Fresh, Running
    <3>2. Lifecycle!Move(j, {"running"}, "succeeded")
      BY <1>1, <2>0, <2>1, <2>4, <3>1 DEF Writes
    <3> QED
      BY <1>2, <3>2 DEF Lifecycle!Finish
  <2>5. CASE Writes(h, "job_failed", Failure(h))
    <3>1. jobs[j].status \in {"running"}
      BY <2>0, <2>1, <2>5 DEF Writes, Fresh, Running
    <3>2. Lifecycle!Move(j, {"running"}, Failure(h).status)
      BY <1>1, <2>0, <2>5, <3>1 DEF Writes
    <3>3. Failure(h).status \in {"failed", "retrying"}
      BY DEF Failure, AfterFailure
    <3> QED
      BY <1>2, <3>2, <3>3 DEF Lifecycle!Finish
  <2>6. CASE Writes(h, "cancel_job", WithStatus(h, "cancelled"))
    <3>1. jobs[j].status \in {"pending", "scheduled", "retrying"}
      BY <2>0, <2>1, <2>6 DEF Writes, Fresh, CanCancel
    <3>2. Lifecycle!Move(j, {"pending", "scheduled", "retrying"}, "cancelled")
      BY <1>1, <2>0, <2>1, <2>6, <3>1 DEF Writes
    <3> QED
      BY <1>2, <3>2 DEF Lifecycle!Cancel
  <2>7. CASE Writes(h, "retry_job", WithStatus(h, "pending"))
    <3>1. jobs[j].status \in {"failed", "retrying"}
      BY <2>0, <2>1, <2>7 DEF Writes, Fresh, CanRetry
    <3>2. Lifecycle!Move(j, {"failed", "retrying"}, "pending")
      BY <1>1, <2>0, <2>1, <2>7, <3>1 DEF Writes
    <3> QED
      BY <1>2, <3>2 DEF Lifecycle!Retry
  <2> QED
    BY <1>4, <2>2, <2>3, <2>4, <2>5, <2>6, <2>7 DEF WritesJob
<1>5. CASE jobs' = jobs
  BY <1>5 DEF statusOf
<1> QED
  BY <1>3, <1>4, <1>5 DEF JobsStep

\* With one request at a time, every status change is a transition of the job
\* state machine, for any sequence of submissions and requests.
THEOREM SequentialLifecycle ==
    ASSUME OneHandler
    PROVE  Spec => LifecycleSpec
<1>1. Init => Lifecycle!Init
  BY DEF Init, Lifecycle!Init, statusOf, Missing
<1>2. Sequential /\ [Next]_vars => [Lifecycle!Next]_statusOf
  BY JobsSteps, LifecycleStep DEF Sequential, Layered
<1> QED
  BY <1>1, <1>2, SequentialHolds, PTL DEF Spec, LifecycleSpec, Lifecycle!Spec

\* The same with store errors, crashes and restarts: what a failed call has
\* written all the same is a transition too, and a restarted process goes on
\* from there.
THEOREM LifecycleSurvivesFaults ==
    ASSUME OneHandler
    PROVE  BackendSpec => LifecycleSpec
<1>1. BackendInit => Lifecycle!Init
  BY DEF BackendInit, Init, Lifecycle!Init, statusOf, Missing
<1>2. Sequential /\ [BackendNext]_allVars => [Lifecycle!Next]_statusOf
  BY FaultJobs, LifecycleStep DEF Sequential, Layered
<1> QED
  BY <1>1, <1>2, SequentialFaults, PTL DEF BackendSpec, LifecycleSpec,
     Lifecycle!Spec

\* A counter is only ever replaced by itself or the next one.
LEMMA RetryStep ==
    ASSUME Sequential, JobsStep, NEW j \in Jobs
    PROVE  jobs[j].retry <= jobs'[j].retry
<1>0. jobs \in [Jobs -> Job] /\ jobs[j].retry \in Nat
  BY DEF Sequential, Layered, Typed, TypeOK, Job
<1>1. ASSUME NEW i \in Jobs, CreateJob(i)
      PROVE  jobs[j].retry <= jobs'[j].retry
  BY <1>0, <1>1 DEF CreateJob, NewJob, Sequential, FreshInv
<1>2. ASSUME NEW h \in Handlers, WritesJob(h)
      PROVE  jobs[j].retry <= jobs'[j].retry
  <2>1. /\ jobs[snap[h].id].retry = snap[h].retry
        /\ snap[h].retry \in Nat
    BY <1>2, WriterHolds DEF Sequential, Layered, FreshInv, Fresh
  <2>2. /\ Failure(h).retry \in {snap[h].retry, snap[h].retry + 1}
        /\ \A st \in JobStatus : WithStatus(h, st).retry = snap[h].retry
    BY DEF Failure, AfterFailure, WithStatus
  <2>3. \E r : /\ jobs' = [jobs EXCEPT ![snap[h].id] = r]
               /\ r.retry \in {snap[h].retry, snap[h].retry + 1}
    BY <1>2, <2>2 DEF WritesJob, Writes, JobStatus
  <2> QED
    BY <1>0, <2>1, <2>3
<1>3. CASE jobs' = jobs
  BY <1>0, <1>3
<1> QED
  BY <1>1, <1>2, <1>3 DEF JobsStep

\* With one request at a time, no retry counter ever goes back.
THEOREM SequentialRetries ==
    ASSUME OneHandler
    PROVE  Spec => RetryMonotone
<1>1. Sequential /\ [Next]_vars =>
         [\A j \in Jobs : jobs[j].retry <= jobs'[j].retry]_vars
  BY JobsSteps, RetryStep DEF Sequential, Layered
<1> QED
  BY <1>1, SequentialHolds, PTL DEF Spec, RetryMonotone
-----------------------------------------------------------------------------
(* Executors are called once.                                              *)

\* Every execution of job j whose executor was called has failed, apart from
\* execution e.
AllFailed(j, e) ==
    \A i \in ran : (executions[i].job = j /\ i # e) =>
        executions[i].status = "failed"

\* What a handler that runs a job relies on: its execution is the last one, no
\* executor was called for it too early, and the earlier ones have failed.
RunOK(h) ==
    pc[h] \in Owning =>
        /\ exec[h] = Len(executions)
        /\ pc[h] \in {"mark_running", "execute"} => exec[h] \notin ran
        /\ AllFailed(snap[h].id, exec[h])

\* A job that may be run again, or never was: what was called for it failed.
Spent(j) == jobs[j].status \in {"running", "succeeded"} \/ AllFailed(j, 0)

EffectInv ==
    /\ ran \subseteq 1..Len(executions)
    /\ \A h \in Handlers : RunOK(h)
    /\ \A j \in Jobs : Spent(j)
    /\ EffectsOnce

\* The step at a label is the one that the label stands for.
LEMMA LabelStep ==
    ASSUME NEW h \in Handlers, Advance(h)
    PROVE  /\ pc[h] = "execute" => Execute(h)
           /\ pc[h] \in {"succeeded", "failed"} => UpdateExecution(h)
           /\ pc[h] = "create_execution" => CreateExecution(h)
  BY DEF Advance, ScheduleJob, SelectNode, AllocateGPU, MarkScheduled, Pop,
     BeginBatch, RunNext, CreateExecution, MarkRunning, Execute,
     UpdateExecution, FinishSucceeded, FinishFailed, CancelJob, RetryJob, At

\* Only Execute calls an executor.
LEMMA RanSteps ==
    ASSUME OneHandler, Typed, [BackendNext]_allVars
    PROVE  \/ ran' = ran
           \/ \E h \in Handlers : Execute(h) /\ ran' = ran \cup {exec[h]}
<1>1. CASE /\ Served
           /\ ran' = ran \cup {exec[h] : h \in {g \in Handlers :
                                   At(g, "execute") /\ pc'[g] # "execute"}}
  <2> DEFINE Called == {g \in Handlers : At(g, "execute") /\ pc'[g] # "execute"}
  <2>1. ASSUME NEW g \in Called PROVE Execute(g)
    <3>1. pc[g] = "execute" /\ pc' # pc
      BY <2>1 DEF At
    <3>2. Arrive(g) \/ Advance(g)
      BY <1>1, <2>1, <3>1 DEF Served, CreateJob, RegisterNode, FatalMapWrite,
         Rest, vars, locals, OneHandler
    <3>3. ~Arrive(g)
      BY <3>1 DEF Arrive, ScheduleRequest, RunRequest, CancelRequest,
         RetryRequest, DispatchRequest, Accept, At
    <3> QED
      BY <2>1, <3>1, <3>2, <3>3, LabelStep
  <2>2. CASE Called = {}
    BY <1>1, <2>2
  <2>3. ASSUME NEW g \in Called
        PROVE  Execute(g) /\ ran' = ran \cup {exec[g]}
    BY <1>1, <2>1, <2>3 DEF OneHandler
  <2> QED
    BY <2>2, <2>3
<1>2. ASSUME NEW h \in Handlers, StoreError(h) \/ PopTied(h) PROVE ran' = ran
  BY <1>2 DEF StoreError, Fault, PopTied, backendVars
<1> QED
  BY <1>1, <1>2 DEF BackendNext, Crash, Fault, Restart, allVars, backendVars

\* The executor is called: the handler owns the only execution of the job that
\* may not have failed.
LEMMA ExecuteEffects ==
    ASSUME OneHandler, Sequential, EffectInv, NEW h \in Handlers, Execute(h),
           ran' = ran \cup {exec[h]}
    PROVE  EffectInv'
<1>1. /\ pc[h] = "execute" /\ pc'[h] \in {"succeeded", "failed"}
      /\ exec' = exec /\ snap' = snap /\ jobs' = jobs
      /\ executions' = executions
  BY DEF Execute, At, Goto, store, Sequential, Layered, Typed, TypeOK
<1>2. /\ exec[h] \in 1..Len(executions)
      /\ executions[exec[h]].job = snap[h].id
      /\ snap[h].id \in Jobs
      /\ jobs[snap[h].id].status = "running"
  <2>1. ExecOK(h) /\ Fresh(h) /\ snap[h] \in Snapshot /\ exec[h] \in Nat
    BY <1>1 DEF Sequential, Layered, ExecInv, FreshInv, Typed, HandlerOK,
       Holding, Labels, TypeOK
  <2> QED
    BY <1>1, <2>1 DEF ExecOK, Fresh, Mine, Owning, Attempting, Running, Snapshot
<1>3. RunOK(h) /\ exec[h] = Len(executions) /\ AllFailed(snap[h].id, exec[h])
  BY <1>1 DEF EffectInv, RunOK, Owning, Attempting
<1>4. AllFailed(snap[h].id, exec[h])'
  BY <1>1, <1>3 DEF AllFailed
<1>5. RunOK(h)'
  BY <1>1, <1>3, <1>4 DEF RunOK
<1>6. ASSUME NEW j \in Jobs PROVE Spent(j)'
  <2>1. CASE j = snap[h].id
    BY <1>1, <1>2, <2>1 DEF Spent
  <2>2. CASE j # snap[h].id
    BY <1>1, <1>2, <2>2 DEF EffectInv, Spent, AllFailed
  <2> QED
    BY <2>1, <2>2
<1>7. EffectsOnce'
  <2> SUFFICES ASSUME NEW i \in ran', NEW k \in ran', i < k,
                      executions[i].job = executions[k].job
               PROVE  executions[i].status = "failed"
    BY <1>1 DEF EffectsOnce
  <2>1. i \in 1..Len(executions) /\ k \in 1..Len(executions)
    BY <1>2 DEF EffectInv
  <2>2. i # exec[h] /\ i \in ran
    BY <1>3, <2>1 DEF Sequential, Layered, Typed, TypeOK
  <2>3. CASE k \in ran
    BY <2>2, <2>3 DEF EffectInv, EffectsOnce
  <2>4. CASE k = exec[h]
    BY <1>2, <1>3, <2>2, <2>4 DEF AllFailed
  <2> QED
    BY <2>3, <2>4
<1> QED
  BY <1>2, <1>1, <1>5, <1>6, <1>7 DEF EffectInv, OneHandler

\* An execution is opened, and the handler goes on with it or gives up.
LEMMA OpenEffects ==
    ASSUME OneHandler, Sequential, EffectInv, NEW h \in Handlers, Opens(h),
           jobs' = jobs, ran' = ran, pc'[h] \notin Owning \/ Opened(h)
    PROVE  EffectInv'
<1>1. /\ Len(executions) \in Nat /\ Len(executions') = Len(executions) + 1
      /\ \A i \in 1..Len(executions) : executions'[i] = executions[i]
  BY OpensTyped DEF Sequential, Layered, Typed, TypeOK
<1>2. \A i \in ran : i \in 1..Len(executions) /\ executions'[i] = executions[i]
  BY <1>1 DEF EffectInv
<1>3. \A j, e : AllFailed(j, e) => AllFailed(j, e)'
  BY <1>2 DEF AllFailed
<1>4. RunOK(h)'
  <2>1. CASE Opened(h)
    <3>1. snap[h].id \in Jobs /\ jobs[snap[h].id].status = "scheduled"
      BY <2>1 DEF Opened, Sequential, Layered, Typed, HandlerOK, Holding,
         Labels, Snapshot, FreshInv, Fresh
    <3>2. AllFailed(snap[h].id, 0)
      BY <3>1 DEF EffectInv, Spent
    <3>3. AllFailed(snap[h].id, Len(executions) + 1)
      BY <3>2, <1>2 DEF AllFailed
    <3>4. AllFailed(snap[h].id, exec[h])'
      BY <1>2, <2>1, <3>3 DEF Opened, AllFailed
    <3>5. exec'[h] = Len(executions') /\ exec'[h] \notin ran'
      BY <1>1, <1>2, <2>1 DEF Opened
    <3> QED
      BY <3>4, <3>5 DEF RunOK
  <2>2. CASE pc'[h] \notin Owning
    BY <2>2 DEF RunOK
  <2> QED
    BY <2>1, <2>2
<1>5. \A j \in Jobs : Spent(j)'
  BY <1>3 DEF EffectInv, Spent
<1>6. EffectsOnce'
  BY <1>2 DEF EffectInv, EffectsOnce
<1>7. ran' \subseteq 1..Len(executions')
  BY <1>1, <1>2
<1> QED
  BY <1>4, <1>5, <1>6, <1>7 DEF EffectInv, OneHandler

\* An execution is closed, and the handler goes on to the job or gives up: the
\* job is stored as running, so that nothing is said of its last execution.
LEMMA CloseEffects ==
    ASSUME OneHandler, Sequential, EffectInv, NEW h \in Handlers, Closes(h),
           jobs' = jobs, ran' = ran, pc'[h] \notin Owning \/ Closed(h)
    PROVE  EffectInv'
<1>0. Len(executions) \in Nat
  BY DEF Sequential, Layered, Typed, TypeOK
<1>1. /\ pc[h] \in Owning
      /\ exec[h] \in 1..Len(executions)
      /\ executions[exec[h]] = Mine(h, "running")
      /\ snap[h].id \in Jobs
      /\ jobs[snap[h].id].status = "running"
  <2>1. ExecOK(h) /\ Fresh(h) /\ snap[h] \in Snapshot /\ exec[h] \in Nat
    BY DEF Closes, Sequential, Layered, ExecInv, FreshInv, Typed, HandlerOK,
       Holding, Labels, TypeOK
  <2> QED
    BY <2>1 DEF Closes, ExecOK, Fresh, Owning, Attempting, Running, Snapshot
<1>2. exec[h] = Len(executions) /\ AllFailed(snap[h].id, exec[h])
  BY <1>1 DEF EffectInv, RunOK
<1>3. /\ Len(executions') = Len(executions)
      /\ \A i \in 1..Len(executions) : i # exec[h] =>
            executions'[i] = executions[i]
      /\ executions'[exec[h]].job = snap[h].id
  <2>1. Len(executions') = Len(executions)
    BY ClosesTyped DEF Sequential, Layered
  <2>2. \A i \in 1..Len(executions) : executions'[i] =
            IF i = exec[h] THEN [executions[i] EXCEPT !.status = pc[h]]
                           ELSE executions[i]
    BY ClosesTyped DEF Sequential, Layered
  <2>3. [Mine(h, "running") EXCEPT !.status = pc[h]].job = snap[h].id
    BY DEF Mine
  <2> QED
    BY <1>1, <2>1, <2>2, <2>3
<1>4. /\ ran \subseteq 1..Len(executions)
      /\ executions[exec[h]].job = snap[h].id
      /\ \A i \in 1..Len(executions) : executions'[i].job = executions[i].job
  <2>1. executions[exec[h]].job = snap[h].id
    BY <1>1 DEF Mine
  <2> QED
    BY <1>3, <2>1 DEF EffectInv
<1>5. AllFailed(snap[h].id, exec[h])' \/ pc'[h] \notin Owning
  BY <1>2, <1>3, <1>4 DEF AllFailed, Closed
<1>6. RunOK(h)'
  BY <1>2, <1>3, <1>5 DEF RunOK, Closed
<1>7. ASSUME NEW j \in Jobs PROVE Spent(j)'
  <2>1. CASE j = snap[h].id
    BY <1>1, <2>1 DEF Spent
  <2>2. CASE j # snap[h].id
    <3>1. \A i \in ran : executions'[i].job = j => executions'[i] = executions[i]
      BY <1>3, <1>4, <2>2
    <3> QED
      BY <1>4, <3>1 DEF EffectInv, Spent, AllFailed
  <2> QED
    BY <2>1, <2>2
<1>8. EffectsOnce'
  <2> SUFFICES ASSUME NEW i \in ran, NEW k \in ran, i < k,
                      executions'[i].job = executions'[k].job
               PROVE  executions'[i].status = "failed"
    BY DEF EffectsOnce
  <2>1. i \in 1..Len(executions) /\ k \in 1..Len(executions)
    BY <1>4
  <2>2. i # exec[h] /\ executions[i].job = executions[k].job
    BY <1>0, <1>2, <1>4, <2>1
  <2> QED
    BY <1>3, <2>1, <2>2 DEF EffectInv, EffectsOnce
<1> QED
  BY <1>3, <1>4, <1>6, <1>7, <1>8 DEF EffectInv, OneHandler

\* A step that leaves the log alone: a job that becomes one that may be run has
\* no execution that could have had its effect.
LEMMA WriteEffects ==
    ASSUME OneHandler, Sequential, EffectInv, JobsStep, ran' = ran,
           executions' = executions,
           \A h \in Handlers :
              \/ pc'[h] \notin Owning
              \/ /\ pc[h] \in Owning
                 /\ exec'[h] = exec[h] /\ snap'[h] = snap[h]
                 /\ pc'[h] \in {"mark_running", "execute"} =>
                       pc[h] \in {"mark_running", "execute"}
    PROVE  EffectInv'
<1>0. jobs \in [Jobs -> Job]
  BY DEF Sequential, Layered, Typed, TypeOK
<1>1. \A j, e : AllFailed(j, e) => AllFailed(j, e)'
  BY DEF AllFailed
<1>2. \A h \in Handlers : RunOK(h)'
  <2> SUFFICES ASSUME NEW h \in Handlers, pc'[h] \in Owning PROVE RunOK(h)'
    BY DEF RunOK
  <2>1. AllFailed(snap[h].id, exec[h])
    BY DEF EffectInv, RunOK
  <2>2. AllFailed(snap[h].id, exec[h])'
    BY <2>1 DEF AllFailed
  <2> QED
    BY <2>2 DEF EffectInv, RunOK
<1>3. \A j \in Jobs : Spent(j)'
  <2>1. ASSUME NEW j \in Jobs, jobs'[j] = jobs[j] PROVE Spent(j)'
    BY <1>1, <2>1 DEF EffectInv, Spent
  <2>2. ASSUME NEW j \in Jobs, CreateJob(j) PROVE \A i \in Jobs : Spent(i)'
    <3>1. AllFailed(j, 0)
      BY <2>2 DEF CreateJob, EffectInv, Spent
    <3> QED
      BY <1>0, <1>1, <2>1, <2>2, <3>1 DEF CreateJob, Spent
  <2>3. ASSUME NEW h \in Handlers, WritesJob(h)
        PROVE  \A i \in Jobs : Spent(i)'
    <3>0. PICK j \in Jobs : j = snap[h].id
      BY <2>3, WriterHolds DEF Sequential, Layered
    <3>1. Fresh(h) /\ ExecOK(h) /\ RunOK(h)
      BY DEF Sequential, Layered, ExecInv, FreshInv, EffectInv
    <3>2. \A i \in Jobs : i # j => jobs'[i] = jobs[i]
      BY <1>0, <2>3, <3>0 DEF WritesJob, Writes
    <3>3. Spent(j)'
      <4>1. CASE pc[h] \in {"mark_running", "job_succeeded"}
        <5>1. jobs'[j].status \in {"running", "succeeded"}
          BY <1>0, <2>3, <3>0, <4>1 DEF WritesJob, Writes, WithStatus
        <5> QED
          BY <5>1 DEF Spent
      <4>2. CASE pc[h] = "job_failed"
        <5>1. executions[exec[h]].status = "failed"
          BY <3>1, <4>2 DEF ExecOK, Mine
        <5>2. AllFailed(j, exec[h])
          BY <3>0, <3>1, <4>2 DEF RunOK, Owning
        <5>3. AllFailed(j, 0)
          BY <5>1, <5>2 DEF AllFailed
        <5> QED
          BY <1>1, <5>3 DEF Spent
      <4>3. CASE pc[h] \in {"mark_scheduled", "cancel_job", "retry_job"}
        <5>1. jobs[j].status \notin {"running", "succeeded"}
          BY <3>0, <3>1, <4>3 DEF Fresh, CanSchedule, CanCancel, CanRetry
        <5>2. AllFailed(j, 0)
          BY <5>1 DEF EffectInv, Spent
        <5> QED
          BY <1>1, <5>2 DEF Spent
      <4> QED
        BY <2>3, <4>1, <4>2, <4>3 DEF WritesJob, Writes
    <3> QED
      BY <2>1, <3>2, <3>3
  <2> QED
    BY <2>1, <2>2, <2>3 DEF JobsStep
<1>4. EffectsOnce'
  BY DEF EffectInv, EffectsOnce
<1> QED
  BY <1>2, <1>3, <1>4 DEF EffectInv

LEMMA EffectNext ==
    ASSUME OneHandler, Sequential, EffectInv, [BackendNext]_allVars
    PROVE  EffectInv'
<1>0. Typed /\ ExecInv /\ OpInv /\ JobsStep
  BY FaultJobs DEF Sequential, Layered
<1> DEFINE Keeps(h) ==
        \/ pc'[h] \notin Owning
        \/ /\ pc[h] \in Owning
           /\ exec'[h] = exec[h] /\ snap'[h] = snap[h]
           /\ pc'[h] \in {"mark_running", "execute"} =>
                 pc[h] \in {"mark_running", "execute"}
<1>1. ASSUME NEW h \in Handlers, Execute(h), ran' = ran \cup {exec[h]}
      PROVE  EffectInv'
  BY <1>1, ExecuteEffects
<1>2. ASSUME ran' = ran, executions' = executions, \A h \in Handlers : Keeps(h)
      PROVE  EffectInv'
  BY <1>0, <1>2, WriteEffects
<1>3. ASSUME ran' = ran, NEW h \in Handlers, Advance(h) PROVE EffectInv'
  <2>1. CASE CreateExecution(h)
    <3>1. Opens(h) /\ jobs' = jobs
      BY <2>1 DEF CreateExecution, At, Opens
    <3> QED
      BY <1>0, <1>3, <2>1, <3>1, CreateExecutionEffect, OpenEffects
  <2>2. CASE UpdateExecution(h)
    <3>1. Closes(h) /\ jobs' = jobs
      BY <2>2 DEF UpdateExecution, At, Closes
    <3> QED
      BY <1>0, <1>3, <2>2, <3>1, UpdateExecutionEffect, CloseEffects
  <2>3. CASE ~CreateExecution(h) /\ ~UpdateExecution(h)
    <3>1. KeepsOrFree(h)
      BY <1>0, <1>3, <2>3, AdvanceOwnership
    <3>2. pc[h] \notin {"succeeded", "failed"}
      BY <1>3, <2>3, LabelStep
    <3>3. Keeps(h)
      BY <3>1, <3>2 DEF KeepsOrFree, Owning, Attempting
    <3> HIDE DEF Keeps
    <3> QED
      BY <1>2, <1>3, <3>1, <3>3 DEF KeepsOrFree, OneHandler
  <2> QED
    BY <2>1, <2>2, <2>3
<1>4. ASSUME ran' = ran, NEW h \in Handlers, Arrive(h) PROVE EffectInv'
  <2>1. KeepsOrFree(h) /\ pc[h] = "idle"
    BY <1>0, <1>4, ArriveOwnership DEF Arrive, ScheduleRequest, RunRequest,
       CancelRequest, RetryRequest, DispatchRequest, Accept, At
  <2>2. Keeps(h)
    BY <2>1 DEF KeepsOrFree, Attempting
  <2> HIDE DEF Keeps
  <2> QED
    BY <1>2, <1>4, <2>1, <2>2 DEF KeepsOrFree, OneHandler
<1>5. ASSUME ran' = ran, NEW h \in Handlers, StoreError(h) PROVE EffectInv'
  <2>1. pc'[h] \notin Owning
    BY <1>0, <1>5, StoreErrorEffect, GiveUpFrees DEF Owning, Attempting
  <2>2. CASE executions' = executions
    BY <1>2, <1>5, <2>1, <2>2 DEF OneHandler
  <2>3. CASE Opens(h) \/ Closes(h)
    <3>1. jobs' = jobs
      BY <1>5, <2>3, StoreErrorEffect DEF WritesJob, Writes, Opens, Closes
    <3> QED
      BY <1>5, <2>1, <2>3, <3>1, OpenEffects, CloseEffects
  <2> QED
    BY <1>5, <2>2, <2>3, StoreErrorEffect
<1>6. ASSUME ran' = ran, NEW h \in Handlers, PopTied(h) PROVE EffectInv'
  <2>1. pc'[h] \notin Owning /\ executions' = executions
    BY <1>0, <1>6, PopEffect DEF Popped, Owning, Attempting
  <2> QED
    BY <1>2, <1>6, <2>1 DEF OneHandler
<1>7. ASSUME ran' = ran, Crash PROVE EffectInv'
  <2>1. /\ executions' = executions
        /\ \A h \in Handlers : pc'[h] \notin Owning
    BY <1>7 DEF Crash, store, Owning, Attempting
  <2> QED
    BY <1>2, <1>7, <2>1
<1>8. ASSUME ran' = ran, executions' = executions, pc' = pc, exec' = exec,
             snap' = snap
      PROVE  EffectInv'
  BY <1>2, <1>8
<1> QED
  BY <1>1, <1>3, <1>4, <1>5, <1>6, <1>7, <1>8, RanSteps, BackendSteps, <1>0
     DEF Next, CreateJob, RegisterNode, FatalMapWrite, Rest, Restart, vars,
         store, locals

\* What an executor does is done once: with one request at a time, whatever
\* store calls fail and wherever the process dies, a job is executed again only
\* after executions that were recorded as failed.
THEOREM EffectsSurviveFaults ==
    ASSUME OneHandler
    PROVE  BackendSpec => []EffectsOnce
<1>1. BackendInit => EffectInv
  BY DEF BackendInit, Init, EffectInv, RunOK, Spent, AllFailed, EffectsOnce,
     Owning, Attempting
<1>2. Sequential /\ EffectInv /\ [BackendNext]_allVars => EffectInv'
  BY EffectNext
<1>3. EffectInv => EffectsOnce
  BY DEF EffectInv
<1> QED
  BY <1>1, <1>2, <1>3, SequentialFaults, PTL DEF BackendSpec
=============================================================================
