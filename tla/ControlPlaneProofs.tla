------------------------- MODULE ControlPlaneProofs -------------------------
(***************************************************************************)
(* Machine-checked proofs about ControlPlane, for any number of jobs,      *)
(* handlers, nodes and requests.                                           *)
(***************************************************************************)
EXTENDS ControlPlane, TLAPS, SequenceTheorems, FiniteSetTheorems

\* The labels at which a handler works on a copy of a job.
Holding == Labels \ {"idle", "pop", "run_next"}

\* What the steps of a handler rely on in its own locals.
HandlerOK ==
    \A h \in Handlers :
        /\ pc[h] \in Holding => snap[h] \in Snapshot
        /\ pc[h] = "run_next" => batch[h] # << >>
        /\ pc[h] = "allocate_gpu" => target[h] \in Nodes

Typed == TypeOK /\ HandlerOK
-----------------------------------------------------------------------------
LEMMA TypedInit == Init => Typed
  BY JobsAssumption, BoundsAssumption
     DEF Init, Typed, TypeOK, HandlerOK, Missing, Job, Labels, Holding,
         NoSnapshot, Metrics

\* The typing of a handler's locals, which the steps of placeJob change, and
\* that of the rest of the state.
LocalsTyped ==
    /\ pc \in [Handlers -> Labels]
    /\ op \in [Handlers -> Ops \cup {"none"}]
    /\ snap \in [Handlers -> Snapshot \cup {NoSnapshot}]
    /\ target \in [Handlers -> Nodes \cup {NoNode}]
    /\ exec \in [Handlers -> Nat]
    /\ queue \in [Handlers -> SUBSET Snapshot]
    /\ batch \in [Handlers -> Seq(Jobs)]
    /\ limit \in [Handlers -> Nat]
    /\ HandlerOK

SharedTyped ==
    /\ jobs \in [Jobs -> Job]
    /\ executions \in Seq(Execution)
    /\ nodes \subseteq Nodes
    /\ avail \in [Nodes -> Int]
    /\ assigned \in [Jobs -> Nodes \cup {NoNode}]
    /\ metrics \in [Metrics -> Nat]
    /\ up \in BOOLEAN
    /\ requests \in Nat

LEMMA TypedParts == /\ Typed => LocalsTyped /\ SharedTyped
                    /\ LocalsTyped' /\ SharedTyped' => Typed'
  BY DEF Typed, TypeOK, LocalsTyped, SharedTyped

\* The building blocks keep the types of what they assign.
LEMMA ReturnTyped ==
    ASSUME Typed, NEW h \in Handlers, Return(h)
    PROVE  LocalsTyped'
  BY DEF Typed, TypeOK, HandlerOK, LocalsTyped, Return, Goto, Labels, Holding,
         NoSnapshot

LEMMA PlaceFailedTyped ==
    ASSUME Typed, NEW h \in Handlers, PlaceFailed(h)
    PROVE  LocalsTyped'
<1>1. CASE op[h] = "dispatch"
  BY <1>1 DEF PlaceFailed, Goto, Hold, Typed, TypeOK, HandlerOK, LocalsTyped,
      dispatchLocals, Labels, Holding
<1>2. CASE op[h] # "dispatch"
  BY <1>2, ReturnTyped DEF PlaceFailed
<1> QED
  BY <1>1, <1>2

LEMMA PlacedTyped ==
    ASSUME Typed, NEW h \in Handlers, pc[h] = "mark_scheduled", Placed(h)
    PROVE  LocalsTyped'
<1>0. snap[h] \in Snapshot
  BY DEF Typed, HandlerOK, Holding, Labels
<1>1. CASE op[h] = "schedule"
  BY <1>1, ReturnTyped DEF Placed
<1>2. CASE op[h] \in {"run", "batch"}
  BY <1>0, <1>2 DEF Placed, Goto, Typed, TypeOK, HandlerOK, LocalsTyped,
      dispatchLocals, Labels, Holding
<1>3. CASE op[h] = "dispatch"
  <2>1. Append(batch[h], snap[h].id) \in Seq(Jobs)
    BY <1>0 DEF Typed, TypeOK, Snapshot
  <2>2. batch' \in [Handlers -> Seq(Jobs)]
    BY <1>3, <2>1 DEF Placed, Typed, TypeOK
  <2> QED
    BY <1>3, <2>2 DEF Placed, Goto, Hold, Typed, TypeOK, HandlerOK,
        LocalsTyped, Labels, Holding
<1> QED
  BY <1>1, <1>2, <1>3 DEF Placed

LEMMA CountTyped ==
    ASSUME Typed, NEW W, Count(W)
    PROVE  metrics' \in [Metrics -> Nat]
  BY DEF Typed, TypeOK, Count

LEMMA UpdateJobTyped ==
    ASSUME Typed, NEW h \in Handlers, NEW r \in Job, UpdateJob(h, r)
    PROVE  jobs' \in [Jobs -> Job]
  BY DEF Typed, TypeOK, UpdateJob

\* The statements of CreateExecution and UpdateExecution.
Opens(h) ==
    /\ pc[h] = "create_execution"
    /\ executions' = Append(executions, NewExecution(snap[h]))

Closes(h) ==
    /\ pc[h] \in {"succeeded", "failed"}
    /\ executions' = [executions EXCEPT ![exec[h]].status = pc[h]]

\* UpdateExecution changes the status of one execution, if that.
LEMMA ClosesTyped ==
    ASSUME Typed, NEW h \in Handlers, Closes(h)
    PROVE  /\ executions' \in Seq(Execution)
           /\ Len(executions') = Len(executions)
           /\ \A i \in 1..Len(executions) : executions'[i] =
                IF i = exec[h] THEN [executions[i] EXCEPT !.status = pc[h]]
                               ELSE executions[i]
<1>1. pc[h] \in ExecutionStatus
  BY DEF Closes, ExecutionStatus
<1>2. executions \in Seq(Execution)
  BY DEF Typed, TypeOK
<1>3. executions' = [executions EXCEPT ![exec[h]] =
                        [executions[exec[h]] EXCEPT !.status = pc[h]]]
  BY DEF Closes
<1>4. /\ DOMAIN executions = 1..Len(executions)
      /\ Len(executions) \in Nat
      /\ \A i \in 1..Len(executions) : executions[i] \in Execution
  BY <1>2
<1>5. /\ DOMAIN executions' = 1..Len(executions)
      /\ \A i \in 1..Len(executions) : executions'[i] =
                IF i = exec[h] THEN [executions[i] EXCEPT !.status = pc[h]]
                               ELSE executions[i]
  BY <1>3, <1>4
<1>6. \A i \in 1..Len(executions) : executions'[i] \in Execution
  BY <1>1, <1>4, <1>5 DEF Execution
<1>7. executions' = [i \in 1..Len(executions) |-> executions'[i]]
  BY <1>3, <1>4
<1>8. executions' \in Seq(Execution) /\ Len(executions') = Len(executions)
  BY <1>4, <1>6, <1>7, IsASeq
<1> QED
  BY <1>5, <1>8

LEMMA UpdateExecutionTyped ==
    ASSUME Typed, NEW h \in Handlers, UpdateExecution(h)
    PROVE  /\ executions' \in Seq(Execution)
           /\ Len(executions') = Len(executions)
           /\ \A i \in 1..Len(executions) : executions'[i] =
                IF i = exec[h] THEN [executions[i] EXCEPT !.status = pc[h]]
                               ELSE executions[i]
<1>1. Closes(h)
  BY DEF UpdateExecution, At, Closes
<1> QED
  BY <1>1, ClosesTyped

LEMMA TypedNext == Typed /\ [Next]_vars => Typed'
<1> SUFFICES ASSUME Typed, [Next]_vars PROVE Typed'
  OBVIOUS
<1> USE JobsAssumption, NodesAssumption, BoundsAssumption
<1>1. ASSUME NEW j \in Jobs, CreateJob(j) PROVE Typed'
  <2>1. metrics' \in [Metrics -> Nat]
    BY <1>1, CountTyped DEF CreateJob
  <2>2. NewJob \in Job
    BY DEF NewJob, Job, JobStatus
  <2> QED
    BY <1>1, <2>1, <2>2 DEF CreateJob, Typed, TypeOK, HandlerOK, locals,
        dispatchLocals
<1>2. ASSUME NEW n \in Nodes, RegisterNode(n) PROVE Typed'
  BY <1>2 DEF RegisterNode, Typed, TypeOK, HandlerOK, locals, dispatchLocals,
      TotalGPU
<1>3. ASSUME NEW h \in Handlers, NEW j \in Jobs, ScheduleRequest(h, j)
      PROVE  Typed'
  BY <1>3 DEF ScheduleRequest, Accept, At, Goto, Hold, Copy, PlaceLabel, Typed,
      TypeOK, HandlerOK, store, dispatchLocals, Snapshot, Job, Labels, Holding,
      Ops
<1>4. ASSUME NEW h \in Handlers, NEW j \in Jobs, RunRequest(h, j)
      PROVE  Typed'
  BY <1>4 DEF RunRequest, Load, Accept, At, Goto, Hold, Copy, Typed,
      TypeOK, HandlerOK, store, dispatchLocals, Snapshot, Job, Labels, Holding,
      Ops
<1>5. ASSUME NEW h \in Handlers, NEW j \in Jobs, CancelRequest(h, j)
      PROVE  Typed'
  BY <1>5 DEF CancelRequest, Accept, At, Goto, Hold, Copy, Typed,
      TypeOK, HandlerOK, store, dispatchLocals, Snapshot, Job, Labels, Holding,
      Ops
<1>6. ASSUME NEW h \in Handlers, NEW j \in Jobs, RetryRequest(h, j)
      PROVE  Typed'
  BY <1>6 DEF RetryRequest, Accept, At, Goto, Hold, Copy, Typed,
      TypeOK, HandlerOK, store, dispatchLocals, Snapshot, Job, Labels, Holding,
      Ops
<1>7. ASSUME NEW h \in Handlers, NEW l \in Limits, DispatchRequest(h, l)
      PROVE  Typed'
  <2>1. {Copy(j) : j \in {i \in Jobs : CanSchedule(jobs[i])}} \subseteq Snapshot
    BY DEF Copy, Snapshot, Typed, TypeOK, Job
  <2> QED
    BY <1>7, <2>1 DEF DispatchRequest, Accept, At, Goto, Typed, TypeOK,
        HandlerOK, store, Labels, Holding, Ops
<1>8. ASSUME NEW h \in Handlers, Advance(h) PROVE Typed'
  <2>1. ASSUME ScheduleJob(h) PROVE Typed'
    <3>0. snap[h] \in Snapshot
      BY <2>1 DEF ScheduleJob, At, Typed, HandlerOK, Holding, Labels
    <3>1. CASE CanSchedule(jobs[snap[h].id])
      <4>1. Copy(snap[h].id) \in Snapshot
        BY <3>0 DEF Copy, Snapshot, Typed, TypeOK, Job
      <4>2. PlaceLabel(snap[h].id) \in {"list_nodes", "mark_scheduled"}
        BY DEF PlaceLabel
      <4>3. LocalsTyped'
        <5>1. /\ Hold(h, Copy(snap[h].id))
              /\ Goto(h, PlaceLabel(snap[h].id))
              /\ UNCHANGED <<op, target, exec, dispatchLocals>>
          BY <2>1, <3>1 DEF ScheduleJob
        <5> QED
          BY <5>1, <4>1, <4>2 DEF Goto, Hold, Typed, TypeOK, LocalsTyped,
              HandlerOK, dispatchLocals, Labels, Holding
      <4> QED
        BY <2>1, <4>3, TypedParts DEF ScheduleJob, SharedTyped, store
    <3>2. CASE ~CanSchedule(jobs[snap[h].id])
      BY <2>1, <3>2, PlaceFailedTyped, TypedParts
         DEF ScheduleJob, SharedTyped, store
    <3> QED
      BY <3>1, <3>2
  <2>2. ASSUME SelectNode(h) PROVE Typed'
    <3>0. snap[h] \in Snapshot
      BY <2>2 DEF SelectNode, At, Typed, HandlerOK, Holding, Labels
    <3> DEFINE fits == MatchNode(nodes, avail, GPU[snap[h].id],
                                 parseGPUMemoryMiB(GPUMemory[snap[h].id]))
    <3>1. fits \subseteq Nodes
      BY DEF MatchNode, Candidates, Typed, TypeOK
    <3>2. CASE fits = {}
      BY <2>2, <3>2, PlaceFailedTyped, TypedParts
         DEF SelectNode, SharedTyped, store
    <3>3. CASE fits # {}
      <4>1. PICK n \in Nodes : /\ target' = [target EXCEPT ![h] = n]
                               /\ Goto(h, "allocate_gpu")
                               /\ UNCHANGED <<op, snap, exec, dispatchLocals>>
        BY <2>2, <3>1, <3>3 DEF SelectNode
      <4> QED
        BY <2>2, <3>0, <4>1 DEF SelectNode, Goto, Typed, TypeOK, HandlerOK,
            store, dispatchLocals, Labels, Holding
    <3> QED
      BY <3>2, <3>3
  <2>3. ASSUME AllocateGPU(h) PROVE Typed'
    <3>0. /\ snap[h] \in Snapshot
          /\ target[h] \in Nodes
          /\ GPU[snap[h].id] \in Nat
      BY <2>3 DEF AllocateGPU, At, Typed, HandlerOK, Holding, Labels, Snapshot
    <3>1. CASE avail[target[h]] >= GPU[snap[h].id]
      <4>1. avail' \in [Nodes -> Int]
        BY <2>3, <3>0, <3>1 DEF AllocateGPU, Sufficient, Remaining, Typed, TypeOK
      <4>2. LocalsTyped'
        <5>1. /\ Goto(h, "mark_scheduled")
              /\ UNCHANGED <<op, snap, target, exec, dispatchLocals>>
          BY <2>3, <3>0, <3>1 DEF AllocateGPU, Sufficient, Remaining, Typed, TypeOK
        <5> QED
          BY <5>1, <3>0 DEF Goto, Typed, TypeOK, LocalsTyped, HandlerOK,
              dispatchLocals, Labels, Holding
      <4> QED
        BY <2>3, <4>1, <4>2, TypedParts DEF AllocateGPU, SharedTyped
    <3>2. CASE avail[target[h]] < GPU[snap[h].id]
      BY <2>3, <3>0, <3>2, PlaceFailedTyped, TypedParts
         DEF AllocateGPU, Sufficient, Remaining, SharedTyped
    <3> QED
      <4>1. avail[target[h]] \in Int
        BY <3>0 DEF Typed, TypeOK
      <4> QED
        BY <3>0, <3>1, <3>2, <4>1
  <2>4. ASSUME MarkScheduled(h) PROVE Typed'
    <3>1. metrics' \in [Metrics -> Nat]
      BY <2>4, CountTyped DEF MarkScheduled
    <3>2. jobs' \in [Jobs -> Job]
      BY <2>4 DEF MarkScheduled, UpdateJob, WithStatus, At, Typed, TypeOK,
          HandlerOK, Snapshot, Holding, Labels, Job, JobStatus
    <3>3. LocalsTyped'
      BY <2>4, PlacedTyped DEF MarkScheduled, At
    <3>4. assigned' \in [Jobs -> Nodes \cup {NoNode}]
      BY <2>4 DEF MarkScheduled, Typed, TypeOK
    <3>5. SharedTyped'
      BY <2>4, <3>1, <3>2, <3>4, TypedParts DEF MarkScheduled, SharedTyped
    <3> QED
      BY <3>3, <3>5, TypedParts
  <2>5. ASSUME Pop(h) PROVE Typed'
    BY <2>5 DEF Pop, Without, At, Goto, Hold, PlaceLabel, Typed, TypeOK, HandlerOK,
        store, Labels, Holding, Ops
  <2>6. ASSUME BeginBatch(h) PROVE Typed'
    <3>1. SharedTyped'
      BY <2>6, TypedParts DEF BeginBatch, SharedTyped, store
    <3>2. CASE batch[h] = << >>
      BY <2>6, <3>1, <3>2, ReturnTyped, TypedParts DEF BeginBatch
    <3>3. CASE batch[h] # << >>
      <4>1. LocalsTyped'
        BY <2>6, <3>3 DEF BeginBatch, Goto, Typed, TypeOK, HandlerOK,
            LocalsTyped, Labels, Holding, Ops
      <4> QED
        BY <3>1, <4>1, TypedParts
    <3> QED
      BY <3>2, <3>3
  <2>7. ASSUME RunNext(h) PROVE Typed'
    <3>1. /\ batch[h] \in Seq(Jobs)
          /\ batch[h] # << >>
      BY <2>7 DEF RunNext, At, Typed, TypeOK, HandlerOK
    <3>2. /\ Head(batch[h]) \in Jobs
          /\ Tail(batch[h]) \in Seq(Jobs)
      BY <3>1
    <3> QED
      BY <2>7, <3>2 DEF RunNext, Load, At, Goto, Hold, Copy, Typed, TypeOK,
        HandlerOK, store, Snapshot, Job, Labels, Holding
  <2>8. ASSUME CreateExecution(h) PROVE Typed'
    BY <2>8 DEF CreateExecution, NewExecution, nextID, At, Goto, Typed, TypeOK, HandlerOK,
        Execution, ExecutionStatus, dispatchLocals, Snapshot, Labels, Holding
  <2>9. ASSUME MarkRunning(h) PROVE Typed'
    <3>1. metrics' \in [Metrics -> Nat]
      BY <2>9, CountTyped DEF MarkRunning
    <3>2. jobs' \in [Jobs -> Job]
      BY <2>9 DEF MarkRunning, UpdateJob, WithStatus, At, Typed, TypeOK,
          HandlerOK, Snapshot, Holding, Labels, Job, JobStatus
    <3> QED
      BY <2>9, <3>1, <3>2 DEF MarkRunning, At, Goto, Typed, TypeOK, HandlerOK,
          dispatchLocals, Labels, Holding
  <2>10. ASSUME Execute(h) PROVE Typed'
    BY <2>10 DEF Execute, At, Goto, Typed, TypeOK, HandlerOK, store,
        dispatchLocals, Labels, Holding
  <2>11. ASSUME UpdateExecution(h) PROVE Typed'
    <3>1. executions' \in Seq(Execution)
      BY <2>11, UpdateExecutionTyped
    <3> QED
      BY <2>11, <3>1 DEF UpdateExecution, At, Goto, Typed, TypeOK, HandlerOK,
        dispatchLocals, Labels, Holding
  <2>12. ASSUME FinishSucceeded(h) PROVE Typed'
    <3>1. metrics' \in [Metrics -> Nat]
      BY <2>12, CountTyped DEF FinishSucceeded
    <3>2. jobs' \in [Jobs -> Job]
      BY <2>12 DEF FinishSucceeded, UpdateJob, WithStatus, At, Typed, TypeOK,
          HandlerOK, Snapshot, Holding, Labels, Job, JobStatus
    <3>3. CASE batch[h] = << >>
      BY <2>12, <3>1, <3>2, <3>3, ReturnTyped, TypedParts
         DEF FinishSucceeded, SharedTyped
    <3>4. CASE batch[h] # << >>
      <4>1. LocalsTyped'
        <5>1. /\ Goto(h, "run_next")
              /\ Hold(h, NoSnapshot)
              /\ exec' = [exec EXCEPT ![h] = 0]
              /\ UNCHANGED <<op, target, dispatchLocals>>
          BY <2>12, <3>4 DEF FinishSucceeded
        <5> QED
          BY <5>1, <3>4 DEF Goto, Hold, Typed, TypeOK, LocalsTyped, HandlerOK,
              dispatchLocals, Labels, Holding
      <4> QED
        BY <2>12, <3>1, <3>2, <4>1, TypedParts DEF FinishSucceeded, SharedTyped
    <3> QED
      BY <3>3, <3>4
  <2>13. ASSUME FinishFailed(h) PROVE Typed'
    <3>1. metrics' \in [Metrics -> Nat]
      BY <2>13, CountTyped DEF FinishFailed
    <3>2. jobs' \in [Jobs -> Job]
      <4>1. /\ snap[h] \in Snapshot
            /\ MaxRetries[snap[h].id] \in Nat
        BY <2>13 DEF FinishFailed, At, Typed, HandlerOK, Snapshot, Holding,
            Labels
      <4>2. AfterFailure(snap[h].retry, MaxRetries[snap[h].id]) \in Job
        BY <4>1 DEF AfterFailure, Job, JobStatus, Snapshot
      <4> QED
        BY <2>13, <4>2, UpdateJobTyped DEF FinishFailed
    <3> QED
      BY <2>13, <3>1, <3>2, ReturnTyped, TypedParts DEF FinishFailed, SharedTyped
  <2>14. ASSUME CancelJob(h) PROVE Typed'
    <3>1. metrics' \in [Metrics -> Nat]
      BY <2>14, CountTyped DEF CancelJob
    <3>2. jobs' \in [Jobs -> Job]
      BY <2>14 DEF CancelJob, UpdateJob, WithStatus, At, Typed, TypeOK,
          HandlerOK, Snapshot, Holding, Labels, Job, JobStatus
    <3> QED
      BY <2>14, <3>1, <3>2, ReturnTyped, TypedParts DEF CancelJob, SharedTyped
  <2>15. ASSUME RetryJob(h) PROVE Typed'
    <3>1. metrics' \in [Metrics -> Nat]
      BY <2>15, CountTyped DEF RetryJob
    <3>2. jobs' \in [Jobs -> Job]
      BY <2>15 DEF RetryJob, UpdateJob, WithStatus, At, Typed, TypeOK,
          HandlerOK, Snapshot, Holding, Labels, Job, JobStatus
    <3> QED
      BY <2>15, <3>1, <3>2, ReturnTyped, TypedParts DEF RetryJob, SharedTyped
  <2> QED
    BY <1>8, <2>1, <2>2, <2>3, <2>4, <2>5, <2>6, <2>7, <2>8, <2>9, <2>10,
       <2>11, <2>12, <2>13, <2>14, <2>15 DEF Advance
<1>9. ASSUME NEW h \in Handlers, FatalMapWrite(h) PROVE Typed'
  BY <1>9 DEF FatalMapWrite, Typed, TypeOK, HandlerOK, store, locals,
      dispatchLocals
<1>10. CASE UNCHANGED vars
  BY <1>10 DEF vars, Typed, TypeOK, HandlerOK, store, locals, dispatchLocals
<1> QED
  BY <1>1, <1>2, <1>3, <1>4, <1>5, <1>6, <1>7, <1>8, <1>9, <1>10
     DEF Next, Arrive, Rest

\* Type correctness: the store, the metrics and every handler's locals keep
\* their types in every run of the api-server.
THEOREM TypeCorrect == Spec => []TypeOK
<1>1. Spec => []Typed
  BY TypedInit, TypedNext, PTL DEF Spec
<1> QED
  BY <1>1, PTL DEF Typed
-----------------------------------------------------------------------------
(* GPUs.                                                                   *)

\* Only two operations of the store touch the GPU count of a node.
LEMMA AvailFrame ==
    ASSUME [Next]_vars
    PROVE  \/ avail' = avail
           \/ \E n \in Nodes : RegisterNode(n)
           \/ \E h \in Handlers : AllocateGPU(h)
<1>1. ASSUME NEW h \in Handlers, Arrive(h) PROVE avail' = avail
  BY <1>1 DEF Arrive, ScheduleRequest, RunRequest, CancelRequest, RetryRequest,
      DispatchRequest, store
<1>2. ASSUME NEW h \in Handlers, Advance(h), ~AllocateGPU(h)
      PROVE  avail' = avail
  BY <1>2 DEF Advance, ScheduleJob, SelectNode, MarkScheduled, Pop, BeginBatch,
      RunNext, CreateExecution, MarkRunning, Execute, UpdateExecution,
      FinishSucceeded, FinishFailed, CancelJob, RetryJob, store
<1> QED
  BY <1>1, <1>2 DEF Next, CreateJob, FatalMapWrite, Rest, vars, store

\* The store never hands out more GPUs than a node has: a placement that was
\* decided on a stale list of nodes is caught by the check in AllocateGPU.
THEOREM GPUsWithinInventory == Spec => []NoOversubscription
<1>1. Init => NoOversubscription
  <2>1. \A n \in Nodes : TotalGPU(n) \in Nat
    BY NodesAssumption DEF TotalGPU
  <2> QED
    BY <2>1 DEF Init, NoOversubscription
<1>2. Typed /\ NoOversubscription /\ [Next]_vars => NoOversubscription'
  <2> SUFFICES ASSUME Typed, NoOversubscription, [Next]_vars
               PROVE  NoOversubscription'
    OBVIOUS
  <2>0. \A n \in Nodes : TotalGPU(n) \in Nat
    BY NodesAssumption DEF TotalGPU
  <2>1. CASE avail' = avail
    BY <2>1 DEF NoOversubscription, TotalGPU
  <2>2. ASSUME NEW n \in Nodes, RegisterNode(n) PROVE NoOversubscription'
    BY <2>0, <2>2 DEF RegisterNode, NoOversubscription, Typed, TypeOK, TotalGPU
  <2>3. ASSUME NEW h \in Handlers, AllocateGPU(h) PROVE NoOversubscription'
    <3>1. /\ target[h] \in Nodes
          /\ GPU[snap[h].id] \in Nat
      BY <2>3, JobsAssumption DEF AllocateGPU, At, Typed, HandlerOK, Holding,
          Labels, Snapshot
    <3>2. \/ avail' = avail
          \/ /\ avail[target[h]] >= GPU[snap[h].id]
             /\ avail' = [avail EXCEPT ![target[h]] = @ - GPU[snap[h].id]]
      BY <2>3 DEF AllocateGPU, Sufficient, Remaining
    <3>3. ASSUME avail[target[h]] >= GPU[snap[h].id],
                 avail' = [avail EXCEPT ![target[h]] = @ - GPU[snap[h].id]],
                 NEW n \in Nodes
          PROVE  avail'[n] \in 0..TotalGPU(n)
      <4>1. avail \in [Nodes -> Int] /\ avail[n] \in 0..TotalGPU(n)
        BY DEF Typed, TypeOK, NoOversubscription
      <4>2. avail'[n] \in {avail[n], avail[n] - GPU[snap[h].id]}
        BY <3>3, <4>1
      <4>3. avail'[n] # avail[n] => n = target[h]
        BY <3>3, <4>1
      <4> QED
        BY <2>0, <3>1, <3>3, <4>1, <4>2, <4>3
    <3> QED
      BY <2>1, <3>2, <3>3 DEF NoOversubscription, TotalGPU
  <2> QED
    BY <2>1, <2>2, <2>3, AvailFrame
<1>3. Spec => []Typed
  BY TypedInit, TypedNext, PTL DEF Spec
<1> QED
  BY <1>1, <1>2, <1>3, PTL DEF Spec
-----------------------------------------------------------------------------
(* Ownership of executions.                                                *)

Owning == Attempting \cup {"job_succeeded", "job_failed"}

\* The execution that handler h works on, with the given status.
Mine(h, status) == [job |-> snap[h].id, attempt |-> snap[h].retry + 1,
                    status |-> status]

\* A handler owns an execution from its creation to the end of RunJob, and the
\* store holds for it what the handler's copy of the job says.
ExecOK(h) ==
    /\ exec[h] \in 0..Len(executions)
    /\ exec[h] # 0 <=> pc[h] \in Owning
    /\ pc[h] \in Attempting => executions[exec[h]] = Mine(h, "running")
    /\ pc[h] = "job_succeeded" => executions[exec[h]] = Mine(h, "succeeded")
    /\ pc[h] = "job_failed" => executions[exec[h]] = Mine(h, "failed")

OneOwner ==
    \A g, h \in Handlers : (exec[g] = exec[h] /\ exec[g] # 0) => g = h

OpenOwned ==
    \A i \in 1..Len(executions) : executions[i].status = "running" =>
        \E h \in Handlers : pc[h] \in Attempting /\ exec[h] = i

ExecInv == (\A h \in Handlers : ExecOK(h)) /\ OneOwner

\* A handler's steps leave the locals of the other handlers alone.
SameLocals(g) ==
    /\ pc'[g] = pc[g]
    /\ op'[g] = op[g]
    /\ snap'[g] = snap[g]
    /\ exec'[g] = exec[g]
    /\ queue'[g] = queue[g]
    /\ batch'[g] = batch[g]
    /\ target'[g] = target[g]

LEMMA ArriveFrame ==
    ASSUME Typed, NEW h \in Handlers, NEW g \in Handlers, g # h, Arrive(h)
    PROVE  SameLocals(g)
<1>1. CASE \E j \in Jobs : ScheduleRequest(h, j) \/ RunRequest(h, j)
  BY <1>1 DEF ScheduleRequest, RunRequest, Load, Accept, Hold, Goto,
      SameLocals, Typed, TypeOK, dispatchLocals
<1>2. CASE \E j \in Jobs : CancelRequest(h, j) \/ RetryRequest(h, j)
  BY <1>2 DEF CancelRequest, RetryRequest, Accept, Hold, Goto,
      SameLocals, Typed, TypeOK, dispatchLocals
<1>3. CASE \E l \in Limits : DispatchRequest(h, l)
  BY <1>3 DEF DispatchRequest, Accept, Goto, SameLocals, Typed, TypeOK
<1> QED
  BY <1>1, <1>2, <1>3 DEF Arrive

LEMMA AdvanceFrame ==
    ASSUME Typed, NEW h \in Handlers, NEW g \in Handlers, g # h, Advance(h)
    PROVE  SameLocals(g)
<1> USE DEF SameLocals, Goto, Hold, dispatchLocals
<1>0. ASSUME Return(h) PROVE SameLocals(g)
  BY <1>0 DEF Return, Typed, TypeOK
<1>1. ASSUME PlaceFailed(h) PROVE SameLocals(g)
  BY <1>0, <1>1 DEF PlaceFailed, Typed, TypeOK
<1>2. ASSUME Placed(h) PROVE SameLocals(g)
  BY <1>0, <1>2 DEF Placed, Typed, TypeOK
<1>3. CASE ScheduleJob(h) \/ SelectNode(h) \/ AllocateGPU(h)
  BY <1>1, <1>3 DEF ScheduleJob, SelectNode, AllocateGPU, Typed, TypeOK
<1>4. CASE MarkScheduled(h)
  BY <1>2, <1>4 DEF MarkScheduled
<1>5. CASE Pop(h) \/ BeginBatch(h) \/ RunNext(h)
  BY <1>0, <1>5 DEF Pop, BeginBatch, RunNext, Load, Typed, TypeOK
<1>6. CASE \/ CreateExecution(h) \/ MarkRunning(h) \/ Execute(h)
           \/ UpdateExecution(h)
  BY <1>6 DEF CreateExecution, MarkRunning, Execute, UpdateExecution, Typed,
      TypeOK
<1>7. CASE FinishSucceeded(h) \/ FinishFailed(h)
  BY <1>0, <1>7 DEF FinishSucceeded, FinishFailed, Typed, TypeOK
<1>8. CASE CancelJob(h) \/ RetryJob(h)
  BY <1>0, <1>8 DEF CancelJob, RetryJob
<1> QED
  BY <1>3, <1>4, <1>5, <1>6, <1>7, <1>8 DEF Advance

\* What a step of handler h other than CreateExecution and UpdateExecution does
\* to its ownership: it keeps the running execution it has, or it has none when
\* the step is over and had no running one before.
KeepsOrFree(h) ==
    /\ executions' = executions
    /\ \/ /\ pc[h] \in Attempting /\ pc'[h] \in Attempting
          /\ exec'[h] = exec[h] /\ snap'[h] = snap[h]
       \/ /\ pc[h] \notin Attempting /\ pc'[h] \notin Owning
          /\ exec'[h] = 0

LEMMA ArriveOwnership ==
    ASSUME Typed, ExecInv, NEW h \in Handlers, Arrive(h)
    PROVE  KeepsOrFree(h)
<1> USE DEF KeepsOrFree, Owning, Attempting, Goto, store, dispatchLocals
<1>0. pc[h] = "idle" => exec[h] = 0
  BY DEF ExecInv, ExecOK
<1>1. CASE \E j \in Jobs : ScheduleRequest(h, j) \/ RunRequest(h, j)
  BY <1>0, <1>1 DEF ScheduleRequest, RunRequest, Load, PlaceLabel, Accept, At,
      Typed, TypeOK
<1>2. CASE \E j \in Jobs : CancelRequest(h, j) \/ RetryRequest(h, j)
  BY <1>0, <1>2 DEF CancelRequest, RetryRequest, Accept, At, Typed, TypeOK
<1>3. CASE \E l \in Limits : DispatchRequest(h, l)
  BY <1>0, <1>3 DEF DispatchRequest, Accept, At, Typed, TypeOK
<1> QED
  BY <1>1, <1>2, <1>3 DEF Arrive

LEMMA AdvanceOwnership ==
    ASSUME Typed, ExecInv, NEW h \in Handlers, Advance(h),
           ~CreateExecution(h), ~UpdateExecution(h)
    PROVE  KeepsOrFree(h)
<1> USE DEF KeepsOrFree, Owning, Attempting, Goto, store, dispatchLocals
<1>0. pc[h] \notin Owning => exec[h] = 0
  BY DEF ExecInv, ExecOK
<1>1. ASSUME Return(h) PROVE pc'[h] = "idle" /\ exec'[h] = 0
  BY <1>1 DEF Return, Typed, TypeOK
<1>2. ASSUME PlaceFailed(h) PROVE pc'[h] \in {"idle", "pop"} /\ exec'[h] \in {exec[h], 0}
  BY <1>1, <1>2 DEF PlaceFailed, Typed, TypeOK
<1>3. ASSUME Placed(h)
      PROVE  /\ pc'[h] \in {"idle", "pop", "create_execution"}
             /\ exec'[h] \in {exec[h], 0}
  BY <1>1, <1>3 DEF Placed, Typed, TypeOK
<1>4. CASE ScheduleJob(h)
  BY <1>0, <1>2, <1>4 DEF ScheduleJob, PlaceLabel, At, Typed, TypeOK
<1>5. CASE SelectNode(h)
  BY <1>0, <1>2, <1>5 DEF SelectNode, At, Typed, TypeOK
<1>6. CASE AllocateGPU(h)
  BY <1>0, <1>2, <1>6 DEF AllocateGPU, At, Typed, TypeOK
<1>7. CASE MarkScheduled(h)
  BY <1>0, <1>3, <1>7 DEF MarkScheduled, At
<1>8. CASE Pop(h)
  BY <1>0, <1>8 DEF Pop, PlaceLabel, At, Typed, TypeOK
<1>9. CASE BeginBatch(h)
  BY <1>0, <1>1, <1>9 DEF BeginBatch, At, Typed, TypeOK
<1>10. CASE RunNext(h)
  BY <1>0, <1>10 DEF RunNext, Load, At, Typed, TypeOK
<1>11. CASE MarkRunning(h)
  BY <1>11 DEF MarkRunning, At, Typed, TypeOK
<1>12. CASE Execute(h)
  BY <1>12 DEF Execute, At, Typed, TypeOK
<1>13. CASE FinishSucceeded(h)
  BY <1>1, <1>13 DEF FinishSucceeded, At, Typed, TypeOK
<1>14. CASE FinishFailed(h) \/ CancelJob(h) \/ RetryJob(h)
  BY <1>1, <1>14 DEF FinishFailed, CancelJob, RetryJob, At
<1> QED
  BY <1>4, <1>5, <1>6, <1>7, <1>8, <1>9, <1>10, <1>11, <1>12, <1>13, <1>14
     DEF Advance

LEMMA ExecInit == Init => ExecInv /\ OpenOwned
  BY DEF Init, ExecInv, ExecOK, OneOwner, OpenOwned, Owning, Attempting

\* What CreateExecution and UpdateExecution do to the log and to their handler.
Opened(h) ==
    /\ pc[h] = "create_execution" /\ pc'[h] = "mark_running"
    /\ exec[h] = 0 /\ exec'[h] = Len(executions) + 1
    /\ snap' = snap
    /\ Len(executions') = Len(executions) + 1
    /\ \A i \in 1..Len(executions) : executions'[i] = executions[i]
    /\ executions'[Len(executions) + 1] = Mine(h, "running")

Closed(h) ==
    /\ \/ pc[h] = "succeeded" /\ pc'[h] = "job_succeeded"
       \/ pc[h] = "failed" /\ pc'[h] = "job_failed"
    /\ exec' = exec /\ snap' = snap
    /\ exec[h] \in 1..Len(executions)
    /\ Len(executions') = Len(executions)
    /\ executions'[exec[h]] = Mine(h, pc[h])
    /\ \A i \in 1..Len(executions) : i # exec[h] =>
            executions'[i] = executions[i]

LEMMA CreateExecutionEffect ==
    ASSUME Typed, ExecInv, NEW h \in Handlers, CreateExecution(h)
    PROVE  Opened(h)
<1>0. executions \in Seq(Execution) /\ Len(executions) \in Nat
  BY DEF Typed, TypeOK
<1>1. /\ pc[h] = "create_execution" /\ pc'[h] = "mark_running"
      /\ exec[h] = 0 /\ exec'[h] = Len(executions) + 1
      /\ snap' = snap
      /\ executions' = Append(executions, Mine(h, "running"))
  BY DEF CreateExecution, NewExecution, nextID, At, Goto, Mine, ExecInv, ExecOK,
      Owning, Attempting, Typed, TypeOK
<1>2. Mine(h, "running") \in Execution
  BY <1>1 DEF Mine, Execution, ExecutionStatus, Typed, HandlerOK, Holding,
      Labels, Snapshot
<1> QED
  BY <1>0, <1>1, <1>2 DEF Opened

LEMMA UpdateExecutionEffect ==
    ASSUME Typed, ExecInv, NEW h \in Handlers, UpdateExecution(h)
    PROVE  Closed(h)
<1>0. executions \in Seq(Execution) /\ Len(executions) \in Nat
  BY DEF Typed, TypeOK
<1>1. /\ \/ pc[h] = "succeeded" /\ pc'[h] = "job_succeeded"
         \/ pc[h] = "failed" /\ pc'[h] = "job_failed"
      /\ exec' = exec /\ snap' = snap
  BY DEF UpdateExecution, At, Goto, Typed, TypeOK
<1>2. /\ exec[h] \in 1..Len(executions)
      /\ executions[exec[h]] = Mine(h, "running")
  BY <1>0, <1>1 DEF ExecInv, ExecOK, Owning, Attempting
<1>3. [Mine(h, "running") EXCEPT !.status = pc[h]] = Mine(h, pc[h])
  BY DEF Mine
<1>4. \A i \in 1..Len(executions) : executions'[i] =
            IF i = exec[h] THEN [executions[i] EXCEPT !.status = pc[h]]
                           ELSE executions[i]
  BY UpdateExecutionTyped
<1>5. Len(executions') = Len(executions)
  BY UpdateExecutionTyped
<1> QED
  BY <1>1, <1>2, <1>3, <1>4, <1>5 DEF Closed

LEMMA ExecNext == Typed /\ ExecInv /\ [Next]_vars => ExecInv'
<1> SUFFICES ASSUME Typed, ExecInv, [Next]_vars PROVE ExecInv'
  OBVIOUS
<1>0. /\ executions \in Seq(Execution)
      /\ Len(executions) \in Nat
      /\ exec \in [Handlers -> Nat]
  BY DEF Typed, TypeOK
<1>1. ASSUME NEW h \in Handlers, KeepsOrFree(h),
             \A g \in Handlers : g # h => SameLocals(g)
      PROVE  ExecInv'
  <2>1. \A g \in Handlers : ExecOK(g)'
    BY <1>1 DEF ExecInv, ExecOK, KeepsOrFree, SameLocals, Mine, Owning,
        Attempting
  <2>2. OneOwner'
    BY <1>1 DEF ExecInv, OneOwner, ExecOK, KeepsOrFree, SameLocals
  <2> QED
    BY <2>1, <2>2 DEF ExecInv
<1>2. ASSUME NEW h \in Handlers, CreateExecution(h) PROVE ExecInv'
  <2>1. \A g \in Handlers : g # h => SameLocals(g)
    BY <1>2, AdvanceFrame DEF Advance
  <2>2. Opened(h)
    BY <1>2, CreateExecutionEffect
  <2>3. ExecOK(h)'
    BY <1>0, <2>2 DEF Opened, ExecOK, Mine, Owning, Attempting
  <2>4. ASSUME NEW g \in Handlers, g # h PROVE ExecOK(g)'
    BY <1>0, <2>1, <2>2, <2>4 DEF Opened, ExecInv, ExecOK, SameLocals, Mine,
        Owning
  <2>5. OneOwner'
    BY <1>0, <2>1, <2>2 DEF Opened, ExecInv, OneOwner, ExecOK, SameLocals
  <2> QED
    BY <2>3, <2>4, <2>5 DEF ExecInv
<1>3. ASSUME NEW h \in Handlers, UpdateExecution(h) PROVE ExecInv'
  <2>1. \A g \in Handlers : g # h => SameLocals(g)
    BY <1>3, AdvanceFrame DEF Advance
  <2>2. Closed(h)
    BY <1>3, UpdateExecutionEffect
  <2>3. ExecOK(h)'
    BY <2>2 DEF Closed, ExecOK, Mine, Owning, Attempting
  <2>4. ASSUME NEW g \in Handlers, g # h PROVE ExecOK(g)'
    <3>1. exec[g] # exec[h]
      BY <2>2, <2>4 DEF Closed, ExecInv, OneOwner
    <3> QED
      BY <1>0, <2>1, <2>2, <2>4, <3>1 DEF Closed, ExecInv, ExecOK, SameLocals,
          Mine, Owning
  <2>5. OneOwner'
    BY <2>2 DEF Closed, ExecInv, OneOwner
  <2> QED
    BY <2>3, <2>4, <2>5 DEF ExecInv
<1>4. ASSUME executions' = executions, pc' = pc, exec' = exec, snap' = snap
      PROVE  ExecInv'
  BY <1>4 DEF ExecInv, ExecOK, OneOwner, Mine
<1>5. ASSUME NEW h \in Handlers, Arrive(h) PROVE ExecInv'
  BY <1>1, <1>5, ArriveOwnership, ArriveFrame
<1>6. ASSUME NEW h \in Handlers, Advance(h) PROVE ExecInv'
  BY <1>1, <1>2, <1>3, <1>6, AdvanceOwnership, AdvanceFrame
<1> QED
  BY <1>4, <1>5, <1>6 DEF Next, CreateJob, RegisterNode, FatalMapWrite, Rest,
      vars, store, locals

\* While no call fails, a running execution has a handler that will close it.
LEMMA OpenNext == Typed /\ ExecInv /\ OpenOwned /\ [Next]_vars => OpenOwned'
<1> SUFFICES ASSUME Typed, ExecInv, OpenOwned, [Next]_vars PROVE OpenOwned'
  OBVIOUS
<1>0. Len(executions) \in Nat
  BY DEF Typed, TypeOK
<1>1. ASSUME NEW h \in Handlers, KeepsOrFree(h),
             \A g \in Handlers : g # h => SameLocals(g)
      PROVE  OpenOwned'
  BY <1>1 DEF OpenOwned, KeepsOrFree, SameLocals
<1>2. ASSUME NEW h \in Handlers, CreateExecution(h) PROVE OpenOwned'
  <2>1. \A g \in Handlers : g # h => SameLocals(g)
    BY <1>2, AdvanceFrame DEF Advance
  <2> QED
    BY <1>0, <1>2, <2>1, CreateExecutionEffect DEF Opened, OpenOwned,
        SameLocals, Attempting
<1>3. ASSUME NEW h \in Handlers, UpdateExecution(h) PROVE OpenOwned'
  <2>1. \A g \in Handlers : g # h => SameLocals(g)
    BY <1>3, AdvanceFrame DEF Advance
  <2>2. Closed(h)
    BY <1>3, UpdateExecutionEffect
  <2>3. executions'[exec[h]].status # "running"
    BY <2>2 DEF Closed, Mine
  <2>4. ASSUME NEW i \in 1..Len(executions), i # exec[h],
               executions'[i].status = "running"
        PROVE  \E g \in Handlers : pc'[g] \in Attempting /\ exec'[g] = i
    <3>1. PICK g \in Handlers : pc[g] \in Attempting /\ exec[g] = i
      BY <2>2, <2>4 DEF Closed, OpenOwned
    <3> QED
      BY <2>1, <2>4, <3>1 DEF SameLocals
  <2> QED
    BY <2>2, <2>3, <2>4 DEF Closed, OpenOwned
<1>4. ASSUME executions' = executions, pc' = pc, exec' = exec PROVE OpenOwned'
  BY <1>4 DEF OpenOwned
<1>5. ASSUME NEW h \in Handlers, Arrive(h) PROVE OpenOwned'
  BY <1>1, <1>5, ArriveOwnership, ArriveFrame
<1>6. ASSUME NEW h \in Handlers, Advance(h) PROVE OpenOwned'
  BY <1>1, <1>2, <1>3, <1>6, AdvanceOwnership, AdvanceFrame
<1> QED
  BY <1>4, <1>5, <1>6 DEF Next, CreateJob, RegisterNode, FatalMapWrite, Rest,
      vars, store, locals

\* However RunJob calls interleave, a running execution has its one handler,
\* and no handler ever finishes an execution that another one has started.
THEOREM ExecutionsHaveOneOwner == Spec => []ExecutionsOwned
<1>1. Spec => [](Typed /\ ExecInv /\ OpenOwned)
  BY TypedInit, TypedNext, ExecInit, ExecNext, OpenNext, PTL DEF Spec
<1>2. Typed /\ ExecInv /\ OpenOwned => ExecutionsOwned
  <2> SUFFICES ASSUME Typed, ExecInv, OpenOwned PROVE ExecutionsOwned
    OBVIOUS
  <2>1. DOMAIN executions = 1..Len(executions)
    BY DEF Typed, TypeOK
  <2> QED
    BY <2>1 DEF ExecInv, OneOwner, OpenOwned, ExecutionsOwned
<1> QED
  BY <1>1, <1>2, PTL
-----------------------------------------------------------------------------
(* Retry counters and outcomes.                                            *)

\* The counter k may stand in a record of job j: it is within the budget and
\* attempts 1 to k of the job have failed.
Legit(j, k) == k <= MaxRetries[j] /\ \A p \in 1..k : Ended(j, p, "failed")

CountersLegit ==
    /\ \A j \in Jobs : Legit(j, jobs[j].retry)
    /\ \A h \in Handlers : snap[h] \in Snapshot =>
            Legit(snap[h].id, snap[h].retry)
    /\ \A h \in Handlers : \A s \in queue[h] : Legit(s.id, s.retry)

\* Only CreateExecution and UpdateExecution change executions.
LEMMA ExecutionsFrame ==
    ASSUME Typed, ExecInv, [Next]_vars
    PROVE  \/ executions' = executions
           \/ \E h \in Handlers : CreateExecution(h) \/ UpdateExecution(h)
<1>1. ASSUME NEW h \in Handlers, Arrive(h) PROVE executions' = executions
  BY <1>1, ArriveOwnership DEF KeepsOrFree
<1>2. ASSUME NEW h \in Handlers, Advance(h), ~CreateExecution(h),
             ~UpdateExecution(h)
      PROVE  executions' = executions
  BY <1>2, AdvanceOwnership DEF KeepsOrFree
<1> QED
  BY <1>1, <1>2 DEF Next, CreateJob, RegisterNode, FatalMapWrite, Rest, vars,
      store

LogStep == \/ executions' = executions
           \/ \E h \in Handlers : Opens(h) \/ Closes(h)

LEMMA LogSteps ==
    ASSUME Typed, ExecInv, [Next]_vars
    PROVE  LogStep
<1>1. ASSUME NEW h \in Handlers, CreateExecution(h) \/ UpdateExecution(h)
      PROVE  Opens(h) \/ Closes(h)
  BY <1>1 DEF CreateExecution, UpdateExecution, At, Opens, Closes
<1> QED
  BY <1>1, ExecutionsFrame DEF LogStep

\* What an execution ended in does not change any more.
LEMMA EndedStable ==
    ASSUME Typed, ExecInv, LogStep, NEW j, NEW k,
           NEW r \in {"succeeded", "failed"}, Ended(j, k, r)
    PROVE  Ended(j, k, r)'
<1>0. /\ executions \in Seq(Execution)
      /\ Len(executions) \in Nat
      /\ DOMAIN executions = 1..Len(executions)
  BY DEF Typed, TypeOK
<1>1. PICK i \in 1..Len(executions) :
            executions[i] = [job |-> j, attempt |-> k, status |-> r]
  BY <1>0 DEF Ended
<1>2. executions[i].status # "running"
  BY <1>1
<1>3. CASE executions' = executions
  BY <1>3 DEF Ended
<1>4. ASSUME NEW h \in Handlers, Opens(h) PROVE Ended(j, k, r)'
  <2>1. /\ snap[h].id \in Jobs
        /\ snap[h].retry \in Nat
    BY <1>4 DEF Opens, Typed, HandlerOK, Holding, Labels, Snapshot
  <2>2. [job |-> snap[h].id, attempt |-> snap[h].retry + 1,
         status |-> "running"] \in Execution
    BY <2>1 DEF Execution, ExecutionStatus
  <2>3. /\ i \in DOMAIN executions'
        /\ executions'[i] = executions[i]
    BY <1>0, <1>4, <2>2 DEF Opens, NewExecution
  <2> QED
    BY <1>1, <2>3 DEF Ended
<1>5. ASSUME NEW h \in Handlers, Closes(h) PROVE Ended(j, k, r)'
  <2>1. executions[exec[h]].status = "running"
    <3>1. executions[exec[h]] = Mine(h, "running")
      BY <1>5 DEF Closes, ExecInv, ExecOK, Attempting
    <3> QED
      BY <3>1 DEF Mine
  <2>2. executions' \in Seq(Execution) /\ Len(executions') = Len(executions)
    BY <1>5, ClosesTyped
  <2>3. executions'[i] = executions[i]
    BY <1>1, <1>2, <1>5, <2>1, ClosesTyped
  <2>4. i \in DOMAIN executions'
    BY <2>2
  <2> QED
    BY <1>1, <2>3, <2>4 DEF Ended
<1> QED
  BY <1>3, <1>4, <1>5 DEF LogStep

LEMMA LegitStable ==
    ASSUME Typed, ExecInv, LogStep, NEW j, NEW k, Legit(j, k)
    PROVE  Legit(j, k)'
  BY EndedStable DEF Legit

\* Where the copies that a handler holds come from: the store, as it was when
\* the step began, or the queue that ListJobs filled.
Copies == {Copy(j) : j \in Jobs}

LEMMA ArriveCopies ==
    ASSUME Typed, NEW h \in Handlers, Arrive(h)
    PROVE  /\ snap'[h] \in {snap[h]} \cup Copies
           /\ queue'[h] \subseteq queue[h] \cup Copies
           /\ jobs' = jobs
<1> USE DEF Hold, store, dispatchLocals, Copies
<1>1. CASE \E j \in Jobs : ScheduleRequest(h, j) \/ RunRequest(h, j)
  BY <1>1 DEF ScheduleRequest, RunRequest, Load, Typed, TypeOK
<1>2. CASE \E j \in Jobs : CancelRequest(h, j) \/ RetryRequest(h, j)
  BY <1>2 DEF CancelRequest, RetryRequest, Typed, TypeOK
<1>3. CASE \E l \in Limits : DispatchRequest(h, l)
  BY <1>3 DEF DispatchRequest, Typed, TypeOK
<1> QED
  BY <1>1, <1>2, <1>3 DEF Arrive

LEMMA AdvanceCopies ==
    ASSUME Typed, NEW h \in Handlers, Advance(h)
    PROVE  /\ snap'[h] \in {snap[h], NoSnapshot} \cup queue[h] \cup Copies
           /\ queue'[h] \subseteq queue[h]
<1> USE DEF Hold, dispatchLocals, Copies
<1>0. ASSUME Return(h) PROVE snap'[h] = NoSnapshot /\ queue'[h] = {}
  BY <1>0 DEF Return, Typed, TypeOK
<1>1. ASSUME PlaceFailed(h)
      PROVE  snap'[h] = NoSnapshot /\ queue'[h] \subseteq queue[h]
  BY <1>0, <1>1 DEF PlaceFailed, Typed, TypeOK
<1>2. ASSUME Placed(h)
      PROVE  snap'[h] \in {snap[h], NoSnapshot} /\ queue'[h] \subseteq queue[h]
  BY <1>0, <1>2 DEF Placed, Typed, TypeOK
<1>3. CASE ScheduleJob(h)
  <2>1. snap[h].id \in Jobs
    BY <1>3 DEF ScheduleJob, At, Typed, HandlerOK, Holding, Labels, Snapshot
  <2> QED
    BY <1>1, <1>3, <2>1 DEF ScheduleJob, Typed, TypeOK
<1>4. CASE SelectNode(h) \/ AllocateGPU(h)
  BY <1>1, <1>4 DEF SelectNode, AllocateGPU
<1>5. CASE MarkScheduled(h)
  BY <1>2, <1>5 DEF MarkScheduled
<1>6. CASE Pop(h)
  BY <1>6 DEF Pop, Without, Typed, TypeOK
<1>7. CASE BeginBatch(h)
  BY <1>0, <1>7 DEF BeginBatch, Typed, TypeOK
<1>8. CASE RunNext(h)
  <2>1. Head(batch[h]) \in Jobs
    BY <1>8 DEF RunNext, At, Typed, TypeOK, HandlerOK
  <2> QED
    BY <1>8, <2>1 DEF RunNext, Load, Typed, TypeOK
<1>9. CASE \/ CreateExecution(h) \/ MarkRunning(h) \/ Execute(h)
           \/ UpdateExecution(h)
  BY <1>9 DEF CreateExecution, MarkRunning, Execute, UpdateExecution
<1>10. CASE FinishSucceeded(h)
  BY <1>0, <1>10 DEF FinishSucceeded, Typed, TypeOK
<1>11. CASE FinishFailed(h) \/ CancelJob(h) \/ RetryJob(h)
  BY <1>0, <1>11 DEF FinishFailed, CancelJob, RetryJob
<1> QED
  BY <1>3, <1>4, <1>5, <1>6, <1>7, <1>8, <1>9, <1>10, <1>11 DEF Advance

\* The record that handler h writes to the store at a label, if it does.
Writes(h, label, record) ==
    pc[h] = label /\ jobs' = [jobs EXCEPT ![snap[h].id] = record]

Failure(h) == AfterFailure(snap[h].retry, MaxRetries[snap[h].id])

WritesJob(h) ==
    \/ Writes(h, "mark_scheduled", WithStatus(h, "scheduled"))
    \/ Writes(h, "mark_running", WithStatus(h, "running"))
    \/ Writes(h, "job_succeeded", WithStatus(h, "succeeded"))
    \/ Writes(h, "job_failed", Failure(h))
    \/ Writes(h, "cancel_job", WithStatus(h, "cancelled"))
    \/ Writes(h, "retry_job", WithStatus(h, "pending"))

LEMMA AdvanceWrites ==
    ASSUME NEW h \in Handlers, Advance(h)
    PROVE  jobs' = jobs \/ WritesJob(h)
<1> USE DEF WritesJob, Writes, Failure, UpdateJob, At
<1>1. CASE \/ ScheduleJob(h) \/ SelectNode(h) \/ AllocateGPU(h) \/ Pop(h)
           \/ BeginBatch(h) \/ RunNext(h)
  BY <1>1 DEF ScheduleJob, SelectNode, AllocateGPU, Pop, BeginBatch, RunNext,
      store
<1>2. CASE CreateExecution(h) \/ Execute(h) \/ UpdateExecution(h)
  BY <1>2 DEF CreateExecution, Execute, UpdateExecution, store
<1>3. CASE MarkScheduled(h) \/ MarkRunning(h)
  BY <1>3 DEF MarkScheduled, MarkRunning
<1>4. CASE FinishSucceeded(h) \/ FinishFailed(h)
  BY <1>4 DEF FinishSucceeded, FinishFailed
<1>5. CASE CancelJob(h) \/ RetryJob(h)
  BY <1>5 DEF CancelJob, RetryJob
<1> QED
  BY <1>1, <1>2, <1>3, <1>4, <1>5 DEF Advance

\* What a record of job j may say: the counter is legitimate, and a status that
\* reports an outcome is backed by an execution with that outcome.
Backed(j, record) ==
    /\ Legit(j, record.retry)
    /\ record.status = "succeeded" => Ended(j, record.retry + 1, "succeeded")
    /\ record.status = "failed" => /\ record.retry = MaxRetries[j]
                                   /\ Ended(j, record.retry + 1, "failed")
    /\ record.status = "retrying" => record.retry > 0

BackedInv == CountersLegit /\ \A j \in Jobs : Backed(j, jobs[j])

LEMMA BackedStable ==
    ASSUME Typed, ExecInv, LogStep, NEW j, NEW r, Backed(j, r)
    PROVE  Backed(j, r)'
  BY EndedStable, LegitStable DEF Backed

\* A counter of zero is legitimate.
LEMMA LegitZero == \A j \in Jobs : Legit(j, 0)
<1>1. \A j \in Jobs : 0 <= MaxRetries[j]
  BY JobsAssumption
<1>2. 1..0 = {}
  OBVIOUS
<1> QED
  BY <1>1, <1>2 DEF Legit

LEMMA NoSnapshotIsNone == NoSnapshot \notin Snapshot
  BY JobsAssumption DEF NoSnapshot, Snapshot

LEMMA BackedInit == Init => BackedInv
<1> SUFFICES ASSUME Init PROVE BackedInv
  OBVIOUS
<1>1. \A j \in Jobs : jobs[j].retry = 0 /\ jobs[j].status = "none"
  BY DEF Init, Missing
<1>2. \A h \in Handlers : snap[h] \notin Snapshot /\ queue[h] = {}
  BY NoSnapshotIsNone DEF Init
<1> QED
  BY <1>1, <1>2, LegitZero DEF BackedInv, CountersLegit, Backed

\* Whatever handler h writes to the store is backed.
LEMMA WritesBacked ==
    ASSUME Typed, ExecInv, BackedInv, NEW h \in Handlers, WritesJob(h)
    PROVE  \E r : /\ jobs' = [jobs EXCEPT ![snap[h].id] = r]
                  /\ Backed(snap[h].id, r)
<1>1. pc[h] \in Holding
  BY DEF WritesJob, Writes, Holding, Labels
<1>2. /\ snap[h] \in Snapshot
      /\ snap[h].retry \in Nat
      /\ MaxRetries[snap[h].id] \in Nat
  BY <1>1, JobsAssumption DEF Typed, HandlerOK, Snapshot
<1>3. Legit(snap[h].id, snap[h].retry)
  BY <1>2 DEF BackedInv, CountersLegit
<1>4. \A st \in {"scheduled", "running", "cancelled", "pending"} :
        Backed(snap[h].id, WithStatus(h, st))
  BY <1>3 DEF Backed, WithStatus
<1>5. /\ pc[h] \in Owning => exec[h] \in DOMAIN executions
      /\ pc[h] = "job_succeeded" => executions[exec[h]] = Mine(h, "succeeded")
      /\ pc[h] = "job_failed" => executions[exec[h]] = Mine(h, "failed")
  BY DEF ExecInv, ExecOK, Typed, TypeOK
<1>6. CASE Writes(h, "job_succeeded", WithStatus(h, "succeeded"))
  <2>1. Ended(snap[h].id, snap[h].retry + 1, "succeeded")
    BY <1>5, <1>6 DEF Writes, Ended, Mine, Owning
  <2>2. Backed(snap[h].id, WithStatus(h, "succeeded"))
    BY <1>3, <2>1 DEF Backed, WithStatus
  <2> QED
    BY <1>6, <2>2 DEF Writes
<1>7. CASE Writes(h, "job_failed", Failure(h))
  <2>1. Ended(snap[h].id, snap[h].retry + 1, "failed")
    BY <1>5, <1>7 DEF Writes, Ended, Mine, Owning
  <2>2. CASE RetryLeft(snap[h].retry, MaxRetries[snap[h].id])
    <3>1. Failure(h) = [status |-> "retrying", retry |-> snap[h].retry + 1]
      BY <2>2 DEF Failure, AfterFailure
    <3>2. \A p \in 1..(snap[h].retry + 1) : Ended(snap[h].id, p, "failed")
      BY <1>2, <1>3, <2>1 DEF Legit
    <3>3. Legit(snap[h].id, snap[h].retry + 1)
      BY <1>2, <2>2, <3>2 DEF Legit, RetryLeft
    <3>4. Backed(snap[h].id, Failure(h))
      BY <1>2, <3>1, <3>3 DEF Backed
    <3> QED
      BY <1>7, <3>4 DEF Writes
  <2>3. CASE ~RetryLeft(snap[h].retry, MaxRetries[snap[h].id])
    <3>1. Failure(h) = [status |-> "failed", retry |-> snap[h].retry]
      BY <2>3 DEF Failure, AfterFailure
    <3>2. snap[h].retry = MaxRetries[snap[h].id]
      BY <1>2, <1>3, <2>3 DEF Legit, RetryLeft
    <3>3. Backed(snap[h].id, Failure(h))
      BY <1>3, <2>1, <3>1, <3>2 DEF Backed
    <3> QED
      BY <1>7, <3>3 DEF Writes
  <2> QED
    BY <2>2, <2>3
<1> QED
  BY <1>4, <1>6, <1>7 DEF WritesJob, Writes

\* A step keeps the invariant if the log grows as it may, a handler writes what
\* it should, and a copy that a handler has afterwards is one it had, or one
\* of the store's.
LEMMA BackedStep ==
    ASSUME Typed, ExecInv, BackedInv, LogStep,
           jobs' = jobs \/ \E h \in Handlers : WritesJob(h),
           \A g \in Handlers :
              /\ snap'[g] \in {snap[g], NoSnapshot} \cup queue[g] \cup Copies
              /\ queue'[g] \subseteq queue[g] \cup Copies
    PROVE  BackedInv'
<1>0. /\ jobs \in [Jobs -> Job]
      /\ \A j \in Jobs : Backed(j, jobs[j])' => Legit(j, jobs[j].retry)'
  BY DEF Typed, TypeOK, Backed
<1>1. ASSUME NEW j \in Jobs, jobs'[j] = jobs[j] PROVE Backed(j, jobs[j])'
  <2> DEFINE r == jobs[j]
  <2>1. Backed(j, r)
    BY DEF BackedInv
  <2> QED
    BY <1>1, <2>1, EndedStable, LegitStable DEF Backed
<1>2. ASSUME NEW j \in Jobs, jobs'[j] # jobs[j] PROVE Backed(j, jobs[j])'
  <2>1. PICK h \in Handlers : WritesJob(h)
    BY <1>2
  <2>2. PICK r : /\ jobs' = [jobs EXCEPT ![snap[h].id] = r]
                 /\ Backed(snap[h].id, r)
    BY <2>1, WritesBacked
  <2>3. j = snap[h].id /\ jobs'[j] = r
    BY <1>0, <1>2, <2>2
  <2>4. Backed(j, r)'
    BY <2>2, <2>3, BackedStable
  <2> QED
    BY <2>3, <2>4 DEF Backed
<1>3. ASSUME NEW s \in Copies PROVE Legit(s.id, s.retry)
  BY <1>3 DEF Copies, Copy, BackedInv, CountersLegit
<1>4. \A g \in Handlers :
         /\ snap'[g] \in Snapshot => Legit(snap'[g].id, snap'[g].retry)
         /\ \A s \in queue'[g] : Legit(s.id, s.retry)
  BY <1>3, NoSnapshotIsNone DEF BackedInv, CountersLegit
<1>5. \A g \in Handlers :
         /\ snap'[g] \in Snapshot => Legit(snap[g].id, snap[g].retry)'
         /\ \A s \in queue'[g] : Legit(s.id, s.retry)'
  BY <1>4, LegitStable
<1> QED
  BY <1>0, <1>1, <1>2, <1>5 DEF BackedInv, CountersLegit

LEMMA BackedNext == Typed /\ ExecInv /\ BackedInv /\ [Next]_vars => BackedInv'
<1> SUFFICES ASSUME Typed, ExecInv, BackedInv, [Next]_vars, LogStep
             PROVE  BackedInv'
  BY LogSteps
<1>1. ASSUME NEW h \in Handlers, Arrive(h) \/ Advance(h) PROVE BackedInv'
  <2>1. \A g \in Handlers : g # h => SameLocals(g)
    BY <1>1, ArriveFrame, AdvanceFrame
  <2>2. /\ snap'[h] \in {snap[h], NoSnapshot} \cup queue[h] \cup Copies
        /\ queue'[h] \subseteq queue[h] \cup Copies
    BY <1>1, ArriveCopies, AdvanceCopies
  <2>3. \A g \in Handlers :
           /\ snap'[g] \in {snap[g], NoSnapshot} \cup queue[g] \cup Copies
           /\ queue'[g] \subseteq queue[g] \cup Copies
    BY <2>1, <2>2 DEF SameLocals
  <2>4. jobs' = jobs \/ WritesJob(h)
    BY <1>1, ArriveCopies, AdvanceWrites
  <2> QED
    BY <2>3, <2>4, BackedStep
<1>2. ASSUME NEW j \in Jobs, CreateJob(j) PROVE BackedInv'
  <2>0. /\ jobs \in [Jobs -> Job]
        /\ \A i \in Jobs : Backed(i, jobs[i])' => Legit(i, jobs[i].retry)'
    BY DEF Typed, TypeOK, Backed
  <2>1. ASSUME NEW i \in Jobs, i # j PROVE Backed(i, jobs[i])'
    <3> DEFINE r == jobs[i]
    <3>1. Backed(i, r) /\ jobs'[i] = r
      BY <1>2, <2>0, <2>1 DEF BackedInv, CreateJob
    <3> QED
      BY <3>1, EndedStable, LegitStable DEF Backed
  <2>2. Backed(j, NewJob)'
    BY LegitZero, LegitStable DEF Backed, NewJob
  <2>3. \A i \in Jobs : Backed(i, jobs[i])'
    BY <1>2, <2>0, <2>1, <2>2 DEF CreateJob, Backed
  <2>4. snap' = snap /\ queue' = queue
    BY <1>2 DEF CreateJob, locals, dispatchLocals
  <2> QED
    BY <2>0, <2>3, <2>4, LegitStable DEF BackedInv, CountersLegit
<1>3. ASSUME jobs' = jobs, snap' = snap, queue' = queue PROVE BackedInv'
  BY <1>3, BackedStep
<1> QED
  BY <1>1, <1>2, <1>3 DEF Next, RegisterNode, FatalMapWrite, Rest, vars,
      store, locals, dispatchLocals

\* The three layers of the inductive invariant, together.
Layered == Typed /\ ExecInv /\ BackedInv

LEMMA LayeredHolds == Spec => []Layered
<1>1. Init => Layered
  BY TypedInit, ExecInit, BackedInit DEF Layered
<1>2. Layered /\ [Next]_vars => Layered'
  BY TypedNext, ExecNext, BackedNext DEF Layered
<1> QED
  BY <1>1, <1>2, PTL DEF Spec

\* Every outcome a stored job shows was the outcome of one of its executions,
\* and its retry counter counts attempts that failed, whatever stale copies
\* the handlers have written over each other.
THEOREM OutcomesAreBacked == Spec => []OutcomeBacked
<1>1. BackedInv => OutcomeBacked
  BY DEF BackedInv, Backed, Legit, OutcomeBacked
<1> QED
  BY <1>1, LayeredHolds, PTL DEF Layered

\* Whatever opens or closes an execution does so as AttemptLog allows.
LEMMA LogFollows ==
    ASSUME Layered, LogStep
    PROVE  [Attempts!Next]_executions
<1>0. Typed /\ ExecInv /\ BackedInv
  BY DEF Layered
<1>1. ASSUME NEW h \in Handlers, Opens(h) PROVE Attempts!Next
  <2> DEFINE j == snap[h].id
             k == snap[h].retry + 1
  <2>1. /\ snap[h] \in Snapshot
        /\ j \in Jobs
        /\ snap[h].retry \in Nat
        /\ MaxRetries[j] \in Nat
    BY <1>0, <1>1, JobsAssumption DEF Opens, Typed, HandlerOK, Holding, Labels,
        Snapshot
  <2>2. Legit(j, snap[h].retry)
    BY <1>0, <2>1 DEF BackedInv, CountersLegit
  <2>3. \A p \in 1..(k - 1) : Attempts!Failed(j, p)
    BY <2>1, <2>2 DEF Legit, Ended, Attempts!Failed
  <2>4. k \in 1..(MaxRetries[j] + 1)
    BY <2>1, <2>2 DEF Legit
  <2>5. Attempts!Open(j, k)
    BY <1>1, <2>3, <2>4 DEF Attempts!Open, Opens, NewExecution
  <2> QED
    BY <2>1, <2>4, <2>5 DEF Attempts!Next
<1>2. ASSUME NEW h \in Handlers, Closes(h) PROVE Attempts!Next
  <2>1. /\ exec[h] \in DOMAIN executions
        /\ executions[exec[h]] = Mine(h, "running")
        /\ pc[h] \in {"succeeded", "failed"}
    BY <1>0, <1>2 DEF Closes, ExecInv, ExecOK, Typed, TypeOK, Owning, Attempting
  <2>2. executions[exec[h]].status = "running"
    BY <2>1 DEF Mine
  <2>3. Attempts!Close(exec[h], pc[h])
    BY <1>2, <2>2 DEF Attempts!Close, Closes
  <2> QED
    BY <2>1, <2>3 DEF Attempts!Next
<1> QED
  BY <1>1, <1>2 DEF LogStep

\* The execution history implements AttemptLog, for any number of handlers.
THEOREM ImplementsAttemptLog == Spec => AttemptLogSpec
<1>1. Init => Attempts!Init
  BY DEF Init, Attempts!Init
<1>2. Layered /\ [Next]_vars => [Attempts!Next]_executions
  BY LogSteps, LogFollows DEF Layered
<1> QED
  BY <1>1, <1>2, LayeredHolds, PTL DEF Spec, AttemptLogSpec, Attempts!Spec

\* No attempt is numbered beyond the retry budget.
AttemptsBounded ==
    \A i \in 1..Len(executions) :
        executions[i].attempt <= MaxRetries[executions[i].job] + 1

\* Retry counters stay within the budget of their job, in the store, in every
\* copy a handler holds, and in the attempt numbers of the executions.
THEOREM RetriesWithinBudget == Spec => []RetryBudget
<1>1. Init => AttemptsBounded
  BY DEF Init, AttemptsBounded
<1>2. Layered /\ AttemptsBounded /\ [Next]_vars => AttemptsBounded'
  <2> SUFFICES ASSUME Layered, AttemptsBounded, [Next]_vars
               PROVE  AttemptsBounded'
    OBVIOUS
  <2>0. /\ Typed /\ ExecInv /\ BackedInv
        /\ executions \in Seq(Execution)
        /\ Len(executions) \in Nat
    BY DEF Layered, Typed, TypeOK
  <2>1. CASE executions' = executions
    BY <2>1 DEF AttemptsBounded
  <2>2. ASSUME NEW h \in Handlers, CreateExecution(h) PROVE AttemptsBounded'
    <3> DEFINE new == [job |-> snap[h].id, attempt |-> snap[h].retry + 1,
                       status |-> "running"]
    <3>1. /\ snap[h] \in Snapshot
          /\ snap[h].id \in Jobs
          /\ snap[h].retry \in Nat
          /\ MaxRetries[snap[h].id] \in Nat
      BY <2>0, <2>2, JobsAssumption DEF CreateExecution, At, Typed, HandlerOK,
          Holding, Labels, Snapshot
    <3>2. snap[h].retry <= MaxRetries[snap[h].id]
      BY <2>0, <3>1 DEF BackedInv, CountersLegit, Legit
    <3>3. new \in Execution
      BY <3>1 DEF Execution, ExecutionStatus
    <3>4. /\ Len(executions') = Len(executions) + 1
          /\ \A i \in 1..Len(executions) : executions'[i] = executions[i]
          /\ executions'[Len(executions) + 1] = new
      BY <2>0, <2>2, <3>3 DEF CreateExecution, NewExecution
    <3>5. new.attempt <= MaxRetries[new.job] + 1
      BY <3>1, <3>2
    <3> QED
      BY <2>0, <3>4, <3>5 DEF AttemptsBounded
  <2>3. ASSUME NEW h \in Handlers, UpdateExecution(h) PROVE AttemptsBounded'
    <3>1. /\ Len(executions') = Len(executions)
          /\ \A i \in 1..Len(executions) :
                /\ executions'[i].job = executions[i].job
                /\ executions'[i].attempt = executions[i].attempt
      <4>1. /\ Len(executions') = Len(executions)
            /\ \A i \in 1..Len(executions) : executions'[i] =
                  IF i = exec[h] THEN [executions[i] EXCEPT !.status = pc[h]]
                                 ELSE executions[i]
        BY <2>0, <2>3, UpdateExecutionTyped
      <4>2. \A i \in 1..Len(executions) : executions[i] \in Execution
        BY <2>0
      <4> QED
        BY <4>1, <4>2 DEF Execution
    <3> QED
      BY <3>1 DEF AttemptsBounded
  <2> QED
    BY <2>0, <2>1, <2>2, <2>3, ExecutionsFrame
<1>3. Layered /\ AttemptsBounded => RetryBudget
  <2> SUFFICES ASSUME Layered, AttemptsBounded PROVE RetryBudget
    OBVIOUS
  <2>1. DOMAIN executions = 1..Len(executions)
    BY DEF Layered, Typed, TypeOK
  <2>2. \A h \in Handlers : snap[h].id \in Jobs => snap[h] \in Snapshot
    <3>1. NoSnapshot.id \notin Jobs
      BY JobsAssumption DEF NoSnapshot
    <3> QED
      BY <3>1 DEF Layered, Typed, TypeOK
  <2> QED
    BY <2>1, <2>2 DEF Layered, BackedInv, CountersLegit, Legit, RetryBudget,
        AttemptsBounded
<1> QED
  BY <1>1, <1>2, <1>3, LayeredHolds, PTL DEF Spec
-----------------------------------------------------------------------------
(* Running jobs.                                                           *)

\* What a step of handler h does to its responsibility for a running job: it
\* keeps it, or it has just written another status over it.
KeepsOrWrites(h) ==
    pc[h] \in Running =>
        \/ pc'[h] \in Running /\ snap'[h] = snap[h]
        \/ \E r : /\ jobs' = [jobs EXCEPT ![snap[h].id] = r]
                  /\ r.status # "running"

LEMMA AdvanceRunning ==
    ASSUME Typed, NEW h \in Handlers, Advance(h)
    PROVE  KeepsOrWrites(h)
<1> USE DEF KeepsOrWrites, Running, At, Goto
<1>1. CASE Execute(h)
  BY <1>1 DEF Execute, Typed, TypeOK
<1>2. CASE UpdateExecution(h)
  BY <1>2 DEF UpdateExecution, Typed, TypeOK
<1>3. CASE FinishSucceeded(h)
  <2>1. WithStatus(h, "succeeded").status # "running"
    BY DEF WithStatus
  <2> QED
    BY <1>3, <2>1 DEF FinishSucceeded, UpdateJob
<1>4. CASE FinishFailed(h)
  <2>1. Failure(h).status # "running"
    BY DEF Failure, AfterFailure
  <2> QED
    BY <1>4, <2>1 DEF FinishFailed, UpdateJob, Failure
<1>5. CASE pc[h] \notin Running
  BY <1>5
<1> QED
  BY <1>1, <1>2, <1>3, <1>4, <1>5 DEF Advance, ScheduleJob, SelectNode,
     AllocateGPU, MarkScheduled, Pop, BeginBatch, RunNext, CreateExecution,
     MarkRunning, CancelJob, RetryJob

\* Only MarkRunning makes a job running.
LEMMA WritesOther ==
    ASSUME Typed, NEW h \in Handlers, Advance(h), ~MarkRunning(h),
           NEW j \in Jobs, jobs'[j].status = "running"
    PROVE  jobs[j].status = "running"
<1>0. jobs \in [Jobs -> Job]
  BY DEF Typed, TypeOK
<1>1. \/ jobs' = jobs
      \/ \E r : /\ jobs' = [jobs EXCEPT ![snap[h].id] = r]
                /\ r.status # "running"
  <2>1. pc[h] # "mark_running" \/ jobs' = jobs
    BY DEF Advance, ScheduleJob, SelectNode, AllocateGPU, MarkScheduled, Pop,
       BeginBatch, RunNext, CreateExecution, Execute, UpdateExecution,
       FinishSucceeded, FinishFailed, CancelJob, RetryJob, At
  <2>2. /\ Failure(h).status # "running"
        /\ \A st \in JobStatus : WithStatus(h, st).status = st
    BY DEF Failure, AfterFailure, WithStatus
  <2> QED
    BY <2>1, <2>2, AdvanceWrites DEF WritesJob, Writes, JobStatus
<1> QED
  BY <1>0, <1>1

\* A job that the store shows as running is in the hands of a handler that has
\* yet to write its outcome.
THEOREM RunningJobsHaveOwners == Spec => []RunningHasOwner
<1>1. Init => RunningHasOwner
  BY DEF Init, RunningHasOwner, Missing
<1>2. Typed /\ RunningHasOwner /\ [Next]_vars => RunningHasOwner'
  <2> SUFFICES ASSUME Typed, RunningHasOwner, [Next]_vars,
                      NEW j \in Jobs, jobs'[j].status = "running"
               PROVE  \E g \in Handlers : pc'[g] \in Running /\ snap'[g].id = j
    BY DEF RunningHasOwner
  <2>0. /\ jobs \in [Jobs -> Job]
        /\ jobs[j].status = "running" =>
              \E g \in Handlers : pc[g] \in Running /\ snap[g].id = j
    BY DEF Typed, TypeOK, RunningHasOwner
  <2>1. ASSUME NEW h \in Handlers, Arrive(h)
        PROVE  \E g \in Handlers : pc'[g] \in Running /\ snap'[g].id = j
    <3>1. pc[h] = "idle"
      BY <2>1 DEF Arrive, ScheduleRequest, RunRequest, CancelRequest,
          RetryRequest, DispatchRequest, Accept, At
    <3> QED
      BY <2>0, <2>1, <3>1, ArriveFrame, ArriveCopies DEF SameLocals, Running
  <2>2. ASSUME NEW h \in Handlers, Advance(h)
        PROVE  \E g \in Handlers : pc'[g] \in Running /\ snap'[g].id = j
    <3>1. CASE MarkRunning(h) /\ jobs'[j] # jobs[j]
      <4>1. snap[h].id = j
        BY <2>0, <3>1 DEF MarkRunning, UpdateJob
      <4> QED
        BY <3>1, <4>1 DEF MarkRunning, Goto, Running, Typed, TypeOK
    <3>2. CASE ~MarkRunning(h) \/ jobs'[j] = jobs[j]
      <4>1. jobs[j].status = "running"
        BY <2>0, <2>2, <3>2, AdvanceWrites, WritesOther DEF WritesJob
      <4>2. PICK g \in Handlers : pc[g] \in Running /\ snap[g].id = j
        BY <2>0, <4>1
      <4>3. CASE g # h
        BY <2>2, <4>2, <4>3, AdvanceFrame DEF SameLocals
      <4>4. CASE g = h
        BY <2>0, <2>2, <4>2, <4>4, AdvanceRunning DEF KeepsOrWrites
      <4> QED
        BY <4>3, <4>4
    <3> QED
      BY <3>1, <3>2
  <2>3. ASSUME NEW i \in Jobs, CreateJob(i) PROVE jobs[j].status = "running"
    BY <2>0, <2>3 DEF CreateJob, NewJob
  <2>4. ASSUME jobs' = jobs, pc' = pc, snap' = snap
        PROVE  \E g \in Handlers : pc'[g] \in Running /\ snap'[g].id = j
    BY <2>0, <2>4
  <2> QED
    BY <2>0, <2>1, <2>2, <2>3, <2>4 DEF Next, CreateJob, RegisterNode,
        FatalMapWrite, Rest, vars, store, locals
<1>3. Spec => []Typed
  BY TypedInit, TypedNext, PTL DEF Spec
<1> QED
  BY <1>1, <1>2, <1>3, PTL DEF Spec
-----------------------------------------------------------------------------
(* Placement.                                                              *)

\* A finite set with at least k elements has a subset of k elements.
LEMMA SubsetOfSize ==
    ASSUME NEW T, IsFiniteSet(T), NEW k \in Nat, k <= Cardinality(T)
    PROVE  \E S \in SUBSET T : Cardinality(S) = k
<1>1. PICK f \in Bijection(1..Cardinality(T), T) : TRUE
  BY FS_CardinalityType DEF ExistsBijection
<1>2. Cardinality(T) \in Nat /\ 1..k \subseteq 1..Cardinality(T)
  BY FS_CardinalityType
<1> DEFINE S == {f[i] : i \in 1..k}
           g == [i \in 1..k |-> f[i]]
<1>3. /\ f \in [1..Cardinality(T) -> T]
      /\ \A a, b \in 1..Cardinality(T) : f[a] = f[b] => a = b
  BY <1>1 DEF Bijection, Injection, Surjection, IsInjective
<1>4. S \subseteq T
  BY <1>2, <1>3
<1>5. g \in Bijection(1..k, S)
  BY <1>2, <1>3 DEF Bijection, Injection, Surjection, IsInjective
<1>6. IsFiniteSet(1..k) /\ Cardinality(1..k) = k
  BY FS_Interval
<1>7. Cardinality(S) = k
  BY <1>5, <1>6, FS_Bijection DEF ExistsBijection
<1> QED
  BY <1>4, <1>7

\* The node that MatchNode returns for a job fits it: with no memory request
\* any GPUs will do, and the node has enough of them free.
LEMMA SelectedFits ==
    ASSUME Typed, NoOversubscription, NEW j \in Jobs, NEW n,
           n \in MatchNode(nodes, avail, GPU[j], parseGPUMemoryMiB(GPUMemory[j]))
    PROVE  n \in Nodes /\ Fits(j, n)
<1> DEFINE m == parseGPUMemoryMiB(GPUMemory[j])
           big == {i \in 1..Len(FreeMem[n]) : FreeMem[n][i] >= m}
<1>1. /\ n \in nodes /\ n \in Nodes
      /\ NodeStatus[n] = "online"
      /\ avail[n] >= GPU[j]
      /\ m > 0 => CanFitGPUMemory(n, GPU[j], m)
  <2>1. n \in Candidates(nodes, avail, GPU[j], m)
    BY DEF MatchNode
  <2> QED
    BY <2>1 DEF Candidates, IsSchedulable, Typed, TypeOK
<1>2. /\ GPU[j] \in Nat
      /\ FreeMem[n] \in Seq(Nat)
      /\ avail[n] \in 0..Len(FreeMem[n])
      /\ Len(FreeMem[n]) \in Nat
  BY <1>1, JobsAssumption, NodesAssumption DEF NoOversubscription, TotalGPU
<1>3. m \in Nat
  BY JobsAssumption DEF parseGPUMemoryMiB, GPUMemoryRequest
<1>4. IsFiniteSet(big) /\ Cardinality(big) >= GPU[j]
  <2>1. IsFiniteSet(1..Len(FreeMem[n])) /\ Cardinality(1..Len(FreeMem[n])) = Len(FreeMem[n])
    BY <1>2, FS_Interval
  <2>2. IsFiniteSet(big)
    BY <2>1, FS_Subset
  <2>3. CASE m > 0
    BY <1>1, <2>2, <2>3 DEF CanFitGPUMemory
  <2>4. CASE m = 0
    <3>1. big = 1..Len(FreeMem[n])
      BY <1>2, <2>4
    <3>2. Cardinality(big) = Len(FreeMem[n])
      BY <2>1, <3>1
    <3> HIDE DEF big
    <3> QED
      BY <1>1, <1>2, <2>2, <3>2
  <2> QED
    BY <1>3, <2>3, <2>4
<1>5. PICK S \in SUBSET big : Cardinality(S) = GPU[j]
  <2> HIDE DEF big
  <2>1. Cardinality(big) \in Nat
    BY <1>4, FS_CardinalityType
  <2> QED
    BY <1>2, <1>4, <2>1, SubsetOfSize
<1> QED
  BY <1>1, <1>5 DEF Fits, TotalGPU

\* What placeJob has decided and recorded: the node of a job, and the node a
\* handler has chosen for its copy and is yet to record, fit the job.
PlaceInv ==
    /\ AssignedFits
    /\ \A h \in Handlers : target[h] # NoNode =>
          /\ pc[h] \in {"allocate_gpu", "mark_scheduled"}
          /\ Fits(snap[h].id, target[h])

\* Nodes are never unregistered, so that a node that fits goes on to.
LEMMA NodesGrow ==
    ASSUME [Next]_vars
    PROVE  nodes \subseteq nodes'
<1>1. ASSUME NEW h \in Handlers, Arrive(h) PROVE nodes' = nodes
  BY <1>1 DEF Arrive, ScheduleRequest, RunRequest, CancelRequest, RetryRequest,
      DispatchRequest, store
<1>2. ASSUME NEW h \in Handlers, Advance(h) PROVE nodes' = nodes
  BY <1>2 DEF Advance, ScheduleJob, SelectNode, AllocateGPU, MarkScheduled, Pop,
      BeginBatch, RunNext, CreateExecution, MarkRunning, Execute, UpdateExecution,
      FinishSucceeded, FinishFailed, CancelJob, RetryJob, store
<1> QED
  BY <1>1, <1>2 DEF Next, CreateJob, RegisterNode, FatalMapWrite, Rest, vars, store

\* The node that a handler has in mind after a step: none, the one MatchNode has
\* just returned for its copy, or the one it had.
KeepsOrSelects(h) ==
    \/ target'[h] = NoNode
    \/ /\ SelectNode(h)
       /\ pc'[h] = "allocate_gpu" /\ snap'[h] = snap[h]
       /\ target'[h] \in MatchNode(nodes, avail, GPU[snap[h].id],
                                   parseGPUMemoryMiB(GPUMemory[snap[h].id]))
    \/ /\ AllocateGPU(h)
       /\ avail[target[h]] >= GPU[snap[h].id]
       /\ avail' = [avail EXCEPT ![target[h]] = @ - GPU[snap[h].id]]
       /\ pc'[h] = "mark_scheduled" /\ snap'[h] = snap[h]
       /\ target'[h] = target[h]

LEMMA AdvanceTarget ==
    ASSUME Typed, PlaceInv, NEW h \in Handlers, Advance(h)
    PROVE  KeepsOrSelects(h)
<1> USE DEF Goto, dispatchLocals, At
<1>0. /\ target \in [Handlers -> Nodes \cup {NoNode}]
      /\ pc \in [Handlers -> Labels]
      /\ pc[h] \notin {"allocate_gpu", "mark_scheduled"} => target[h] = NoNode
  BY DEF Typed, TypeOK, PlaceInv
<1>1. ASSUME Return(h) PROVE target'[h] = NoNode
  BY <1>0, <1>1 DEF Return
<1>2. ASSUME PlaceFailed(h) PROVE target'[h] = NoNode
  BY <1>0, <1>1, <1>2 DEF PlaceFailed
<1>3. ASSUME Placed(h) PROVE target'[h] = NoNode
  BY <1>0, <1>1, <1>3 DEF Placed
<1>4. CASE SelectNode(h)
  BY <1>0, <1>2, <1>4 DEF SelectNode, KeepsOrSelects
<1>5. CASE AllocateGPU(h)
  BY <1>0, <1>2, <1>5 DEF AllocateGPU, Sufficient, Remaining, KeepsOrSelects
<1>6. CASE MarkScheduled(h)
  BY <1>3, <1>6 DEF MarkScheduled, KeepsOrSelects
<1>7. CASE ScheduleJob(h) \/ Pop(h) \/ BeginBatch(h) \/ RunNext(h)
  BY <1>0, <1>1, <1>2, <1>7 DEF ScheduleJob, Pop, BeginBatch, RunNext, KeepsOrSelects
<1>8. CASE CreateExecution(h) \/ MarkRunning(h) \/ Execute(h) \/ UpdateExecution(h)
  BY <1>0, <1>8 DEF CreateExecution, MarkRunning, Execute, UpdateExecution,
      KeepsOrSelects
<1>9. CASE \/ FinishSucceeded(h) \/ FinishFailed(h) \/ CancelJob(h) \/ RetryJob(h)
  BY <1>0, <1>1, <1>9 DEF FinishSucceeded, FinishFailed, CancelJob, RetryJob,
      KeepsOrSelects
<1> QED
  BY <1>4, <1>5, <1>6, <1>7, <1>8, <1>9 DEF Advance

\* A request finds its handler with no node in mind and gives it none.
LEMMA ArriveTarget ==
    ASSUME PlaceInv, NEW h \in Handlers, Arrive(h)
    PROVE  target' = target /\ target[h] = NoNode
<1>1. pc[h] = "idle" /\ target' = target
  BY DEF Arrive, ScheduleRequest, RunRequest, CancelRequest, RetryRequest,
      DispatchRequest, Accept, At
<1> QED
  BY <1>1 DEF PlaceInv

\* Only MarkScheduled writes assigned_node.
LEMMA AssignedFrame ==
    ASSUME [Next]_vars, assigned' # assigned
    PROVE  \E h \in Handlers :
              /\ MarkScheduled(h)
              /\ pc[h] = "mark_scheduled" /\ target[h] # NoNode
              /\ assigned' = [assigned EXCEPT ![snap[h].id] = target[h]]
<1>1. ASSUME NEW h \in Handlers, Arrive(h) PROVE assigned' = assigned
  BY <1>1 DEF Arrive, ScheduleRequest, RunRequest, CancelRequest, RetryRequest,
      DispatchRequest, store
<1>2. ASSUME NEW h \in Handlers, Advance(h), ~MarkScheduled(h)
      PROVE  assigned' = assigned
  BY <1>2 DEF Advance, ScheduleJob, SelectNode, AllocateGPU, Pop, BeginBatch,
      RunNext, CreateExecution, MarkRunning, Execute, UpdateExecution,
      FinishSucceeded, FinishFailed, CancelJob, RetryJob, store
<1>3. PICK h \in Handlers : MarkScheduled(h)
  BY <1>1, <1>2 DEF Next, CreateJob, RegisterNode, FatalMapWrite, Rest, vars, store
<1> QED
  BY <1>3 DEF MarkScheduled, At

LEMMA PlaceNext ==
    Typed /\ NoOversubscription /\ PlaceInv /\ [Next]_vars => PlaceInv'
<1> SUFFICES ASSUME Typed, NoOversubscription, PlaceInv, [Next]_vars
             PROVE  PlaceInv'
  OBVIOUS
<1>0. /\ assigned \in [Jobs -> Nodes \cup {NoNode}]
      /\ \A h \in Handlers : pc[h] \in {"list_nodes", "allocate_gpu", "mark_scheduled"} =>
            snap[h].id \in Jobs
  BY DEF Typed, TypeOK, HandlerOK, Holding, Labels, Snapshot
<1>1. AssignedFits'
  <2> SUFFICES ASSUME NEW j \in Jobs, assigned'[j] # NoNode
               PROVE  Fits(j, assigned[j])'
    BY DEF AssignedFits
  <2>1. Fits(j, assigned'[j])
    <3>1. CASE assigned' = assigned
      BY <3>1 DEF PlaceInv, AssignedFits
    <3>2. CASE assigned' # assigned
      <4>1. PICK h \in Handlers :
                    /\ target[h] # NoNode
                    /\ assigned' = [assigned EXCEPT ![snap[h].id] = target[h]]
        BY <3>2, AssignedFrame
      <4>2. Fits(snap[h].id, target[h])
        BY <4>1 DEF PlaceInv
      <4> QED
        BY <1>0, <4>1, <4>2 DEF PlaceInv, AssignedFits
    <3> QED
      BY <3>1, <3>2
  <2> QED
    BY <2>1, NodesGrow DEF Fits, TotalGPU
<1> DEFINE OK(g) == target[g] # NoNode =>
                      /\ pc[g] \in {"allocate_gpu", "mark_scheduled"}
                      /\ Fits(snap[g].id, target[g])
<1>2. ASSUME NEW g \in Handlers, pc'[g] = pc[g], snap'[g] = snap[g], target'[g] = target[g]
      PROVE  OK(g)'
  BY <1>2, NodesGrow DEF PlaceInv, Fits, TotalGPU
<1>3. ASSUME NEW h \in Handlers, Arrive(h) PROVE \A g \in Handlers : OK(g)'
  BY <1>2, <1>3, ArriveFrame, ArriveTarget DEF SameLocals
<1>4. ASSUME NEW h \in Handlers, Advance(h) PROVE \A g \in Handlers : OK(g)'
  <2>1. ASSUME NEW g \in Handlers, g # h PROVE OK(g)'
    BY <1>2, <1>4, <2>1, AdvanceFrame DEF SameLocals
  <2>2. OK(h)'
    <3>0. CASE target'[h] = NoNode
      BY <3>0
    <3>1. CASE target'[h] # NoNode
      <4>1. \/ /\ SelectNode(h)
               /\ pc'[h] = "allocate_gpu" /\ snap'[h] = snap[h]
               /\ target'[h] \in MatchNode(nodes, avail, GPU[snap[h].id],
                                           parseGPUMemoryMiB(GPUMemory[snap[h].id]))
            \/ /\ AllocateGPU(h)
               /\ pc'[h] = "mark_scheduled" /\ snap'[h] = snap[h]
               /\ target'[h] = target[h]
        BY <1>4, <3>1, AdvanceTarget DEF KeepsOrSelects
      <4>2. snap[h].id \in Jobs
        BY <1>0, <4>1 DEF SelectNode, AllocateGPU, At
      <4>3. Fits(snap[h].id, target'[h])
        BY <3>1, <4>1, <4>2, SelectedFits DEF PlaceInv
      <4>4. Fits(snap'[h].id, target'[h])
        BY <4>1, <4>3
      <4>5. Fits(snap[h].id, target[h])'
        BY <4>4, NodesGrow DEF Fits, TotalGPU
      <4> QED
        BY <4>1, <4>5
    <3> QED
      BY <3>0, <3>1
  <2> QED
    BY <2>1, <2>2
<1>5. ASSUME pc' = pc, snap' = snap, target' = target
      PROVE  \A g \in Handlers : OK(g)'
  BY <1>2, <1>5
<1>6. \A g \in Handlers : OK(g)'
  BY <1>3, <1>4, <1>5 DEF Next, CreateJob, RegisterNode, FatalMapWrite, Rest, vars,
      store, locals
<1> QED
  BY <1>1, <1>6 DEF PlaceInv

\* A job is only ever assigned to an online node with GPUs that fit it, however
\* placements interleave with each other and with the registration of nodes.
THEOREM AssignmentsFit == Spec => []AssignedFits
<1>1. Init => PlaceInv
  BY DEF Init, PlaceInv, AssignedFits
<1>2. Spec => []Typed
  BY TypedInit, TypedNext, PTL DEF Spec
<1> QED
  BY <1>1, <1>2, PlaceNext, GPUsWithinInventory, PTL DEF Spec, PlaceInv
-----------------------------------------------------------------------------
(* The account of the GPUs of a node.                                      *)

\* f[x] numbered slots for each x in D.
Slots(D, f) == UNION {{x} \X (1..f[x]) : x \in D}

LEMMA SlotsOf ==
    ASSUME NEW x, NEW k \in Nat
    PROVE  IsFiniteSet({x} \X (1..k)) /\ Cardinality({x} \X (1..k)) = k
<1>1. IsFiniteSet({x}) /\ Cardinality({x}) = 1
  BY FS_Singleton
<1>2. IsFiniteSet(1..k) /\ Cardinality(1..k) = k
  BY FS_Interval
<1>3. /\ IsFiniteSet({x} \X (1..k))
      /\ Cardinality({x} \X (1..k)) = Cardinality({x}) * Cardinality(1..k)
  BY <1>1, <1>2, FS_Product
<1> QED
  BY <1>1, <1>2, <1>3

LEMMA SlotsAdd ==
    ASSUME NEW D, NEW f, NEW x, x \notin D, f[x] \in Nat, IsFiniteSet(Slots(D, f))
    PROVE  /\ IsFiniteSet(Slots(D \cup {x}, f))
           /\ Cardinality(Slots(D \cup {x}, f)) = Cardinality(Slots(D, f)) + f[x]
<1> DEFINE A == Slots(D, f)
           B == {x} \X (1..f[x])
<1>1. Slots(D \cup {x}, f) = A \cup B
  BY DEF Slots
<1>2. A \cap B = {}
  BY DEF Slots
<1>3. IsFiniteSet(B) /\ Cardinality(B) = f[x]
  BY SlotsOf
<1>4. Cardinality(A) \in Nat
  BY FS_CardinalityType
<1>5. /\ IsFiniteSet(A \cup B)
      /\ Cardinality(A \cup B) = Cardinality(A) + Cardinality(B) - Cardinality(A \cap B)
  BY <1>3, FS_Union
<1> HIDE DEF A, B
<1>6. Cardinality(A \cup B) = Cardinality(A) + f[x]
  BY <1>2, <1>3, <1>4, <1>5, FS_EmptySet
<1> QED
  BY <1>1, <1>5, <1>6 DEF A

LEMMA SlotsRemove ==
    ASSUME NEW D, NEW f, NEW x \in D, f[x] \in Nat, IsFiniteSet(Slots(D, f))
    PROVE  /\ IsFiniteSet(Slots(D \ {x}, f))
           /\ Cardinality(Slots(D, f)) = Cardinality(Slots(D \ {x}, f)) + f[x]
<1> DEFINE E == D \ {x}
<1>1. Slots(E, f) \subseteq Slots(D, f)
  BY DEF Slots
<1>2. IsFiniteSet(Slots(E, f))
  BY <1>1, FS_Subset
<1>3. E \cup {x} = D /\ x \notin E
  OBVIOUS
<1> HIDE DEF E
<1>4. Cardinality(Slots(E \cup {x}, f)) = Cardinality(Slots(E, f)) + f[x]
  BY <1>2, <1>3, SlotsAdd
<1> QED
  BY <1>2, <1>3, <1>4 DEF E

\* The jobs on node n, and the handlers with a grant of it that is not recorded.
JobsOn(n) == {j \in Jobs : assigned[j] = n}
GrantedOn(n) == {h \in Handlers : pc[h] = "mark_scheduled" /\ target[h] = n}
Asked == [h \in Handlers |-> GPU[snap[h].id]]

LEMMA AccountSlots ==
    ASSUME NEW n
    PROVE  Held(n) = Slots(JobsOn(n), GPU) /\ Transit(n) = Slots(GrantedOn(n), Asked)
<1>1. Held(n) = Slots(JobsOn(n), GPU)
  BY DEF Held, Slots, JobsOn
<1>2. \A h \in GrantedOn(n) : Asked[h] = GPU[snap[h].id]
  BY DEF GrantedOn, Asked
<1>3. Transit(n) = UNION {{h} \X (1..GPU[snap[h].id]) : h \in GrantedOn(n)}
  BY DEF Transit, GrantedOn
<1>4. Transit(n) = Slots(GrantedOn(n), Asked)
  BY <1>2, <1>3 DEF Slots
<1> QED
  BY <1>1, <1>4

LEMMA SlotsSame ==
    ASSUME NEW D, NEW f, NEW g, \A x \in D : f[x] = g[x]
    PROVE  Slots(D, f) = Slots(D, g)
  BY DEF Slots

LEMMA SlotsFewer ==
    ASSUME NEW D, NEW E, NEW f, E \subseteq D, IsFiniteSet(Slots(D, f))
    PROVE  /\ IsFiniteSet(Slots(E, f))
           /\ Cardinality(Slots(E, f)) <= Cardinality(Slots(D, f))
<1>1. Slots(E, f) \subseteq Slots(D, f)
  BY DEF Slots
<1> QED
  BY <1>1, FS_Subset

\* What jobs hold of node n and what is granted on it is covered by what was
\* deducted from it.
GrantOK(n) ==
    /\ IsFiniteSet(Slots(JobsOn(n), GPU))
    /\ IsFiniteSet(Slots(GrantedOn(n), Asked))
    /\ TotalGPU(n) - avail[n] >= Cardinality(Slots(JobsOn(n), GPU))
                                 + Cardinality(Slots(GrantedOn(n), Asked))

GrantInv == \A n \in nodes : GrantOK(n)

\* The three ways in which a step of handler h concerns the account: it is
\* granted GPUs, it records a grant, or neither.
LEMMA GrantSteps ==
    ASSUME Typed, PlaceInv, NEW h \in Handlers, Advance(h)
    PROVE  \/ /\ pc[h] = "allocate_gpu" /\ target[h] \in Nodes
              /\ avail' = [avail EXCEPT ![target[h]] = @ - GPU[snap[h].id]]
              /\ pc'[h] = "mark_scheduled" /\ snap'[h] = snap[h]
              /\ target'[h] = target[h] /\ assigned' = assigned
           \/ /\ pc[h] = "mark_scheduled" /\ target[h] \in Nodes
              /\ assigned' = [assigned EXCEPT ![snap[h].id] = target[h]]
              /\ target'[h] = NoNode /\ avail' = avail
           \/ /\ pc[h] = "mark_scheduled" => target[h] = NoNode
              /\ pc'[h] = "mark_scheduled" => target'[h] = NoNode
              /\ assigned' = assigned /\ avail' = avail
<1>0. KeepsOrSelects(h) /\ target[h] \in Nodes \cup {NoNode}
  BY AdvanceTarget DEF Typed, TypeOK
<1>1. CASE MarkScheduled(h)
  <2>1. /\ pc[h] = "mark_scheduled" /\ avail' = avail
        /\ assigned' = IF target[h] = NoNode THEN assigned
                       ELSE [assigned EXCEPT ![snap[h].id] = target[h]]
    BY <1>1 DEF MarkScheduled, At
  <2>2. target'[h] = NoNode
    BY <1>0, <2>1 DEF KeepsOrSelects, SelectNode, AllocateGPU, At
  <2> QED
    BY <1>0, <2>1, <2>2
<1>2. CASE AllocateGPU(h)
  <2>1. /\ pc[h] = "allocate_gpu" /\ target[h] \in Nodes
        /\ assigned' = assigned
    BY <1>2 DEF AllocateGPU, At, Typed, HandlerOK
  <2>2. \/ /\ avail' = [avail EXCEPT ![target[h]] = @ - GPU[snap[h].id]]
           /\ pc'[h] = "mark_scheduled" /\ UNCHANGED <<snap, target>>
        \/ avail' = avail /\ PlaceFailed(h)
    BY <1>2 DEF AllocateGPU, Sufficient, Remaining, Goto, Typed, TypeOK
  <2>3. PlaceFailed(h) => pc'[h] # "mark_scheduled"
    BY DEF PlaceFailed, Return, Goto, Typed, TypeOK
  <2> QED
    BY <2>1, <2>2, <2>3
<1>3. CASE ~MarkScheduled(h) /\ ~AllocateGPU(h)
  <2>1. assigned' = assigned /\ avail' = avail /\ pc[h] # "mark_scheduled"
    BY <1>3 DEF Advance, ScheduleJob, SelectNode, Pop, BeginBatch, RunNext,
        CreateExecution, MarkRunning, Execute, UpdateExecution, FinishSucceeded,
        FinishFailed, CancelJob, RetryJob, store, At
  <2> QED
    BY <1>0, <1>3, <2>1 DEF KeepsOrSelects
<1> QED
  BY <1>1, <1>2, <1>3

\* An account that a step does not concern stays covered.
LEMMA GrantFrame ==
    ASSUME NEW n \in nodes, GrantOK(n),
           JobsOn(n)' \subseteq JobsOn(n), GrantedOn(n)' = GrantedOn(n),
           \A g \in GrantedOn(n) : snap'[g] = snap[g],
           avail'[n] = avail[n], TotalGPU(n) \in Nat, avail[n] \in Int
    PROVE  GrantOK(n)'
<1>1. Slots(GrantedOn(n), Asked)' = Slots(GrantedOn(n), Asked)
  <2>1. \A g \in GrantedOn(n) : Asked'[g] = Asked[g]
    BY DEF Asked, GrantedOn
  <2>2. Slots(GrantedOn(n), Asked') = Slots(GrantedOn(n), Asked)
    BY <2>1, SlotsSame
  <2>3. Slots(GrantedOn(n), Asked)' = Slots(GrantedOn(n)', Asked')
    BY DEF Slots
  <2> QED
    BY <2>2, <2>3
<1>2. Slots(JobsOn(n), GPU)' = Slots(JobsOn(n)', GPU)
  BY DEF Slots
<1>3. /\ IsFiniteSet(Slots(JobsOn(n)', GPU))
      /\ Cardinality(Slots(JobsOn(n)', GPU)) <= Cardinality(Slots(JobsOn(n), GPU))
  BY SlotsFewer DEF GrantOK
<1>4. /\ Cardinality(Slots(JobsOn(n)', GPU)) \in Nat
      /\ Cardinality(Slots(JobsOn(n), GPU)) \in Nat
      /\ Cardinality(Slots(GrantedOn(n), Asked)) \in Nat
  BY <1>3, FS_CardinalityType DEF GrantOK
<1> QED
  BY <1>1, <1>2, <1>3, <1>4 DEF GrantOK, TotalGPU

LEMMA GrantNext ==
    Typed /\ NoOversubscription /\ PlaceInv /\ GrantInv /\ [Next]_vars => GrantInv'
<1> SUFFICES ASSUME Typed, NoOversubscription, PlaceInv, GrantInv, [Next]_vars,
                    NEW n \in nodes'
             PROVE  GrantOK(n)'
  BY DEF GrantInv
<1>0. /\ n \in Nodes /\ n # NoNode
      /\ TotalGPU(n) \in Nat /\ avail[n] \in Int
      /\ avail \in [Nodes -> Int]
      /\ assigned \in [Jobs -> Nodes \cup {NoNode}]
      /\ \A h \in Handlers : pc[h] \in {"allocate_gpu", "mark_scheduled"} =>
            snap[h].id \in Jobs /\ GPU[snap[h].id] \in Nat
      /\ \A j \in Jobs : GPU[j] \in Nat
  <2>1. nodes' \subseteq Nodes
    BY TypedNext DEF Typed, TypeOK
  <2>2. n \in Nodes /\ n # NoNode
    BY <2>1, BoundsAssumption
  <2>3. TotalGPU(n) \in Nat
    BY <2>2, NodesAssumption DEF TotalGPU
  <2>4. /\ avail \in [Nodes -> Int] /\ avail[n] \in Int
        /\ assigned \in [Jobs -> Nodes \cup {NoNode}]
    BY <2>2 DEF Typed, TypeOK
  <2>5. \A j \in Jobs : GPU[j] \in Nat
    BY JobsAssumption
  <2>6. \A h \in Handlers : pc[h] \in {"allocate_gpu", "mark_scheduled"} =>
            snap[h].id \in Jobs
    BY DEF Typed, HandlerOK, Holding, Labels, Snapshot
  <2> QED
    BY <2>2, <2>3, <2>4, <2>5, <2>6
<1> DEFINE J == Slots(JobsOn(n), GPU)
           G == Slots(GrantedOn(n), Asked)
<1>1. ASSUME n \in nodes
      PROVE  /\ GrantOK(n) /\ IsFiniteSet(J) /\ IsFiniteSet(G)
             /\ Cardinality(J) \in Nat /\ Cardinality(G) \in Nat
             /\ TotalGPU(n) - avail[n] >= Cardinality(J) + Cardinality(G)
  BY <1>1, FS_CardinalityType DEF GrantInv, GrantOK
<1>2. /\ J' = Slots(JobsOn(n)', GPU) /\ G' = Slots(GrantedOn(n)', Asked')
      /\ GrantOK(n)' <=> /\ IsFiniteSet(J') /\ IsFiniteSet(G')
                         /\ TotalGPU(n) - avail'[n] >= Cardinality(J') + Cardinality(G')
  BY DEF GrantOK, TotalGPU, Slots
<1>3. ASSUME NEW m \in Nodes, RegisterNode(m) PROVE GrantOK(n)'
  <2>1. /\ assigned' = assigned /\ pc' = pc /\ target' = target /\ snap' = snap
        /\ m \notin nodes /\ nodes' = nodes \cup {m}
        /\ avail' = [avail EXCEPT ![m] = TotalGPU(m)]
    BY <1>3 DEF RegisterNode, locals
  <2>2. JobsOn(n)' = JobsOn(n) /\ GrantedOn(n)' = GrantedOn(n)
    BY <2>1 DEF JobsOn, GrantedOn
  <2>3. CASE n # m
    <3>1. n \in nodes /\ avail'[n] = avail[n]
      BY <1>0, <2>1, <2>3
    <3> QED
      BY <1>0, <1>1, <2>1, <2>2, <3>1, GrantFrame
  <2>4. CASE n = m
    <3>1. JobsOn(n) = {} /\ GrantedOn(n) = {}
      BY <1>0, <2>1, <2>4 DEF JobsOn, GrantedOn, PlaceInv, AssignedFits, Fits
    <3>2. J' = {} /\ G' = {}
      BY <1>2, <2>2, <3>1 DEF Slots
    <3>3. avail'[n] = TotalGPU(n)
      BY <1>0, <2>1, <2>4
    <3>4. IsFiniteSet({}) /\ Cardinality({}) = 0
      BY FS_EmptySet
    <3> QED
      BY <1>0, <1>2, <3>2, <3>3, <3>4
  <2> QED
    BY <2>3, <2>4
<1>4. ASSUME NEW h \in Handlers, Arrive(h) PROVE GrantOK(n)'
  <2>1. /\ nodes' = nodes /\ assigned' = assigned /\ avail' = avail
        /\ pc[h] = "idle" /\ target' = target /\ target[h] = NoNode
    BY <1>4, ArriveTarget DEF Arrive, ScheduleRequest, RunRequest, CancelRequest,
        RetryRequest, DispatchRequest, Accept, At, store
  <2>2. \A g \in Handlers : g # h => pc'[g] = pc[g] /\ snap'[g] = snap[g]
    BY <1>4, ArriveFrame DEF SameLocals
  <2>3. JobsOn(n)' = JobsOn(n)
    BY <2>1 DEF JobsOn
  <2>4. GrantedOn(n)' = GrantedOn(n) /\ h \notin GrantedOn(n)
    BY <1>0, <2>1, <2>2 DEF GrantedOn
  <2>5. \A g \in GrantedOn(n) : snap'[g] = snap[g]
    BY <2>2, <2>4 DEF GrantedOn
  <2> QED
    BY <1>0, <1>1, <2>1, <2>3, <2>4, <2>5, GrantFrame
<1>5. ASSUME NEW h \in Handlers, Advance(h) PROVE GrantOK(n)'
  <2>0. /\ nodes' = nodes /\ n \in nodes
        /\ \A g \in Handlers : g # h => /\ pc'[g] = pc[g] /\ snap'[g] = snap[g]
                                        /\ target'[g] = target[g]
    <3>1. nodes' = nodes
      BY <1>5 DEF Advance, ScheduleJob, SelectNode, AllocateGPU, MarkScheduled, Pop,
          BeginBatch, RunNext, CreateExecution, MarkRunning, Execute, UpdateExecution,
          FinishSucceeded, FinishFailed, CancelJob, RetryJob, store
    <3> QED
      BY <1>5, <3>1, AdvanceFrame DEF SameLocals
  <2> DEFINE j == snap[h].id
             k == GPU[snap[h].id]
  \* h is granted GPUs of target[h].
  <2>1. ASSUME pc[h] = "allocate_gpu", target[h] \in Nodes,
               avail' = [avail EXCEPT ![target[h]] = @ - GPU[snap[h].id]],
               pc'[h] = "mark_scheduled", snap'[h] = snap[h],
               target'[h] = target[h], assigned' = assigned
        PROVE  GrantOK(n)'
    <3>1. JobsOn(n)' = JobsOn(n)
      BY <2>1 DEF JobsOn
    <3>2. CASE n # target[h]
      <4>1. GrantedOn(n)' = GrantedOn(n) /\ h \notin GrantedOn(n)
        BY <2>0, <2>1, <3>2 DEF GrantedOn
      <4>2. \A g \in GrantedOn(n) : snap'[g] = snap[g]
        BY <2>0, <4>1 DEF GrantedOn
      <4>3. avail'[n] = avail[n]
        BY <1>0, <2>1, <3>2
      <4> QED
        BY <1>0, <1>1, <2>0, <3>1, <4>1, <4>2, <4>3, GrantFrame
    <3>3. CASE n = target[h]
      <4>1. GrantedOn(n)' = GrantedOn(n) \cup {h} /\ h \notin GrantedOn(n)
        BY <2>0, <2>1, <3>3 DEF GrantedOn
      <4>2. Asked' = Asked
        BY <2>0, <2>1 DEF Asked
      <4>3. Asked[h] = k /\ k \in Nat
        BY <1>0, <2>1 DEF Asked
      <4>4. IsFiniteSet(G') /\ Cardinality(G') = Cardinality(G) + k
        <5>1. G' = Slots(GrantedOn(n) \cup {h}, Asked)
          BY <1>2, <4>1, <4>2
        <5>2. IsFiniteSet(Slots(GrantedOn(n), Asked)) /\ Asked[h] \in Nat
          BY <1>1, <2>0, <4>3
        <5>3. /\ IsFiniteSet(Slots(GrantedOn(n) \cup {h}, Asked))
              /\ Cardinality(Slots(GrantedOn(n) \cup {h}, Asked))
                    = Cardinality(Slots(GrantedOn(n), Asked)) + Asked[h]
          BY <4>1, <5>2, SlotsAdd
        <5> QED
          BY <4>3, <5>1, <5>3
      <4>5. J' = J
        BY <1>2, <3>1
      <4>6. avail'[n] = avail[n] - k
        BY <1>0, <2>1, <3>3
      <4> HIDE DEF J, G, k
      <4> QED
        BY <1>0, <1>1, <1>2, <2>0, <4>3, <4>4, <4>5, <4>6
    <3> QED
      BY <3>2, <3>3
  \* h records its grant, and the job's earlier node, if any, is forgotten.
  <2>2. ASSUME pc[h] = "mark_scheduled", target[h] \in Nodes,
               assigned' = [assigned EXCEPT ![snap[h].id] = target[h]],
               target'[h] = NoNode, avail' = avail
        PROVE  GrantOK(n)'
    <3>0. j \in Jobs /\ k \in Nat
      BY <1>0, <2>2
    <3>1. CASE n # target[h]
      <4>1. GrantedOn(n)' = GrantedOn(n) /\ h \notin GrantedOn(n)
        BY <1>0, <2>0, <2>2, <3>1 DEF GrantedOn
      <4>2. \A g \in GrantedOn(n) : snap'[g] = snap[g]
        BY <2>0, <4>1 DEF GrantedOn
      <4>3. JobsOn(n)' \subseteq JobsOn(n)
        BY <1>0, <2>2, <3>0, <3>1 DEF JobsOn
      <4> QED
        BY <1>0, <1>1, <2>0, <2>2, <4>1, <4>2, <4>3, GrantFrame
    <3>2. CASE n = target[h]
      <4>1. h \in GrantedOn(n) /\ GrantedOn(n)' = GrantedOn(n) \ {h}
        BY <1>0, <2>0, <2>2, <3>2 DEF GrantedOn
      <4>2. Asked[h] = k /\ \A g \in GrantedOn(n) \ {h} : Asked'[g] = Asked[g]
        BY <2>0 DEF Asked, GrantedOn
      <4>3. G' = Slots(GrantedOn(n) \ {h}, Asked)
        BY <1>2, <4>1, <4>2, SlotsSame
      <4>4. IsFiniteSet(G') /\ Cardinality(G) = Cardinality(G') + k
        BY <1>1, <2>0, <3>0, <4>1, <4>2, <4>3, SlotsRemove
      <4>5. JobsOn(n)' = JobsOn(n) \cup {j}
        BY <1>0, <2>2, <3>0, <3>2 DEF JobsOn
      <4>6. IsFiniteSet(J') /\ Cardinality(J') <= Cardinality(J) + k
        <5>1. CASE j \in JobsOn(n)
          <6>1. JobsOn(n) \cup {j} = JobsOn(n)
            BY <5>1
          <6>2. J' = J
            BY <1>2, <4>5, <6>1
          <6> HIDE DEF J, k
          <6> QED
            BY <1>1, <2>0, <3>0, <6>2
        <5>2. CASE j \notin JobsOn(n)
          <6>1. /\ IsFiniteSet(J')
                /\ Cardinality(J') = Cardinality(J) + k
            BY <1>1, <1>2, <2>0, <3>0, <4>5, <5>2, SlotsAdd
          <6> HIDE DEF J, k
          <6> QED
            BY <1>1, <2>0, <3>0, <6>1
        <5> QED
          BY <5>1, <5>2
      <4>7. Cardinality(J') \in Nat /\ Cardinality(G') \in Nat
        BY <4>4, <4>6, FS_CardinalityType
      <4> HIDE DEF J, G, k
      <4> QED
        BY <1>0, <1>1, <1>2, <2>0, <2>2, <3>0, <4>4, <4>6, <4>7
    <3> QED
      BY <3>1, <3>2
  <2>3. ASSUME pc[h] = "mark_scheduled" => target[h] = NoNode,
               pc'[h] = "mark_scheduled" => target'[h] = NoNode,
               assigned' = assigned, avail' = avail
        PROVE  GrantOK(n)'
    <3>1. JobsOn(n)' = JobsOn(n)
      BY <2>3 DEF JobsOn
    <3>2. GrantedOn(n)' = GrantedOn(n) /\ h \notin GrantedOn(n)
      BY <1>0, <2>0, <2>3 DEF GrantedOn
    <3>3. \A g \in GrantedOn(n) : snap'[g] = snap[g]
      BY <2>0, <3>2 DEF GrantedOn
    <3> QED
      BY <1>0, <1>1, <2>0, <2>3, <3>1, <3>2, <3>3, GrantFrame
  <2> QED
    BY <1>5, <2>1, <2>2, <2>3, GrantSteps
<1>6. ASSUME nodes' = nodes, avail' = avail, assigned' = assigned,
             pc' = pc, snap' = snap, target' = target
      PROVE  GrantOK(n)'
  <2>1. JobsOn(n)' = JobsOn(n) /\ GrantedOn(n)' = GrantedOn(n)
    BY <1>6 DEF JobsOn, GrantedOn
  <2> QED
    BY <1>0, <1>1, <1>6, <2>1, GrantFrame
<1> QED
  BY <1>3, <1>4, <1>5, <1>6 DEF Next, CreateJob, FatalMapWrite, Rest, vars, store,
      locals

\* Whatever concurrent requests place the same job twice, and whenever nodes
\* register, no job ever counts on GPUs that the store has not deducted.
THEOREM GrantsAreCovered == Spec => []GrantsCovered
<1>1. Init => PlaceInv /\ GrantInv
  BY DEF Init, PlaceInv, AssignedFits, GrantInv
<1>2. Spec => []Typed
  BY TypedInit, TypedNext, PTL DEF Spec
<1>3. GrantInv => GrantsCovered
  BY AccountSlots DEF GrantInv, GrantOK, GrantsCovered
<1> QED
  BY <1>1, <1>2, <1>3, PlaceNext, GrantNext, GPUsWithinInventory, PTL DEF Spec
-----------------------------------------------------------------------------
(* The counters of /metrics.                                               *)

\* The jobs that the store holds.  No operation deletes one, and every id that
\* a handler works with is of one of them.
Known == {j \in Jobs : jobs[j].status # "none"}

KnownOK(h) ==
    /\ snap[h] \in Snapshot => snap[h].id \in Known
    /\ \A s \in queue[h] : s.id \in Known
    /\ \A i \in 1..Len(batch[h]) : batch[h][i] \in Known

KnownInv == \A h \in Handlers : KnownOK(h)

LEMMA ArriveKnown ==
    ASSUME Typed, KnownInv, NEW h \in Handlers, Arrive(h)
    PROVE  /\ snap'[h] \in Snapshot => snap'[h].id \in Known
           /\ \A s \in queue'[h] : s.id \in Known
           /\ \A i \in 1..Len(batch'[h]) : batch'[h][i] \in Known
           /\ jobs' = jobs
<1>0. KnownOK(h) /\ batch' = batch /\ jobs' = jobs
  BY DEF KnownInv, Arrive, ScheduleRequest, RunRequest, CancelRequest, RetryRequest,
      DispatchRequest, dispatchLocals, store
<1>1. CASE \E j \in Jobs : \/ ScheduleRequest(h, j) \/ RunRequest(h, j)
                           \/ CancelRequest(h, j) \/ RetryRequest(h, j)
  <2>1. PICK j \in Jobs : jobs[j].status # "none" /\ Hold(h, Copy(j)) /\ queue' = queue
    BY <1>1 DEF ScheduleRequest, RunRequest, CancelRequest, RetryRequest, Load,
        CanSchedule, CanCancel, CanRetry, dispatchLocals
  <2>2. snap'[h].id \in Known
    BY <2>1 DEF Hold, Copy, Known, Typed, TypeOK
  <2> QED
    BY <1>0, <2>1, <2>2 DEF KnownOK
<1>2. CASE \E l \in Limits : DispatchRequest(h, l)
  <2>1. /\ queue'[h] = {Copy(j) : j \in {i \in Jobs : CanSchedule(jobs[i])}}
        /\ snap' = snap
    BY <1>2 DEF DispatchRequest, Typed, TypeOK
  <2>2. \A s \in queue'[h] : s.id \in Known
    BY <2>1 DEF Copy, Known, CanSchedule
  <2> QED
    BY <1>0, <2>1, <2>2 DEF KnownOK
<1> QED
  BY <1>0, <1>1, <1>2 DEF Arrive

LEMMA AdvanceKnown ==
    ASSUME Typed, KnownInv, NEW h \in Handlers, Advance(h)
    PROVE  /\ snap'[h] \in Snapshot => snap'[h].id \in Known
           /\ \A s \in queue'[h] : s.id \in Known
           /\ \A i \in 1..Len(batch'[h]) : batch'[h][i] \in Known
<1> USE DEF Hold, dispatchLocals
<1> DEFINE SnapOK == snap'[h] \in Snapshot => snap'[h].id \in Known
           BatchOK == \A i \in 1..Len(batch'[h]) : batch'[h][i] \in Known
<1>0. /\ KnownOK(h) /\ NoSnapshot \notin Snapshot
      /\ batch[h] \in Seq(Jobs) /\ \A i \in 1..0 : FALSE
      /\ snap \in [Handlers -> Snapshot \cup {NoSnapshot}]
      /\ batch \in [Handlers -> Seq(Jobs)]
  BY NoSnapshotIsNone DEF KnownInv, Typed, TypeOK
<1>1. \A s \in queue'[h] : s.id \in Known
  BY <1>0, AdvanceCopies DEF KnownOK
<1>2. batch'[h] \in {batch[h], << >>} => BatchOK
  BY <1>0 DEF KnownOK
<1>3. snap'[h] \in {snap[h], NoSnapshot} => SnapOK
  BY <1>0 DEF KnownOK
<1>4. ASSUME Return(h) PROVE snap'[h] = NoSnapshot /\ batch'[h] = << >>
  BY <1>0, <1>4 DEF Return
<1>5. ASSUME PlaceFailed(h)
      PROVE  snap'[h] = NoSnapshot /\ batch'[h] \in {batch[h], << >>}
  BY <1>0, <1>4, <1>5 DEF PlaceFailed
<1>6. CASE ScheduleJob(h)
  <2>1. snap[h].id \in Known
    BY <1>0, <1>6 DEF ScheduleJob, At, Typed, HandlerOK, Holding, Labels, KnownOK
  <2>2. SnapOK
    BY <1>0, <1>3, <1>5, <1>6, <2>1 DEF ScheduleJob, Copy
  <2>3. batch'[h] \in {batch[h], << >>}
    BY <1>5, <1>6 DEF ScheduleJob
  <2> QED
    BY <1>1, <1>2, <2>2, <2>3
<1>7. CASE SelectNode(h) \/ AllocateGPU(h)
  <2>1. snap'[h] \in {snap[h], NoSnapshot} /\ batch'[h] \in {batch[h], << >>}
    BY <1>5, <1>7 DEF SelectNode, AllocateGPU
  <2> QED
    BY <1>1, <1>2, <1>3, <2>1
<1>8. CASE MarkScheduled(h)
  <2>1. snap[h].id \in Known /\ snap[h].id \in Jobs
    BY <1>0, <1>8 DEF MarkScheduled, At, Typed, HandlerOK, Holding, Labels, KnownOK,
        Snapshot
  <2>2. snap'[h] \in {snap[h], NoSnapshot}
    BY <1>0, <1>4, <1>8 DEF MarkScheduled, Placed
  <2>3. batch'[h] \in {batch[h], << >>, Append(batch[h], snap[h].id)}
    BY <1>0, <1>4, <1>8 DEF MarkScheduled, Placed
  <2>4. \A i \in 1..Len(Append(batch[h], snap[h].id)) :
            Append(batch[h], snap[h].id)[i] \in Known
    BY <1>0, <2>1 DEF KnownOK
  <2>5. BatchOK
    BY <1>2, <2>3, <2>4
  <2> QED
    BY <1>1, <1>3, <2>2, <2>5
<1>9. CASE Pop(h)
  <2>1. PICK s \in queue[h] : snap'[h] = s
    BY <1>0, <1>9 DEF Pop
  <2>2. batch'[h] = batch[h]
    BY <1>9 DEF Pop
  <2> QED
    BY <1>0, <1>1, <1>2, <2>1, <2>2 DEF KnownOK
<1>10. CASE BeginBatch(h)
  <2>1. snap'[h] \in {snap[h], NoSnapshot} /\ batch'[h] \in {batch[h], << >>}
    BY <1>4, <1>10 DEF BeginBatch
  <2> QED
    BY <1>1, <1>2, <1>3, <2>1
<1>11. CASE RunNext(h)
  <2>1. /\ batch[h] # << >>
        /\ snap'[h] = Copy(Head(batch[h]))
        /\ batch'[h] = Tail(batch[h])
    BY <1>0, <1>11 DEF RunNext, Load, At, Typed, HandlerOK
  <2>2. snap'[h].id = batch[h][1] /\ 1 \in 1..Len(batch[h])
    BY <1>0, <2>1 DEF Copy
  <2>3. \A i \in 1..Len(Tail(batch[h])) :
            /\ Tail(batch[h])[i] = batch[h][i + 1]
            /\ i + 1 \in 1..Len(batch[h])
    BY <1>0, <2>1
  <2> QED
    BY <1>0, <1>1, <2>1, <2>2, <2>3 DEF KnownOK
<1>12. CASE CreateExecution(h) \/ MarkRunning(h) \/ Execute(h) \/ UpdateExecution(h)
  <2>1. snap' = snap /\ batch' = batch
    BY <1>12 DEF CreateExecution, MarkRunning, Execute, UpdateExecution
  <2> QED
    BY <1>1, <1>2, <1>3, <2>1
<1>13. CASE FinishSucceeded(h)
  <2>1. snap'[h] = NoSnapshot /\ batch'[h] \in {batch[h], << >>}
    BY <1>0, <1>4, <1>13 DEF FinishSucceeded
  <2> QED
    BY <1>1, <1>2, <1>3, <2>1
<1>14. CASE FinishFailed(h) \/ CancelJob(h) \/ RetryJob(h)
  <2>1. snap'[h] = NoSnapshot /\ batch'[h] = << >>
    BY <1>4, <1>14 DEF FinishFailed, CancelJob, RetryJob
  <2> QED
    BY <1>1, <1>2, <1>3, <2>1
<1> QED
  BY <1>6, <1>7, <1>8, <1>9, <1>10, <1>11, <1>12, <1>13, <1>14 DEF Advance

\* A handler only writes over jobs that the store holds, and CreateJob adds one.
LEMMA KnownSteps ==
    ASSUME Typed, KnownInv, [Next]_vars
    PROVE  \/ Known' = Known /\ metrics'["submitted"] = metrics["submitted"]
           \/ \E j \in Jobs : /\ j \notin Known /\ Known' = Known \cup {j}
                              /\ CreateJob(j)
<1>0. jobs \in [Jobs -> Job] /\ metrics \in [Metrics -> Nat] /\ "submitted" \in Metrics
  BY DEF Typed, TypeOK, Metrics
<1>1. ASSUME NEW h \in Handlers, Arrive(h)
      PROVE  jobs' = jobs /\ metrics' = metrics
  BY <1>1 DEF Arrive, ScheduleRequest, RunRequest, CancelRequest, RetryRequest,
      DispatchRequest, store
<1>2. ASSUME NEW h \in Handlers, Advance(h)
      PROVE  Known' = Known /\ metrics'["submitted"] = metrics["submitted"]
  <2>1. ASSUME jobs' = jobs PROVE Known' = Known
    BY <2>1 DEF Known
  <2>2. ASSUME jobs' # jobs PROVE Known' = Known
    <3>1. PICK r : jobs' = [jobs EXCEPT ![snap[h].id] = r] /\ r.status # "none"
                   /\ pc[h] \in Holding
      <4>1. /\ Failure(h).status # "none"
            /\ \A st \in JobStatus : WithStatus(h, st).status = st
        BY DEF Failure, AfterFailure, WithStatus
      <4> QED
        BY <1>2, <2>2, <4>1, AdvanceWrites DEF WritesJob, Writes, JobStatus, Holding, Labels
    <3>2. snap[h].id \in Known
      BY <3>1 DEF KnownInv, KnownOK, Typed, HandlerOK
    <3> QED
      BY <1>0, <3>1, <3>2 DEF Known
  <2>3. metrics'["submitted"] = metrics["submitted"]
    <3>1. \A W : Count(W) /\ "submitted" \notin W =>
                    metrics'["submitted"] = metrics["submitted"]
      BY <1>0 DEF Count
    <3>2. \A a, b : "submitted" \notin FailureCounters(a, b)
      BY DEF FailureCounters
    <3> QED
      BY <1>2, <3>1, <3>2 DEF Advance, ScheduleJob, SelectNode, AllocateGPU, MarkScheduled,
        Pop, BeginBatch, RunNext, CreateExecution, MarkRunning, Execute,
        UpdateExecution, FinishSucceeded, FinishFailed, CancelJob, RetryJob, store
  <2> QED
    BY <2>1, <2>2, <2>3
<1>3. ASSUME NEW j \in Jobs, CreateJob(j)
      PROVE  j \notin Known /\ Known' = Known \cup {j}
  BY <1>0, <1>3 DEF CreateJob, Known, NewJob
<1>4. ASSUME jobs' = jobs, metrics' = metrics
      PROVE  Known' = Known /\ metrics'["submitted"] = metrics["submitted"]
  BY <1>4 DEF Known
<1> QED
  BY <1>1, <1>2, <1>3, <1>4 DEF Next, RegisterNode, FatalMapWrite, Rest, vars, store

LEMMA KnownNext == Typed /\ KnownInv /\ [Next]_vars => KnownInv'
<1> SUFFICES ASSUME Typed, KnownInv, [Next]_vars, NEW g \in Handlers
             PROVE  KnownOK(g)'
  BY DEF KnownInv
<1>0. Known \subseteq Known'
  BY KnownSteps
<1>1. ASSUME snap'[g] = snap[g], queue'[g] = queue[g], batch'[g] = batch[g]
      PROVE  KnownOK(g)'
  <2>1. KnownOK(g)
    BY DEF KnownInv
  <2> QED
    BY <1>0, <1>1, <2>1 DEF KnownOK
<1>2. ASSUME NEW h \in Handlers, Arrive(h) PROVE KnownOK(g)'
  <2>1. CASE g # h
    BY <1>1, <1>2, <2>1, ArriveFrame DEF SameLocals
  <2>2. CASE g = h
    BY <1>0, <1>2, <2>2, ArriveKnown DEF KnownOK
  <2> QED
    BY <2>1, <2>2
<1>3. ASSUME NEW h \in Handlers, Advance(h) PROVE KnownOK(g)'
  <2>1. CASE g # h
    BY <1>1, <1>3, <2>1, AdvanceFrame DEF SameLocals
  <2>2. CASE g = h
    BY <1>0, <1>3, <2>2, AdvanceKnown DEF KnownOK
  <2> QED
    BY <2>1, <2>2
<1> QED
  BY <1>1, <1>2, <1>3 DEF Next, CreateJob, RegisterNode, FatalMapWrite, Rest, vars,
      store, locals, dispatchLocals

\* The handlers at one of the given labels, all within RunJob.
InStage(P) == {h \in Handlers : pc[h] \in P}

\* How their number changes when handler h takes a step.
LEMMA StageMoves ==
    ASSUME IsFiniteSet(InStage(Owning)), NEW h \in Handlers,
           \A g \in Handlers : g # h => pc'[g] = pc[g],
           NEW P \in SUBSET Owning
    PROVE  /\ IsFiniteSet(InStage(P)) /\ IsFiniteSet(InStage(P)')
           /\ Cardinality(InStage(P)) \in Nat /\ Cardinality(InStage(P)') \in Nat
           /\ (pc[h] \in P <=> pc'[h] \in P) =>
                  Cardinality(InStage(P)') = Cardinality(InStage(P))
           /\ pc[h] \notin P /\ pc'[h] \in P =>
                  Cardinality(InStage(P)') = Cardinality(InStage(P)) + 1
           /\ pc[h] \in P /\ pc'[h] \notin P =>
                  Cardinality(InStage(P)') = Cardinality(InStage(P)) - 1
<1> DEFINE A == InStage(P)
           B == InStage(P)'
<1>1. IsFiniteSet(A) /\ Cardinality(A) \in Nat
  <2>1. A \subseteq InStage(Owning)
    BY DEF InStage
  <2> QED
    BY <2>1, FS_Subset, FS_CardinalityType
<1>2. CASE pc[h] \in P <=> pc'[h] \in P
  <2>1. B = A
    BY <1>2 DEF InStage
  <2> QED
    BY <1>1, <1>2, <2>1
<1>3. CASE pc[h] \notin P /\ pc'[h] \in P
  <2>1. B = A \cup {h} /\ h \notin A
    BY <1>3 DEF InStage
  <2>2. IsFiniteSet(A \cup {h}) /\ Cardinality(A \cup {h}) = Cardinality(A) + 1
    BY <1>1, <2>1, FS_AddElement
  <2> HIDE DEF A, B
  <2>3. IsFiniteSet(B) /\ Cardinality(B) = Cardinality(A) + 1
    BY <2>1, <2>2
  <2> QED
    BY <1>1, <1>3, <2>3 DEF A, B
<1>4. CASE pc[h] \in P /\ pc'[h] \notin P
  <2>1. B = A \ {h} /\ h \in A
    BY <1>4 DEF InStage
  <2>2. IsFiniteSet(A \ {h}) /\ Cardinality(A \ {h}) = Cardinality(A) - 1
    BY <1>1, <2>1, FS_RemoveElement
  <2>3. Cardinality(A \ {h}) \in Nat
    BY <2>2, FS_CardinalityType
  <2> HIDE DEF A, B
  <2>4. IsFiniteSet(B) /\ Cardinality(B) \in Nat /\ Cardinality(B) = Cardinality(A) - 1
    BY <1>1, <2>1, <2>2, <2>3
  <2> QED
    BY <1>1, <1>4, <2>4 DEF A, B
<1> QED
  BY <1>2, <1>3, <1>4

\* Every execution was counted when it was marked running, is counted when its
\* handler is done with it, and in between the handler accounts for it.
CountInv ==
    /\ IsFiniteSet(Known) /\ IsFiniteSet(InStage(Owning))
    /\ metrics["submitted"] = Cardinality(Known)
    /\ metrics["running"] + Cardinality(InStage({"mark_running"})) = Len(executions)
    /\ metrics["executionCount"] + Cardinality(InStage(Owning)) = Len(executions)
    /\ metrics["succeeded"] + Cardinality(InStage({"job_succeeded"}))
          = Cardinality(ExecutionsIn("succeeded"))
    /\ metrics["failed"] + Cardinality(InStage({"job_failed"}))
          <= Cardinality(ExecutionsIn("failed"))
    /\ Cardinality(ExecutionsIn("failed"))
          <= metrics["failed"] + metrics["retried"] + Cardinality(InStage({"job_failed"}))

\* By how much each counter of RunJob grows in a step.
Counted(run, done, succ, fail, retry) ==
    /\ metrics'["running"] = metrics["running"] + run
    /\ metrics'["executionCount"] = metrics["executionCount"] + done
    /\ metrics'["succeeded"] = metrics["succeeded"] + succ
    /\ metrics'["failed"] = metrics["failed"] + fail
    /\ metrics'["retried"] = metrics["retried"] + retry

\* What a step of handler h counts, and between which labels.
LEMMA AdvanceCounts ==
    ASSUME Typed, ExecInv, NEW h \in Handlers, Advance(h)
    PROVE  \/ /\ executions' = executions
              /\ pc[h] \notin Owning /\ pc'[h] \notin Owning
              /\ Counted(0, 0, 0, 0, 0) \/ Counted(0, 0, 0, 0, 1)
           \/ /\ executions' = executions /\ Counted(0, 0, 0, 0, 0)
              /\ pc[h] = "execute" /\ pc'[h] \in {"succeeded", "failed"}
           \/ /\ CreateExecution(h) /\ Counted(0, 0, 0, 0, 0)
              /\ pc[h] = "create_execution" /\ pc'[h] = "mark_running"
           \/ /\ executions' = executions /\ Counted(1, 0, 0, 0, 0)
              /\ pc[h] = "mark_running" /\ pc'[h] = "execute"
           \/ /\ UpdateExecution(h) /\ Counted(0, 0, 0, 0, 0)
              /\ pc[h] = "succeeded" /\ pc'[h] = "job_succeeded"
           \/ /\ UpdateExecution(h) /\ Counted(0, 0, 0, 0, 0)
              /\ pc[h] = "failed" /\ pc'[h] = "job_failed"
           \/ /\ executions' = executions /\ Counted(0, 1, 1, 0, 0)
              /\ pc[h] = "job_succeeded" /\ pc'[h] \notin Owning
           \/ /\ executions' = executions
              /\ Counted(0, 1, 0, 1, 0) \/ Counted(0, 1, 0, 0, 1)
              /\ pc[h] = "job_failed" /\ pc'[h] \notin Owning
<1>0. /\ metrics \in [Metrics -> Nat] /\ pc \in [Handlers -> Labels]
      /\ {"running", "executionCount", "succeeded", "failed", "retried"} \subseteq Metrics
      /\ \A m \in Metrics : metrics[m] \in Nat
  BY DEF Typed, TypeOK, Metrics
<1>1. ASSUME metrics' = metrics PROVE Counted(0, 0, 0, 0, 0)
  BY <1>0, <1>1 DEF Counted
<1>2. /\ Count({"scheduled"}) => Counted(0, 0, 0, 0, 0)
      /\ Count({"cancelled"}) => Counted(0, 0, 0, 0, 0)
      /\ Count({"retried"}) => Counted(0, 0, 0, 0, 1)
      /\ Count({"running"}) => Counted(1, 0, 0, 0, 0)
      /\ Count({"succeeded", "executionCount"}) => Counted(0, 1, 1, 0, 0)
      /\ Count({"executionCount", "failed"}) => Counted(0, 1, 0, 1, 0)
      /\ Count({"executionCount", "retried"}) => Counted(0, 1, 0, 0, 1)
  BY <1>0 DEF Count, Counted
<1>3. CASE CreateExecution(h)
  BY <1>0, <1>1, <1>3 DEF CreateExecution, Goto, At
<1>4. CASE UpdateExecution(h)
  BY <1>0, <1>1, <1>4 DEF UpdateExecution, Goto, At
<1>5. CASE Execute(h)
  BY <1>0, <1>1, <1>5 DEF Execute, Goto, At, store
<1>6. CASE MarkRunning(h)
  BY <1>0, <1>2, <1>6 DEF MarkRunning, Goto, At
<1>7. ASSUME ~CreateExecution(h), ~UpdateExecution(h), ~Execute(h), ~MarkRunning(h)
      PROVE  executions' = executions /\ pc'[h] \notin Owning
  <2>1. pc[h] \notin Attempting
    BY <1>7 DEF Advance, ScheduleJob, SelectNode, AllocateGPU, MarkScheduled, Pop,
        BeginBatch, RunNext, FinishSucceeded, FinishFailed, CancelJob, RetryJob, At,
        Attempting
  <2> QED
    BY <1>7, <2>1, AdvanceOwnership DEF KeepsOrFree
<1>8. CASE FinishSucceeded(h)
  <2>1. /\ pc[h] = "job_succeeded" /\ Count({"succeeded", "executionCount"})
    BY <1>8 DEF FinishSucceeded, At
  <2>2. executions' = executions /\ pc'[h] \notin Owning
    BY <1>7, <2>1 DEF CreateExecution, UpdateExecution, Execute, MarkRunning, At
  <2> QED
    BY <1>2, <2>1, <2>2
<1>9. CASE FinishFailed(h)
  <2>1. pc[h] = "job_failed" /\ (\/ Count({"executionCount", "failed"})
                                 \/ Count({"executionCount", "retried"}))
    BY <1>9 DEF FinishFailed, FailureCounters, At
  <2>2. executions' = executions /\ pc'[h] \notin Owning
    BY <1>7, <2>1 DEF CreateExecution, UpdateExecution, Execute, MarkRunning, At
  <2> QED
    BY <1>2, <2>1, <2>2
<1>10. CASE MarkScheduled(h) \/ CancelJob(h) \/ RetryJob(h)
  <2>1. /\ pc[h] \in {"mark_scheduled", "cancel_job", "retry_job"}
        /\ Count({"scheduled"}) \/ Count({"cancelled"}) \/ Count({"retried"})
    BY <1>10 DEF MarkScheduled, CancelJob, RetryJob, At
  <2>2. executions' = executions /\ pc'[h] \notin Owning /\ pc[h] \notin Owning
    BY <1>7, <2>1 DEF CreateExecution, UpdateExecution, Execute, MarkRunning, At,
        Owning, Attempting
  <2> QED
    BY <1>2, <2>1, <2>2
<1>11. CASE \/ ScheduleJob(h) \/ SelectNode(h) \/ AllocateGPU(h) \/ Pop(h)
            \/ BeginBatch(h) \/ RunNext(h)
  <2>1. /\ metrics' = metrics
        /\ pc[h] \in {"schedule_job", "list_nodes", "allocate_gpu", "pop", "run_next"}
    BY <1>11 DEF ScheduleJob, SelectNode, AllocateGPU, Pop, BeginBatch, RunNext, At
  <2>2. executions' = executions /\ pc'[h] \notin Owning /\ pc[h] \notin Owning
    BY <1>7, <2>1 DEF CreateExecution, UpdateExecution, Execute, MarkRunning, At,
        Owning, Attempting
  <2> QED
    BY <1>1, <2>1, <2>2
<1> QED
  BY <1>3, <1>4, <1>5, <1>6, <1>8, <1>9, <1>10, <1>11 DEF Advance

\* A new execution has no outcome; the end of one gives it one.
LEMMA OutcomesFinite ==
    ASSUME Typed, NEW st
    PROVE  /\ IsFiniteSet(ExecutionsIn(st)) /\ Cardinality(ExecutionsIn(st)) \in Nat
           /\ ExecutionsIn(st) \subseteq 1..Len(executions)
<1>1. DOMAIN executions = 1..Len(executions) /\ Len(executions) \in Nat
  BY DEF Typed, TypeOK
<1>2. ExecutionsIn(st) \subseteq 1..Len(executions)
  BY <1>1 DEF ExecutionsIn
<1>3. IsFiniteSet(1..Len(executions))
  BY <1>1, FS_Interval
<1> QED
  BY <1>2, <1>3, FS_Subset, FS_CardinalityType

LEMMA OutcomesOnCreate ==
    ASSUME Typed, NEW h \in Handlers, CreateExecution(h), NEW st \in {"succeeded", "failed"}
    PROVE  /\ ExecutionsIn(st)' = ExecutionsIn(st)
           /\ Len(executions') = Len(executions) + 1
<1>1. executions \in Seq(Execution) /\ Len(executions) \in Nat
  BY DEF Typed, TypeOK
<1>2. NewExecution(snap[h]) \in Execution /\ NewExecution(snap[h]).status = "running"
  BY DEF CreateExecution, NewExecution, Execution, ExecutionStatus, At, Typed, HandlerOK,
      Holding, Labels, Snapshot
<1> DEFINE e == NewExecution(snap[h])
<1>3. executions' = Append(executions, e)
  BY DEF CreateExecution
<1> HIDE DEF e
<1>4. /\ Len(executions') = Len(executions) + 1
      /\ DOMAIN executions' = 1..(Len(executions) + 1)
      /\ DOMAIN executions = 1..Len(executions)
      /\ \A i \in 1..Len(executions) : executions'[i] = executions[i]
      /\ executions'[Len(executions) + 1] = e
  BY <1>1, <1>2, <1>3 DEF e
<1>5. e.status # st
  BY <1>2 DEF e
<1>6. ExecutionsIn(st)' \subseteq ExecutionsIn(st)
  BY <1>1, <1>4, <1>5 DEF ExecutionsIn
<1>7. ExecutionsIn(st) \subseteq ExecutionsIn(st)'
  BY <1>1, <1>4 DEF ExecutionsIn
<1> QED
  BY <1>4, <1>6, <1>7

LEMMA OutcomesOnUpdate ==
    ASSUME Typed, ExecInv, NEW h \in Handlers, UpdateExecution(h),
           NEW st \in {"succeeded", "failed"}
    PROVE  /\ Len(executions') = Len(executions)
           /\ pc[h] # st => ExecutionsIn(st)' = ExecutionsIn(st)
           /\ pc[h] = st => /\ exec[h] \notin ExecutionsIn(st)
                            /\ ExecutionsIn(st)' = ExecutionsIn(st) \cup {exec[h]}
<1>1. /\ executions \in Seq(Execution) /\ Len(executions) \in Nat
      /\ DOMAIN executions = 1..Len(executions)
      /\ \A i \in 1..Len(executions) : executions[i] \in Execution
      /\ exec \in [Handlers -> Nat]
  BY DEF Typed, TypeOK
<1>2. /\ executions' \in Seq(Execution)
      /\ Len(executions') = Len(executions)
      /\ \A i \in 1..Len(executions) : executions'[i] =
            IF i = exec[h] THEN [executions[i] EXCEPT !.status = pc[h]] ELSE executions[i]
  BY UpdateExecutionTyped
<1>3. DOMAIN executions' = 1..Len(executions)
  BY <1>2
<1>4. /\ exec[h] \in 1..Len(executions)
      /\ executions[exec[h]].status = "running"
  <2>1. executions[exec[h]] = Mine(h, "running") /\ exec[h] \in 0..Len(executions) /\ exec[h] # 0
    BY DEF UpdateExecution, At, ExecInv, ExecOK, Attempting, Owning
  <2> QED
    BY <1>1, <2>1 DEF Mine
<1>5. \A i \in 1..Len(executions) : executions'[i].status =
            IF i = exec[h] THEN pc[h] ELSE executions[i].status
  BY <1>1, <1>2 DEF Execution
<1>6. CASE pc[h] # st
  <2>1. ExecutionsIn(st)' \subseteq ExecutionsIn(st)
    BY <1>1, <1>3, <1>5, <1>6 DEF ExecutionsIn
  <2>2. ExecutionsIn(st) \subseteq ExecutionsIn(st)'
    BY <1>1, <1>3, <1>4, <1>5, <1>6 DEF ExecutionsIn
  <2> QED
    BY <1>2, <1>6, <2>1, <2>2
<1>7. CASE pc[h] = st
  <2>0. exec[h] \notin ExecutionsIn(st)
    BY <1>4 DEF ExecutionsIn
  <2>1. ExecutionsIn(st)' \subseteq ExecutionsIn(st) \cup {exec[h]}
    BY <1>1, <1>3, <1>5 DEF ExecutionsIn
  <2>2. ExecutionsIn(st) \cup {exec[h]} \subseteq ExecutionsIn(st)'
    BY <1>1, <1>3, <1>4, <1>5, <1>7, <2>0 DEF ExecutionsIn
  <2> QED
    BY <1>2, <1>7, <2>0, <2>1, <2>2
<1> QED
  BY <1>6, <1>7

\* Over executions that no step changes, the outcomes are the same.
LEMMA OutcomesFrame ==
    ASSUME executions' = executions, NEW st
    PROVE  ExecutionsIn(st)' = ExecutionsIn(st)
  BY DEF ExecutionsIn

\* The arithmetic of CountInv: what one counter gains, the other side gains too.
LEMMA SumKept ==
    ASSUME NEW a \in Nat, NEW b \in Nat, NEW c \in Nat, a + b = c,
           NEW x \in Nat, NEW y \in Nat, NEW z \in Nat,
           \/ x = a /\ y = b /\ z = c
           \/ x = a + 1 /\ y = b - 1 /\ z = c
           \/ x = a /\ y = b + 1 /\ z = c + 1
    PROVE  x + y = z
  OBVIOUS

LEMMA BoundsKept ==
    ASSUME NEW f \in Nat, NEW t \in Nat, NEW j \in Nat, NEW a \in Nat,
           f + j <= a, a <= f + t + j,
           NEW x \in Nat, NEW y \in Nat, NEW k \in Nat, NEW b \in Nat,
           \/ x = f /\ y \in {t, t + 1} /\ k = j /\ b = a
           \/ x = f /\ y = t /\ k = j + 1 /\ b = a + 1
           \/ x = f + 1 /\ y = t /\ k = j - 1 /\ b = a
           \/ x = f /\ y = t + 1 /\ k = j - 1 /\ b = a
    PROVE  x + k <= b /\ b <= x + y + k
  OBVIOUS

LEMMA CountNext == Typed /\ ExecInv /\ KnownInv /\ CountInv /\ [Next]_vars => CountInv'
<1> SUFFICES ASSUME Typed, ExecInv, KnownInv, CountInv, [Next]_vars PROVE CountInv'
  OBVIOUS
<1> DEFINE mr == Cardinality(InStage({"mark_running"}))
           ow == Cardinality(InStage(Owning))
           js == Cardinality(InStage({"job_succeeded"}))
           jf == Cardinality(InStage({"job_failed"}))
           su == Cardinality(ExecutionsIn("succeeded"))
           fa == Cardinality(ExecutionsIn("failed"))
           le == Len(executions)
           r == metrics["running"]
           d == metrics["executionCount"]
           s == metrics["succeeded"]
           f == metrics["failed"]
           t == metrics["retried"]
           Reconciled == /\ IsFiniteSet(InStage(Owning))
                         /\ r + mr = le
                         /\ d + ow = le
                         /\ s + js = su
                         /\ f + jf <= fa
                         /\ fa <= f + t + jf
<1>0. /\ Reconciled
      /\ su \in Nat /\ fa \in Nat /\ le \in Nat
      /\ r \in Nat /\ d \in Nat /\ s \in Nat /\ f \in Nat /\ t \in Nat
  <2>1. su \in Nat /\ fa \in Nat
    BY OutcomesFinite
  <2> QED
    BY <2>1 DEF CountInv, Typed, TypeOK, Metrics
<1>1. IsFiniteSet(Known)' /\ metrics'["submitted"] = Cardinality(Known')
  <2>1. IsFiniteSet(Known) /\ metrics["submitted"] = Cardinality(Known)
    BY DEF CountInv
  <2>2. CASE Known' = Known /\ metrics'["submitted"] = metrics["submitted"]
    BY <2>1, <2>2
  <2>3. ASSUME NEW j \in Jobs, j \notin Known, Known' = Known \cup {j}, CreateJob(j)
        PROVE  IsFiniteSet(Known)' /\ metrics'["submitted"] = Cardinality(Known')
    <3>1. /\ IsFiniteSet(Known \cup {j})
          /\ Cardinality(Known \cup {j}) = Cardinality(Known) + 1
      BY <2>1, <2>3, FS_AddElement
    <3>2. metrics'["submitted"] = metrics["submitted"] + 1
      BY <2>3 DEF CreateJob, Count, Metrics
    <3> QED
      BY <2>1, <2>3, <3>1, <3>2
  <2> QED
    BY <2>2, <2>3, KnownSteps
<1>2. ASSUME Reconciled' PROVE CountInv'
  BY <1>1, <1>2 DEF CountInv
<1>3. ASSUME pc' = pc, executions' = executions, Counted(0, 0, 0, 0, 0)
      PROVE  Reconciled'
  <2>1. /\ InStage({"mark_running"})' = InStage({"mark_running"})
        /\ InStage(Owning)' = InStage(Owning)
        /\ InStage({"job_succeeded"})' = InStage({"job_succeeded"})
        /\ InStage({"job_failed"})' = InStage({"job_failed"})
    BY <1>3 DEF InStage, Owning, Attempting
  <2>2. /\ ExecutionsIn("succeeded")' = ExecutionsIn("succeeded")
        /\ ExecutionsIn("failed")' = ExecutionsIn("failed")
    BY <1>3, OutcomesFrame
  <2>3. mr' = mr /\ ow' = ow /\ js' = js /\ jf' = jf /\ su' = su /\ fa' = fa /\ le' = le
    BY <1>3, <2>1, <2>2
  <2>4. r' = r /\ d' = d /\ s' = s /\ f' = f /\ t' = t
    BY <1>0, <1>3 DEF Counted
  <2> HIDE DEF mr, ow, js, jf, su, fa, le, r, d, s, f, t
  <2> QED
    BY <1>0, <2>1, <2>3, <2>4
\* How the number of handlers in each stage changes in a step of h.
<1>4. ASSUME NEW h \in Handlers, \A g \in Handlers : g # h => pc'[g] = pc[g]
      PROVE  /\ IsFiniteSet(InStage(Owning))'
             /\ mr \in Nat /\ ow \in Nat /\ js \in Nat /\ jf \in Nat
             /\ mr' \in Nat /\ ow' \in Nat /\ js' \in Nat /\ jf' \in Nat
             /\ pc[h] # "mark_running" /\ pc'[h] # "mark_running" => mr' = mr
             /\ pc[h] # "job_succeeded" /\ pc'[h] # "job_succeeded" => js' = js
             /\ pc[h] # "job_failed" /\ pc'[h] # "job_failed" => jf' = jf
             /\ (pc[h] \in Owning <=> pc'[h] \in Owning) => ow' = ow
             /\ pc[h] \notin Owning /\ pc'[h] \in Owning => ow' = ow + 1
             /\ pc[h] \in Owning /\ pc'[h] \notin Owning => ow' = ow - 1
             /\ pc[h] # "mark_running" /\ pc'[h] = "mark_running" => mr' = mr + 1
             /\ pc[h] = "mark_running" /\ pc'[h] # "mark_running" => mr' = mr - 1
             /\ pc[h] # "job_succeeded" /\ pc'[h] = "job_succeeded" => js' = js + 1
             /\ pc[h] = "job_succeeded" /\ pc'[h] # "job_succeeded" => js' = js - 1
             /\ pc[h] # "job_failed" /\ pc'[h] = "job_failed" => jf' = jf + 1
             /\ pc[h] = "job_failed" /\ pc'[h] # "job_failed" => jf' = jf - 1
  <2>0. /\ IsFiniteSet(InStage(Owning))
        /\ {"mark_running"} \in SUBSET Owning /\ Owning \in SUBSET Owning
        /\ {"job_succeeded"} \in SUBSET Owning /\ {"job_failed"} \in SUBSET Owning
    BY DEF CountInv, Owning, Attempting
  <2>1. /\ mr \in Nat /\ mr' \in Nat
        /\ pc[h] # "mark_running" /\ pc'[h] # "mark_running" => mr' = mr
        /\ pc[h] # "mark_running" /\ pc'[h] = "mark_running" => mr' = mr + 1
        /\ pc[h] = "mark_running" /\ pc'[h] # "mark_running" => mr' = mr - 1
    BY <1>4, <2>0, StageMoves
  <2>2. /\ js \in Nat /\ js' \in Nat
        /\ pc[h] # "job_succeeded" /\ pc'[h] # "job_succeeded" => js' = js
        /\ pc[h] # "job_succeeded" /\ pc'[h] = "job_succeeded" => js' = js + 1
        /\ pc[h] = "job_succeeded" /\ pc'[h] # "job_succeeded" => js' = js - 1
    BY <1>4, <2>0, StageMoves
  <2>3. /\ jf \in Nat /\ jf' \in Nat
        /\ pc[h] # "job_failed" /\ pc'[h] # "job_failed" => jf' = jf
        /\ pc[h] # "job_failed" /\ pc'[h] = "job_failed" => jf' = jf + 1
        /\ pc[h] = "job_failed" /\ pc'[h] # "job_failed" => jf' = jf - 1
    BY <1>4, <2>0, StageMoves
  <2>4. /\ IsFiniteSet(InStage(Owning))' /\ ow \in Nat /\ ow' \in Nat
        /\ (pc[h] \in Owning <=> pc'[h] \in Owning) => ow' = ow
        /\ pc[h] \notin Owning /\ pc'[h] \in Owning => ow' = ow + 1
        /\ pc[h] \in Owning /\ pc'[h] \notin Owning => ow' = ow - 1
    BY <1>4, <2>0, StageMoves DEF Owning, Attempting
  <2> QED
    BY <2>1, <2>2, <2>3, <2>4
<1>5. ASSUME NEW h \in Handlers, Arrive(h) PROVE Reconciled'
  <2>1. \A g \in Handlers : g # h => pc'[g] = pc[g]
    BY <1>5, ArriveFrame DEF SameLocals
  <2>2. /\ pc[h] = "idle" /\ metrics' = metrics
    BY <1>5 DEF Arrive, ScheduleRequest, RunRequest, CancelRequest, RetryRequest,
        DispatchRequest, Accept, At
  <2>3. executions' = executions /\ pc'[h] \notin Owning
    BY <1>5, <2>2, ArriveOwnership DEF KeepsOrFree, Attempting
  <2>4. mr' = mr /\ ow' = ow /\ js' = js /\ jf' = jf /\ IsFiniteSet(InStage(Owning))'
    BY <1>4, <2>1, <2>2, <2>3 DEF Owning, Attempting
  <2>5. su' = su /\ fa' = fa /\ le' = le
    BY <2>3, OutcomesFrame
  <2>6. r' = r /\ d' = d /\ s' = s /\ f' = f /\ t' = t
    BY <2>2
  <2> HIDE DEF mr, ow, js, jf, su, fa, le, r, d, s, f, t
  <2> QED
    BY <1>0, <2>4, <2>5, <2>6
<1>6. ASSUME NEW h \in Handlers, Advance(h) PROVE Reconciled'
  <2>1. \A g \in Handlers : g # h => pc'[g] = pc[g]
    BY <1>6, AdvanceFrame DEF SameLocals
  <2>2. ASSUME executions' = executions PROVE su' = su /\ fa' = fa /\ le' = le
    BY <2>2, OutcomesFrame
  <2>3. ASSUME CreateExecution(h) PROVE su' = su /\ fa' = fa /\ le' = le + 1
    BY <2>3, OutcomesOnCreate
  <2>4. ASSUME UpdateExecution(h)
        PROVE  /\ le' = le
               /\ pc[h] = "succeeded" => su' = su + 1 /\ fa' = fa
               /\ pc[h] = "failed" => su' = su /\ fa' = fa + 1
    <3>1. /\ le' = le
          /\ pc[h] # "succeeded" => su' = su
          /\ pc[h] # "failed" => fa' = fa
      BY <2>4, OutcomesOnUpdate
    <3>2. ASSUME pc[h] = "succeeded" PROVE su' = su + 1
      BY <2>4, <3>2, OutcomesOnUpdate, OutcomesFinite, FS_AddElement
    <3>3. ASSUME pc[h] = "failed" PROVE fa' = fa + 1
      BY <2>4, <3>3, OutcomesOnUpdate, OutcomesFinite, FS_AddElement
    <3> QED
      BY <3>1, <3>2, <3>3
  <2>5. /\ "mark_running" \in Owning /\ "execute" \in Owning /\ "succeeded" \in Owning
        /\ "failed" \in Owning /\ "job_succeeded" \in Owning /\ "job_failed" \in Owning
        /\ "create_execution" \notin Owning
    BY DEF Owning, Attempting
  <2>0. /\ mr \in Nat /\ ow \in Nat /\ js \in Nat /\ jf \in Nat
        /\ mr' \in Nat /\ ow' \in Nat /\ js' \in Nat /\ jf' \in Nat
    BY <1>4, <2>1
  <2> HIDE DEF mr, ow, js, jf, su, fa, le
  <2>6. CASE /\ executions' = executions
             /\ pc[h] \notin Owning /\ pc'[h] \notin Owning
             /\ Counted(0, 0, 0, 0, 0) \/ Counted(0, 0, 0, 0, 1)
    <3>1. /\ IsFiniteSet(InStage(Owning))'
          /\ mr' = mr /\ js' = js /\ jf' = jf /\ ow' = ow
          /\ su' = su /\ fa' = fa /\ le' = le
      BY <1>4, <2>1, <2>2, <2>5, <2>6
    <3>2. /\ r' = r /\ d' = d /\ s' = s /\ f' = f
          /\ t' \in {t, t + 1}
      BY <1>0, <2>6 DEF Counted
    <3> HIDE DEF r, d, s, f, t
    <3>3. /\ r' \in Nat /\ d' \in Nat /\ s' \in Nat /\ f' \in Nat /\ t' \in Nat
          /\ su' \in Nat /\ fa' \in Nat /\ le' \in Nat
      BY <1>0, <3>1, <3>2
    <3>4. r' + mr' = le'
      BY <1>0, <2>0, <3>1, <3>2, <3>3, SumKept
    <3>5. d' + ow' = le'
      BY <1>0, <2>0, <3>1, <3>2, <3>3, SumKept
    <3>6. s' + js' = su'
      BY <1>0, <2>0, <3>1, <3>2, <3>3, SumKept
    <3>7. f' + jf' <= fa' /\ fa' <= f' + t' + jf'
      BY <1>0, <2>0, <3>1, <3>2, <3>3, BoundsKept
    <3> QED
      BY <3>1, <3>4, <3>5, <3>6, <3>7
  <2>7. CASE /\ executions' = executions /\ Counted(0, 0, 0, 0, 0)
             /\ pc[h] = "execute" /\ pc'[h] \in {"succeeded", "failed"}
    <3>1. /\ IsFiniteSet(InStage(Owning))'
          /\ mr' = mr /\ js' = js /\ jf' = jf /\ ow' = ow
          /\ su' = su /\ fa' = fa /\ le' = le
      BY <1>4, <2>1, <2>2, <2>5, <2>7
    <3>2. /\ r' = r /\ d' = d /\ s' = s /\ f' = f
          /\ t' = t
      BY <1>0, <2>7 DEF Counted
    <3> HIDE DEF r, d, s, f, t
    <3>3. /\ r' \in Nat /\ d' \in Nat /\ s' \in Nat /\ f' \in Nat /\ t' \in Nat
          /\ su' \in Nat /\ fa' \in Nat /\ le' \in Nat
      BY <1>0, <3>1, <3>2
    <3>4. r' + mr' = le'
      BY <1>0, <2>0, <3>1, <3>2, <3>3, SumKept
    <3>5. d' + ow' = le'
      BY <1>0, <2>0, <3>1, <3>2, <3>3, SumKept
    <3>6. s' + js' = su'
      BY <1>0, <2>0, <3>1, <3>2, <3>3, SumKept
    <3>7. f' + jf' <= fa' /\ fa' <= f' + t' + jf'
      BY <1>0, <2>0, <3>1, <3>2, <3>3, BoundsKept
    <3> QED
      BY <3>1, <3>4, <3>5, <3>6, <3>7
  <2>8. CASE /\ CreateExecution(h) /\ Counted(0, 0, 0, 0, 0)
             /\ pc[h] = "create_execution" /\ pc'[h] = "mark_running"
    <3>1. /\ IsFiniteSet(InStage(Owning))'
          /\ mr' = mr + 1 /\ js' = js /\ jf' = jf /\ ow' = ow + 1
          /\ su' = su /\ fa' = fa /\ le' = le + 1
      BY <1>4, <2>1, <2>3, <2>5, <2>8
    <3>2. /\ r' = r /\ d' = d /\ s' = s /\ f' = f
          /\ t' = t
      BY <1>0, <2>8 DEF Counted
    <3> HIDE DEF r, d, s, f, t
    <3>3. /\ r' \in Nat /\ d' \in Nat /\ s' \in Nat /\ f' \in Nat /\ t' \in Nat
          /\ su' \in Nat /\ fa' \in Nat /\ le' \in Nat
      BY <1>0, <3>1, <3>2
    <3>4. r' + mr' = le'
      BY <1>0, <2>0, <3>1, <3>2, <3>3, SumKept
    <3>5. d' + ow' = le'
      BY <1>0, <2>0, <3>1, <3>2, <3>3, SumKept
    <3>6. s' + js' = su'
      BY <1>0, <2>0, <3>1, <3>2, <3>3, SumKept
    <3>7. f' + jf' <= fa' /\ fa' <= f' + t' + jf'
      BY <1>0, <2>0, <3>1, <3>2, <3>3, BoundsKept
    <3> QED
      BY <3>1, <3>4, <3>5, <3>6, <3>7
  <2>9. CASE /\ executions' = executions /\ Counted(1, 0, 0, 0, 0)
             /\ pc[h] = "mark_running" /\ pc'[h] = "execute"
    <3>1. /\ IsFiniteSet(InStage(Owning))'
          /\ mr' = mr - 1 /\ js' = js /\ jf' = jf /\ ow' = ow
          /\ su' = su /\ fa' = fa /\ le' = le
      BY <1>4, <2>0, <2>1, <2>2, <2>5, <2>9
    <3>2. /\ r' = r + 1 /\ d' = d /\ s' = s /\ f' = f
          /\ t' = t
      BY <1>0, <2>9 DEF Counted
    <3> HIDE DEF r, d, s, f, t
    <3>3. /\ r' \in Nat /\ d' \in Nat /\ s' \in Nat /\ f' \in Nat /\ t' \in Nat
          /\ su' \in Nat /\ fa' \in Nat /\ le' \in Nat
      BY <1>0, <3>1, <3>2
    <3>4. r' + mr' = le'
      BY <1>0, <2>0, <3>1, <3>2, <3>3, SumKept
    <3>5. d' + ow' = le'
      BY <1>0, <2>0, <3>1, <3>2, <3>3, SumKept
    <3>6. s' + js' = su'
      BY <1>0, <2>0, <3>1, <3>2, <3>3, SumKept
    <3>7. f' + jf' <= fa' /\ fa' <= f' + t' + jf'
      BY <1>0, <2>0, <3>1, <3>2, <3>3, BoundsKept
    <3> QED
      BY <3>1, <3>4, <3>5, <3>6, <3>7
  <2>10. CASE /\ UpdateExecution(h) /\ Counted(0, 0, 0, 0, 0)
              /\ pc[h] = "succeeded" /\ pc'[h] = "job_succeeded"
    <3>1. /\ IsFiniteSet(InStage(Owning))'
          /\ mr' = mr /\ js' = js + 1 /\ jf' = jf /\ ow' = ow
          /\ su' = su + 1 /\ fa' = fa /\ le' = le
      BY <1>4, <2>1, <2>4, <2>5, <2>10
    <3>2. /\ r' = r /\ d' = d /\ s' = s /\ f' = f
          /\ t' = t
      BY <1>0, <2>10 DEF Counted
    <3> HIDE DEF r, d, s, f, t
    <3>3. /\ r' \in Nat /\ d' \in Nat /\ s' \in Nat /\ f' \in Nat /\ t' \in Nat
          /\ su' \in Nat /\ fa' \in Nat /\ le' \in Nat
      BY <1>0, <3>1, <3>2
    <3>4. r' + mr' = le'
      BY <1>0, <2>0, <3>1, <3>2, <3>3, SumKept
    <3>5. d' + ow' = le'
      BY <1>0, <2>0, <3>1, <3>2, <3>3, SumKept
    <3>6. s' + js' = su'
      BY <1>0, <2>0, <3>1, <3>2, <3>3, SumKept
    <3>7. f' + jf' <= fa' /\ fa' <= f' + t' + jf'
      BY <1>0, <2>0, <3>1, <3>2, <3>3, BoundsKept
    <3> QED
      BY <3>1, <3>4, <3>5, <3>6, <3>7
  <2>11. CASE /\ UpdateExecution(h) /\ Counted(0, 0, 0, 0, 0)
              /\ pc[h] = "failed" /\ pc'[h] = "job_failed"
    <3>1. /\ IsFiniteSet(InStage(Owning))'
          /\ mr' = mr /\ js' = js /\ jf' = jf + 1 /\ ow' = ow
          /\ su' = su /\ fa' = fa + 1 /\ le' = le
      BY <1>4, <2>1, <2>4, <2>5, <2>11
    <3>2. /\ r' = r /\ d' = d /\ s' = s /\ f' = f
          /\ t' = t
      BY <1>0, <2>11 DEF Counted
    <3> HIDE DEF r, d, s, f, t
    <3>3. /\ r' \in Nat /\ d' \in Nat /\ s' \in Nat /\ f' \in Nat /\ t' \in Nat
          /\ su' \in Nat /\ fa' \in Nat /\ le' \in Nat
      BY <1>0, <3>1, <3>2
    <3>4. r' + mr' = le'
      BY <1>0, <2>0, <3>1, <3>2, <3>3, SumKept
    <3>5. d' + ow' = le'
      BY <1>0, <2>0, <3>1, <3>2, <3>3, SumKept
    <3>6. s' + js' = su'
      BY <1>0, <2>0, <3>1, <3>2, <3>3, SumKept
    <3>7. f' + jf' <= fa' /\ fa' <= f' + t' + jf'
      BY <1>0, <2>0, <3>1, <3>2, <3>3, BoundsKept
    <3> QED
      BY <3>1, <3>4, <3>5, <3>6, <3>7
  <2>12. CASE /\ executions' = executions /\ Counted(0, 1, 1, 0, 0)
              /\ pc[h] = "job_succeeded" /\ pc'[h] \notin Owning
    <3>1. /\ IsFiniteSet(InStage(Owning))'
          /\ mr' = mr /\ js' = js - 1 /\ jf' = jf /\ ow' = ow - 1
          /\ su' = su /\ fa' = fa /\ le' = le
      BY <1>4, <2>0, <2>1, <2>2, <2>5, <2>12
    <3>2. /\ r' = r /\ d' = d + 1 /\ s' = s + 1 /\ f' = f
          /\ t' = t
      BY <1>0, <2>12 DEF Counted
    <3> HIDE DEF r, d, s, f, t
    <3>3. /\ r' \in Nat /\ d' \in Nat /\ s' \in Nat /\ f' \in Nat /\ t' \in Nat
          /\ su' \in Nat /\ fa' \in Nat /\ le' \in Nat
      BY <1>0, <3>1, <3>2
    <3>4. r' + mr' = le'
      BY <1>0, <2>0, <3>1, <3>2, <3>3, SumKept
    <3>5. d' + ow' = le'
      BY <1>0, <2>0, <3>1, <3>2, <3>3, SumKept
    <3>6. s' + js' = su'
      BY <1>0, <2>0, <3>1, <3>2, <3>3, SumKept
    <3>7. f' + jf' <= fa' /\ fa' <= f' + t' + jf'
      BY <1>0, <2>0, <3>1, <3>2, <3>3, BoundsKept
    <3> QED
      BY <3>1, <3>4, <3>5, <3>6, <3>7
  <2>13. CASE /\ executions' = executions
              /\ Counted(0, 1, 0, 1, 0) \/ Counted(0, 1, 0, 0, 1)
              /\ pc[h] = "job_failed" /\ pc'[h] \notin Owning
    <3>1. /\ IsFiniteSet(InStage(Owning))'
          /\ mr' = mr /\ js' = js /\ jf' = jf - 1 /\ ow' = ow - 1
          /\ su' = su /\ fa' = fa /\ le' = le
      BY <1>4, <2>0, <2>1, <2>2, <2>5, <2>13
    <3>2. /\ r' = r /\ d' = d + 1 /\ s' = s
          /\ \/ f' = f + 1 /\ t' = t
             \/ f' = f /\ t' = t + 1
      BY <1>0, <2>13 DEF Counted
    <3> HIDE DEF r, d, s, f, t
    <3>3. /\ r' \in Nat /\ d' \in Nat /\ s' \in Nat /\ f' \in Nat /\ t' \in Nat
          /\ su' \in Nat /\ fa' \in Nat /\ le' \in Nat
      BY <1>0, <3>1, <3>2
    <3>4. r' + mr' = le'
      BY <1>0, <2>0, <3>1, <3>2, <3>3, SumKept
    <3>5. d' + ow' = le'
      BY <1>0, <2>0, <3>1, <3>2, <3>3, SumKept
    <3>6. s' + js' = su'
      BY <1>0, <2>0, <3>1, <3>2, <3>3, SumKept
    <3>7. f' + jf' <= fa' /\ fa' <= f' + t' + jf'
      <4>1. CASE f' = f + 1 /\ t' = t
        BY <1>0, <2>0, <3>1, <3>3, <4>1, BoundsKept
      <4>2. CASE f' = f /\ t' = t + 1
        BY <1>0, <2>0, <3>1, <3>3, <4>2, BoundsKept
      <4> QED
        BY <3>2, <4>1, <4>2
    <3> QED
      BY <3>1, <3>4, <3>5, <3>6, <3>7
  <2> QED
    BY <1>6, <2>6, <2>7, <2>8, <2>9, <2>10, <2>11, <2>12, <2>13, AdvanceCounts
<1>7. ASSUME NEW j \in Jobs, CreateJob(j) PROVE Reconciled'
  <2>1. Counted(0, 0, 0, 0, 0)
    BY <1>0, <1>7 DEF CreateJob, Count, Counted, Metrics
  <2> QED
    BY <1>3, <1>7, <2>1 DEF CreateJob, locals
<1>8. ASSUME pc' = pc, executions' = executions, metrics' = metrics PROVE Reconciled'
  <2>1. Counted(0, 0, 0, 0, 0)
    BY <1>0, <1>8 DEF Counted
  <2> QED
    BY <1>3, <1>8, <2>1
<1> HIDE DEF Reconciled
<1>9. Reconciled'
  BY <1>5, <1>6, <1>7, <1>8 DEF Next, RegisterNode, FatalMapWrite, Rest, vars, store, locals
<1> QED
  BY <1>2, <1>9

\* At rest the counters of /metrics agree with the store, whatever the
\* interleaving of the requests that got there.
THEOREM MetricsAgree == Spec => []MetricsReconcile
<1>1. Init => KnownInv /\ CountInv
  <2> SUFFICES ASSUME Init PROVE KnownInv /\ CountInv
    OBVIOUS
  <2>1. KnownInv
    BY NoSnapshotIsNone DEF Init, KnownInv, KnownOK
  <2>2. /\ Known = {} /\ Len(executions) = 0
        /\ InStage({"mark_running"}) = {} /\ InStage(Owning) = {}
        /\ InStage({"job_succeeded"}) = {} /\ InStage({"job_failed"}) = {}
        /\ ExecutionsIn("succeeded") = {} /\ ExecutionsIn("failed") = {}
        /\ \A m \in Metrics : metrics[m] = 0
    BY DEF Init, Known, Missing, InStage, Owning, Attempting, ExecutionsIn
  <2>3. IsFiniteSet({}) /\ Cardinality({}) = 0
    BY FS_EmptySet
  <2>4. /\ Cardinality(Known) = 0 /\ Cardinality(InStage(Owning)) = 0
        /\ Cardinality(InStage({"mark_running"})) = 0
        /\ Cardinality(InStage({"job_succeeded"})) = 0
        /\ Cardinality(InStage({"job_failed"})) = 0
        /\ Cardinality(ExecutionsIn("succeeded")) = 0
        /\ Cardinality(ExecutionsIn("failed")) = 0
    BY <2>2, <2>3
  <2>5. /\ metrics["submitted"] = 0 /\ metrics["running"] = 0
        /\ metrics["executionCount"] = 0 /\ metrics["succeeded"] = 0
        /\ metrics["failed"] = 0 /\ metrics["retried"] = 0
    BY <2>2 DEF Metrics
  <2>6. IsFiniteSet(Known) /\ IsFiniteSet(InStage(Owning))
    BY <2>2, <2>3
  <2> QED
    BY <2>1, <2>2, <2>4, <2>5, <2>6 DEF CountInv
<1>2. Spec => [](Typed /\ ExecInv /\ OpenOwned)
  BY TypedInit, TypedNext, ExecInit, ExecNext, OpenNext, PTL DEF Spec
<1>3. Typed /\ OpenOwned /\ CountInv => MetricsReconcile
  <2> SUFFICES ASSUME Typed, OpenOwned, CountInv, Quiescent PROVE MetricsReconcile
    BY DEF MetricsReconcile
  <2>1. /\ InStage({"mark_running"}) = {} /\ InStage(Owning) = {}
        /\ InStage({"job_succeeded"}) = {} /\ InStage({"job_failed"}) = {}
    BY DEF Quiescent, InStage, Owning, Attempting
  <2>2. /\ Cardinality(InStage({"mark_running"})) = 0
        /\ Cardinality(InStage(Owning)) = 0
        /\ Cardinality(InStage({"job_succeeded"})) = 0
        /\ Cardinality(InStage({"job_failed"})) = 0
    BY <2>1, FS_EmptySet
  <2>3. ExecutionsIn("running") = {}
    <3>1. DOMAIN executions = 1..Len(executions)
      BY DEF Typed, TypeOK
    <3> QED
      BY <3>1 DEF ExecutionsIn, OpenOwned, Quiescent, Attempting
  <2>4. /\ metrics["running"] \in Nat /\ metrics["executionCount"] \in Nat
        /\ metrics["succeeded"] \in Nat /\ metrics["failed"] \in Nat
        /\ metrics["retried"] \in Nat /\ Cardinality(ExecutionsIn("failed")) \in Nat
    BY OutcomesFinite DEF Typed, TypeOK, Metrics
  <2>5. Known = {j \in Jobs : jobs[j].status # "none"}
    BY DEF Known
  <2> QED
    BY <2>2, <2>3, <2>4, <2>5 DEF MetricsReconcile, CountInv
<1> QED
  BY <1>1, <1>2, <1>3, KnownNext, CountNext, PTL DEF Spec
=============================================================================
