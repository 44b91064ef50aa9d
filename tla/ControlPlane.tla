---------------------------- MODULE ControlPlane ----------------------------
(***************************************************************************)
(* The api-server: HTTP handler goroutines that run the operations of      *)
(* JobService, Dispatcher and ExecutionService over one MemoryStore.       *)
(*                                                                         *)
(* The store takes its mutex once per call and UpdateJob overwrites the    *)
(* whole record, so the unit of interleaving is one store call together    *)
(* with the local computation that follows it.  A handler works on copies  *)
(* of job records (`snap`) that may be stale when they are written back.   *)
(* The Metadata map is the exception: every copy of a job shares it with   *)
(* the store, hence `assigned` is shared state and writing it races.       *)
(*                                                                         *)
(* A request that is refused by its first check changes nothing and is     *)
(* not a step.  Metric increments belong to the step of the store call     *)
(* they follow.                                                            *)
(***************************************************************************)
EXTENDS JobModel, NodeMatch

NoJob == 0

CONSTANTS
    Jobs,        \* job ids: numbers in the order of CreatedAt
    Handlers,    \* concurrent request handlers
    MaxRetries,  \* [Jobs -> Nat], CreateJobInput.MaxRetries
    Priority,    \* [Jobs -> Int], CreateJobInput.Priority
    GPU,         \* [Jobs -> Nat], ResourceSpec.GPU
    GPUMemory,   \* [Jobs -> GPUMemoryRequest], ResourceSpec.GPUMemory
    Registered,  \* the jobs whose executor the worker registry knows
    Limits,      \* the limits that dispatch requests carry
    MaxRequests, \* bound: the requests served, apart from job creation
    NoNode       \* the value of a missing "assigned_node"

ASSUME JobsAssumption ==
    /\ Jobs \subseteq Nat \ {NoJob}
    /\ MaxRetries \in [Jobs -> Nat]
    /\ Priority \in [Jobs -> Int]
    /\ GPU \in [Jobs -> Nat]
    /\ GPUMemory \in [Jobs -> GPUMemoryRequest]
    /\ Registered \subseteq Jobs

ASSUME BoundsAssumption ==
    /\ Limits \subseteq Nat \ {0}
    /\ MaxRequests \in Nat
    /\ NoNode \notin Nodes

VARIABLES
    \* MemoryStore
    jobs,        \* [Jobs -> Job]
    executions,  \* sequence of executions, in the order of their creation
    nodes,       \* the registered nodes
    avail,       \* [Nodes -> Nat], Resource.AvailGPU
    assigned,    \* [Jobs -> Nodes or NoNode], Metadata["assigned_node"]
    \* the process
    metrics,     \* telemetry.Metrics
    up,          \* FALSE once the runtime has aborted the process
    requests,    \* requests served, for the bound
    \* the locals of each handler
    pc,          \* where it is: the store call it makes next
    op,          \* the operation it serves
    snap,        \* its copy of a job: [id, retry]
    target,      \* the node MatchNode chose
    exec,        \* the execution it owns, an index of executions
    queue,       \* SchedulePending: the copies not popped yet
    batch,       \* SchedulePending, DispatchPending: the ids left to run
    limit        \* SchedulePending: the limit of the request

store == <<jobs, executions, nodes, avail, assigned>>
dispatchLocals == <<queue, batch, limit>>
locals == <<pc, op, snap, target, exec, dispatchLocals>>
vars == <<store, metrics, up, requests, locals>>

Snapshot == [id : Jobs, retry : Nat]
NoSnapshot == [id |-> NoJob, retry |-> 0]

\* The copy of a job record that a GetJob or ListJobs returns.
Copy(j) == [id |-> j, retry |-> jobs[j].retry]

\* The operation "dispatch" is SchedulePending, "batch" the loop of RunJob
\* calls after it; "run" is a RunJob request of its own.
Ops == {"schedule", "run", "dispatch", "batch", "cancel", "retry"}

Metrics == {"submitted", "scheduled", "running", "succeeded", "failed",
            "retried", "cancelled", "executionCount"}

Init ==
    /\ jobs = [j \in Jobs |-> Missing]
    /\ executions = << >>
    /\ nodes = {}
    /\ avail = [n \in Nodes |-> 0]
    /\ assigned = [j \in Jobs |-> NoNode]
    /\ metrics = [m \in Metrics |-> 0]
    /\ up = TRUE
    /\ requests = 0
    /\ pc = [h \in Handlers |-> "idle"]
    /\ op = [h \in Handlers |-> "none"]
    /\ snap = [h \in Handlers |-> NoSnapshot]
    /\ target = [h \in Handlers |-> NoNode]
    /\ exec = [h \in Handlers |-> 0]
    /\ queue = [h \in Handlers |-> {}]
    /\ batch = [h \in Handlers |-> << >>]
    /\ limit = [h \in Handlers |-> 0]
-----------------------------------------------------------------------------
(* Building blocks of the actions.                                         *)

At(h, label) == up /\ pc[h] = label

Goto(h, label) == pc' = [pc EXCEPT ![h] = label]

\* The handler answers its request, and its locals are gone.
Return(h) ==
    /\ Goto(h, "idle")
    /\ op' = [op EXCEPT ![h] = "none"]
    /\ snap' = [snap EXCEPT ![h] = NoSnapshot]
    /\ target' = [target EXCEPT ![h] = NoNode]
    /\ exec' = [exec EXCEPT ![h] = 0]
    /\ queue' = [queue EXCEPT ![h] = {}]
    /\ batch' = [batch EXCEPT ![h] = << >>]
    /\ limit' = [limit EXCEPT ![h] = 0]

\* A request reaches an idle handler.
Accept(h, operation) ==
    /\ At(h, "idle")
    /\ requests < MaxRequests
    /\ requests' = requests + 1
    /\ op' = [op EXCEPT ![h] = operation]

Hold(h, s) == snap' = [snap EXCEPT ![h] = s]

\* UpdateJob: the whole record is replaced, retry counter included.
UpdateJob(h, record) == jobs' = [jobs EXCEPT ![snap[h].id] = record]

WithStatus(h, status) == [status |-> status, retry |-> snap[h].retry]

Count(Which) ==
    metrics' = [m \in Metrics |-> metrics[m] + (IF m \in Which THEN 1 ELSE 0)]

\* placeJob: a job without GPUs is marked at once, the others need a node.
PlaceLabel(j) == IF GPU[j] > 0 THEN "list_nodes" ELSE "mark_scheduled"

\* placeJob returns an error: SchedulePending goes on with the next copy,
\* ScheduleJob and RunJob give up.
PlaceFailed(h) ==
    \/ /\ op[h] = "dispatch"
       /\ Goto(h, "pop")
       /\ Hold(h, NoSnapshot)
       /\ target' = [target EXCEPT ![h] = NoNode]
       /\ UNCHANGED <<op, exec, dispatchLocals>>
    \/ /\ op[h] # "dispatch"
       /\ Return(h)

\* placeJob returns a scheduled job to its caller.
Placed(h) ==
    \/ /\ op[h] = "schedule"
       /\ Return(h)
    \/ /\ op[h] \in {"run", "batch"}
       /\ Goto(h, "create_execution")
       /\ target' = [target EXCEPT ![h] = NoNode]
       /\ UNCHANGED <<op, snap, exec, dispatchLocals>>
    \/ /\ op[h] = "dispatch"
       /\ Goto(h, "pop")
       /\ batch' = [batch EXCEPT ![h] = Append(@, snap[h].id)]
       /\ Hold(h, NoSnapshot)
       /\ target' = [target EXCEPT ![h] = NoNode]
       /\ UNCHANGED <<op, exec, queue, limit>>

Load_Resume(h, j) ==
    /\ Hold(h, Copy(j))
    /\ Goto(h, IF jobs[j].status \in {"scheduled", "running"}
               THEN "create_execution" ELSE "schedule_job")

\* The first GetJob of RunJob.
Load(h, j) ==
    /\ Hold(h, Copy(j))
    /\ Goto(h, IF jobs[j].status = "scheduled" THEN "create_execution"
                                               ELSE "schedule_job")
-----------------------------------------------------------------------------
(* Submission of a job, registration of a node.                            *)

CreateJob(j) ==
    /\ up
    /\ jobs[j].status = "none"
    /\ jobs' = [jobs EXCEPT ![j] = NewJob]
    /\ Count({"submitted"})
    /\ UNCHANGED <<executions, nodes, avail, assigned, up, requests, locals>>

\* The store's RegisterNode.  Each node is registered once, with all of its
\* GPUs available: a second registration would replace the record.
RegisterNode(n) ==
    /\ up
    /\ n \notin nodes
    /\ nodes' = nodes \cup {n}
    /\ avail' = [avail EXCEPT ![n] = TotalGPU(n)]
    /\ UNCHANGED <<jobs, executions, assigned, metrics, up, requests, locals>>
-----------------------------------------------------------------------------
(* Scheduling: Dispatcher.ScheduleJob, placeJob and SchedulePending.       *)

\* POST /jobs/{id}/schedule: ScheduleJob's GetJob and placeJob's check.
ScheduleRequest(h, j) ==
    /\ Accept(h, "schedule")
    /\ CanSchedule(jobs[j])
    /\ Hold(h, Copy(j))
    /\ Goto(h, PlaceLabel(j))
    /\ UNCHANGED <<store, metrics, up, target, exec, dispatchLocals>>

\* RunJob calls ScheduleJob, which reads the job a second time.
ScheduleJob(h) ==
    /\ At(h, "schedule_job")
    /\ LET j == snap[h].id
       IN  \/ /\ CanSchedule(jobs[j])
              /\ Hold(h, Copy(j))
              /\ Goto(h, PlaceLabel(j))
              /\ UNCHANGED <<op, target, exec, dispatchLocals>>
           \/ /\ ~CanSchedule(jobs[j])
              /\ PlaceFailed(h)
    /\ UNCHANGED <<store, metrics, up, requests>>

\* placeGPUJob: ListOnlineNodes and MatchNode.
SelectNode(h) ==
    /\ At(h, "list_nodes")
    /\ LET j == snap[h].id
           fits == MatchNode(nodes, avail, GPU[j],
                             parseGPUMemoryMiB(GPUMemory[j]))
       IN  \/ \E n \in fits :
                /\ target' = [target EXCEPT ![h] = n]
                /\ Goto(h, "allocate_gpu")
                /\ UNCHANGED <<op, snap, exec, dispatchLocals>>
           \/ /\ fits = {}
              /\ PlaceFailed(h)
    /\ UNCHANGED <<store, metrics, up, requests>>

\* The store's side of AllocateGPU: the check under its mutex, the deduction.
Sufficient_Trusting(n, count) == TRUE
Sufficient(n, count) == avail[n] >= count

Remaining_OneGPU(n, count) == avail[n] - 1
Remaining(n, count) == avail[n] - count

\* The GPUs may be gone since the node was selected: AllocateGPU looks again.
AllocateGPU(h) ==
    /\ At(h, "allocate_gpu")
    /\ LET n == target[h]
           count == GPU[snap[h].id]
       IN  \/ /\ Sufficient(n, count)
              /\ avail' = [avail EXCEPT ![n] = Remaining(n, count)]
              /\ Goto(h, "mark_scheduled")
              /\ UNCHANGED <<op, snap, target, exec, dispatchLocals>>
           \/ /\ ~Sufficient(n, count)
              /\ PlaceFailed(h)
              /\ UNCHANGED avail
    /\ UNCHANGED <<jobs, executions, nodes, assigned, metrics, up, requests>>

\* markScheduled does not look at the status the store holds by now.
MarkScheduled(h) ==
    /\ At(h, "mark_scheduled")
    /\ assigned' = IF target[h] = NoNode
                   THEN assigned
                   ELSE [assigned EXCEPT ![snap[h].id] = target[h]]
    /\ UpdateJob(h, WithStatus(h, "scheduled"))
    /\ Count({"scheduled"})
    /\ Placed(h)
    /\ UNCHANGED <<executions, nodes, avail, up, requests>>

\* The write of Metadata["assigned_node"] is outside of the store's mutex; a
\* handler that marks the same job or encodes it into a response at that
\* moment makes the Go runtime abort the process.
FatalMapWrite(h) ==
    /\ At(h, "mark_scheduled")
    /\ target[h] # NoNode
    /\ up' = FALSE
    /\ UNCHANGED <<store, metrics, requests, locals>>

\* POST /dispatch/once: ListJobs, filterSchedulable, NewPriorityQueue.
DispatchRequest(h, l) ==
    /\ Accept(h, "dispatch")
    /\ LET found == {j \in Jobs : CanSchedule(jobs[j])}
       IN  /\ found # {}
           /\ queue' = [queue EXCEPT ![h] = {Copy(j) : j \in found}]
    /\ limit' = [limit EXCEPT ![h] = l]
    /\ Goto(h, "pop")
    /\ UNCHANGED <<store, metrics, up, snap, target, exec, batch>>

\* PriorityQueue.Less: higher priority first, then the older job.
Less(s, t) ==
    \/ Priority[s.id] > Priority[t.id]
    \/ Priority[s.id] = Priority[t.id] /\ s.id < t.id

\* What heap.Pop leaves in the queue.
Without_NotPopped(q, s) == q
Without(q, s) == q \ {s}

\* heap.Pop, and placeJob on the copy that ListJobs returned.
Pop(h) ==
    /\ At(h, "pop")
    /\ Len(batch[h]) < limit[h]
    /\ \E s \in queue[h] :
         /\ \A t \in queue[h] : ~Less(t, s)
         /\ queue' = [queue EXCEPT ![h] = Without(@, s)]
         /\ Hold(h, s)
         /\ Goto(h, PlaceLabel(s.id))
    /\ UNCHANGED <<store, metrics, up, requests, op, target, exec, batch,
                   limit>>

\* The loop of SchedulePending ends and that of DispatchPending begins.
BeginBatch(h) ==
    /\ At(h, "pop")
    /\ queue[h] = {} \/ Len(batch[h]) >= limit[h]
    /\ \/ /\ batch[h] = << >>
          /\ Return(h)
       \/ /\ batch[h] # << >>
          /\ op' = [op EXCEPT ![h] = "batch"]
          /\ queue' = [queue EXCEPT ![h] = {}]
          /\ Goto(h, "run_next")
          /\ UNCHANGED <<snap, target, exec, batch, limit>>
    /\ UNCHANGED <<store, metrics, up, requests>>
-----------------------------------------------------------------------------
(* Execution: ExecutionService.RunJob, DispatchPending and finishFailed.   *)

\* POST /jobs/{id}/run: RunJob's GetJob.
RunRequest(h, j) ==
    /\ Accept(h, "run")
    /\ jobs[j].status # "none"
    /\ Load(h, j)
    /\ UNCHANGED <<store, metrics, up, target, exec, dispatchLocals>>

\* DispatchPending calls RunJob with the id of the next scheduled job.
RunNext(h) ==
    /\ At(h, "run_next")
    /\ Load(h, Head(batch[h]))
    /\ batch' = [batch EXCEPT ![h] = Tail(@)]
    /\ UNCHANGED <<store, metrics, up, requests, op, target, exec, queue,
                   limit>>

NewExecution_NumberedFromTop(s) ==
    [job |-> s.id, attempt |-> MaxRetries[s.id] + 1, status |-> "running"]
NewExecution(s) ==
    [job |-> s.id, attempt |-> s.retry + 1, status |-> "running"]

\* An id that no execution has: the sequence number is incremented atomically.
nextID_Reused == IF executions = << >> THEN 1 ELSE Len(executions)
nextID == Len(executions) + 1

CreateExecution(h) ==
    /\ At(h, "create_execution")
    /\ executions' = Append(executions, NewExecution(snap[h]))
    /\ exec' = [exec EXCEPT ![h] = nextID]
    /\ Goto(h, "mark_running")
    /\ UNCHANGED <<jobs, nodes, avail, assigned, metrics, up, requests,
                   op, snap, target, dispatchLocals>>

MarkRunning(h) ==
    /\ At(h, "mark_running")
    /\ UpdateJob(h, WithStatus(h, "running"))
    /\ Count({"running"})
    /\ Goto(h, "execute")
    /\ UNCHANGED <<executions, nodes, avail, assigned, up, requests,
                   op, snap, target, exec, dispatchLocals>>

\* registry.Get and Execute: an unknown executor is a failure, the others
\* return an error or they do not.
Execute(h) ==
    /\ At(h, "execute")
    /\ \/ snap[h].id \in Registered /\ Goto(h, "succeeded")
       \/ Goto(h, "failed")
    /\ UNCHANGED <<store, metrics, up, requests, op, snap, target, exec,
                   dispatchLocals>>

\* UpdateExecution, on success and in finishFailed.
UpdateExecution(h) ==
    /\ \/ At(h, "succeeded") /\ Goto(h, "job_succeeded")
       \/ At(h, "failed") /\ Goto(h, "job_failed")
    /\ executions' = [executions EXCEPT ![exec[h]].status = pc[h]]
    /\ UNCHANGED <<jobs, nodes, avail, assigned, metrics, up, requests,
                   op, snap, target, exec, dispatchLocals>>

\* RunJob returns without error: DispatchPending goes on to its next job.
FinishSucceeded(h) ==
    /\ At(h, "job_succeeded")
    /\ UpdateJob(h, WithStatus(h, "succeeded"))
    /\ Count({"succeeded", "executionCount"})
    /\ \/ /\ batch[h] = << >>
          /\ Return(h)
       \/ /\ batch[h] # << >>
          /\ Goto(h, "run_next")
          /\ Hold(h, NoSnapshot)
          /\ exec' = [exec EXCEPT ![h] = 0]
          /\ UNCHANGED <<op, target, dispatchLocals>>
    /\ UNCHANGED <<executions, nodes, avail, assigned, up, requests>>

\* finishFailed returns an error: DispatchPending drops the rest of its batch.
FinishFailed(h) ==
    /\ At(h, "job_failed")
    /\ LET s == snap[h]
       IN  /\ UpdateJob(h, AfterFailure(s.retry, MaxRetries[s.id]))
           /\ Count(FailureCounters(s.retry, MaxRetries[s.id]))
    /\ Return(h)
    /\ UNCHANGED <<executions, nodes, avail, assigned, up, requests>>
-----------------------------------------------------------------------------
(* JobService.CancelJob and RetryJob: GetJob with its check, UpdateJob.    *)

CancelRequest(h, j) ==
    /\ Accept(h, "cancel")
    /\ CanCancel(jobs[j])
    /\ Hold(h, Copy(j))
    /\ Goto(h, "cancel_job")
    /\ UNCHANGED <<store, metrics, up, target, exec, dispatchLocals>>

CancelJob(h) ==
    /\ At(h, "cancel_job")
    /\ UpdateJob(h, WithStatus(h, "cancelled"))
    /\ Count({"cancelled"})
    /\ Return(h)
    /\ UNCHANGED <<executions, nodes, avail, assigned, up, requests>>

RetryRequest(h, j) ==
    /\ Accept(h, "retry")
    /\ CanRetry(jobs[j])
    /\ Hold(h, Copy(j))
    /\ Goto(h, "retry_job")
    /\ UNCHANGED <<store, metrics, up, target, exec, dispatchLocals>>

\* The retry counter is not reset.
RetryJob(h) ==
    /\ At(h, "retry_job")
    /\ UpdateJob(h, WithStatus(h, "pending"))
    /\ Count({"retried"})
    /\ Return(h)
    /\ UNCHANGED <<executions, nodes, avail, assigned, up, requests>>
-----------------------------------------------------------------------------
Arrive(h) ==
    \/ \E j \in Jobs : \/ ScheduleRequest(h, j)
                       \/ RunRequest(h, j)
                       \/ CancelRequest(h, j)
                       \/ RetryRequest(h, j)
    \/ \E l \in Limits : DispatchRequest(h, l)

\* The steps of a handler that serves a request.
Advance(h) ==
    \/ ScheduleJob(h)
    \/ SelectNode(h)
    \/ AllocateGPU(h)
    \/ MarkScheduled(h)
    \/ Pop(h)
    \/ BeginBatch(h)
    \/ RunNext(h)
    \/ CreateExecution(h)
    \/ MarkRunning(h)
    \/ Execute(h)
    \/ UpdateExecution(h)
    \/ FinishSucceeded(h)
    \/ FinishFailed(h)
    \/ CancelJob(h)
    \/ RetryJob(h)

Quiescent == \A h \in Handlers : pc[h] = "idle"

\* With no request in progress, or no process, nothing has to happen.
Rest == (Quiescent \/ ~up) /\ UNCHANGED vars

Next ==
    \/ \E j \in Jobs : CreateJob(j)
    \/ \E n \in Nodes : RegisterNode(n)
    \/ \E h \in Handlers : Arrive(h) \/ Advance(h) \/ FatalMapWrite(h)
    \/ Rest

Spec == Init /\ [][Next]_vars

\* Goroutines that can run are run, and executors return.
FairSpec == Spec /\ \A h \in Handlers : WF_vars(Advance(h))
-----------------------------------------------------------------------------
(* Properties.                                                             *)

Labels == {"idle", "schedule_job", "list_nodes", "allocate_gpu",
           "mark_scheduled", "pop", "run_next", "create_execution",
           "mark_running", "execute", "succeeded", "failed",
           "job_succeeded", "job_failed", "cancel_job", "retry_job"}

Execution == [job : Jobs, attempt : Nat \ {0}, status : ExecutionStatus]

\* Type correctness of the store, the metrics and the handlers' locals.
TypeOK ==
    /\ jobs \in [Jobs -> Job]
    /\ executions \in Seq(Execution)
    /\ nodes \subseteq Nodes
    /\ avail \in [Nodes -> Int]
    /\ assigned \in [Jobs -> Nodes \cup {NoNode}]
    /\ metrics \in [Metrics -> Nat]
    /\ up \in BOOLEAN
    /\ requests \in Nat
    /\ pc \in [Handlers -> Labels]
    /\ op \in [Handlers -> Ops \cup {"none"}]
    /\ snap \in [Handlers -> Snapshot \cup {NoSnapshot}]
    /\ target \in [Handlers -> Nodes \cup {NoNode}]
    /\ exec \in [Handlers -> Nat]
    /\ queue \in [Handlers -> SUBSET Snapshot]
    /\ batch \in [Handlers -> Seq(Jobs)]
    /\ limit \in [Handlers -> Nat]

\* Labels between CreateExecution and the UpdateExecution that ends it, and
\* between the UpdateJob that says "running" and the one that says how it went.
Attempting == {"mark_running", "execute", "succeeded", "failed"}
Running == {"execute", "succeeded", "failed", "job_succeeded", "job_failed"}

\* A retry counter never exceeds the job's budget, in the store or in a copy
\* that is yet to be written back, and no attempt is numbered beyond it, even
\* though UpdateJob overwrites counters with stale copies (retry.go, RunJob).
RetryBudget ==
    /\ \A j \in Jobs : jobs[j].retry <= MaxRetries[j]
    /\ \A h \in Handlers : snap[h].id \in Jobs =>
            snap[h].retry <= MaxRetries[snap[h].id]
    /\ \A i \in DOMAIN executions :
            executions[i].attempt <= MaxRetries[executions[i].job] + 1

\* A job that is stored as running is being run: some handler is between the
\* two UpdateJob calls of RunJob for it and will write its outcome.
RunningHasOwner ==
    \A j \in Jobs : jobs[j].status = "running" =>
        \E h \in Handlers : pc[h] \in Running /\ snap[h].id = j

\* An execution is running exactly while one handler owns it: concurrent
\* RunJob calls never finish each other's execution, nor leave one open.
ExecutionsOwned ==
    \A i \in DOMAIN executions :
        /\ executions[i].status = "running" =>
              \E h \in Handlers : pc[h] \in Attempting /\ exec[h] = i
        /\ \A g, h \in Handlers :
              (exec[g] = i /\ exec[h] = i) => g = h

\* Attempt k of job j ended in this status.
Ended(j, k, status) ==
    \E i \in DOMAIN executions : executions[i] = [job |-> j, attempt |-> k,
                                                  status |-> status]

\* Every outcome a job record shows is one that an execution had: the status
\* and the retry counter are written together, so a record is never a mix of
\* two attempts, and a counter of k means that attempts 1 to k did fail.
OutcomeBacked ==
    \A j \in Jobs :
        LET job == jobs[j]
        IN  /\ \A k \in 1..job.retry : Ended(j, k, "failed")
            /\ job.status = "succeeded" => Ended(j, job.retry + 1, "succeeded")
            /\ job.status = "failed" => /\ job.retry = MaxRetries[j]
                                        /\ Ended(j, job.retry + 1, "failed")
            /\ job.status = "retrying" => job.retry > 0

\* The GPUs of a node are never handed out beyond its inventory, although
\* MatchNode decides on a list that is stale when AllocateGPU runs.
NoOversubscription ==
    \A n \in Nodes : avail[n] \in 0..TotalGPU(n)

\* The GPUs that jobs believe they have on a node, by their assigned_node, and
\* those that a handler was granted there and is yet to record.
Held(n) == UNION {{j} \X (1..GPU[j]) : j \in {i \in Jobs : assigned[i] = n}}
Transit(n) ==
    UNION {{h} \X (1..GPU[snap[h].id]) :
           h \in {g \in Handlers : pc[g] = "mark_scheduled" /\ target[g] = n}}

\* The GPUs that jobs believe they have on a node (assigned_node, and the
\* grants that are yet to be recorded there) were all deducted from it, even
\* when one job is placed twice by concurrent requests.
GrantsCovered ==
    \A n \in nodes :
        TotalGPU(n) - avail[n] >= Cardinality(Held(n)) + Cardinality(Transit(n))

\* Node n is registered, online, and has as many GPUs with the requested memory
\* as job j asks for.
Fits(j, n) ==
    /\ n \in nodes
    /\ NodeStatus[n] = "online"
    /\ \E S \in SUBSET (1..TotalGPU(n)) :
          /\ Cardinality(S) = GPU[j]
          /\ \A i \in S : FreeMem[n][i] >= parseGPUMemoryMiB(GPUMemory[j])

\* A job is only ever assigned to an online node that has as many GPUs with
\* the requested memory as the job asks for (resource_matcher.go).
AssignedFits ==
    \A j \in Jobs : assigned[j] # NoNode => Fits(j, assigned[j])

ExecutionsIn(status) ==
    {i \in DOMAIN executions : executions[i].status = status}

\* When no request is in progress the counters of /metrics agree with the
\* store: every execution was counted when it started and when it ended,
\* whatever the interleaving, and none is left open (telemetry/metrics.go).
MetricsReconcile ==
    (Quiescent /\ up) =>
        LET failures == Cardinality(ExecutionsIn("failed"))
        IN  /\ metrics["submitted"] =
                  Cardinality({j \in Jobs : jobs[j].status # "none"})
            /\ metrics["running"] = Len(executions)
            /\ metrics["executionCount"] = Len(executions)
            /\ metrics["succeeded"] = Cardinality(ExecutionsIn("succeeded"))
            /\ metrics["failed"] <= failures
            /\ metrics["failed"] + metrics["retried"] >= failures
            /\ ExecutionsIn("running") = {}

Attempts == INSTANCE AttemptLog WITH log <- executions

\* The execution history of every job is one that AttemptLog allows: append
\* only, each entry closed once, attempt k only after k - 1 failed attempts.
AttemptLogSpec == Attempts!Spec

statusOf == [j \in Jobs |-> jobs[j].status]

Lifecycle == INSTANCE JobLifecycle WITH status <- statusOf

\* Every change of a stored status is a transition of the state machine.
LifecycleSpec == Lifecycle!Spec

\* With one handler at a time, the retry counter of a job never goes back.
RetryMonotone ==
    [][\A j \in Jobs : jobs[j].retry <= jobs'[j].retry]_vars
=============================================================================
