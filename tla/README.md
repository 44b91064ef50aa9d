# Verification of ai-infra-platform

TLA+ models of this repository's job control plane, telemetry pipeline with its
processors and exporters, write-ahead log, inference gateway and benchmark
client, the TLC runs that check them on small instances, and TLAPS proofs, for
every size, of the safety properties that these runs check.  Liveness is checked
by TLC alone.  Paths below are relative to the repository.

## 1. Inventory

| Part | State it keeps | Operations | Hard behaviour |
|---|---|---|---|
| Job/execution model (`internal/model`) | status, retry counter, attempt | predicates `CanSchedule`, `CanCancel`, `CanRetry` | none alone: guards of everything else |
| Memory store (`internal/store/store.go`) | jobs, executions, nodes behind one `RWMutex` | one mutex section per call; `UpdateJob` replaces the record | read-modify-write of callers is not atomic |
| JobService | none | `CreateJob`, `CancelJob`, `RetryJob` | lost updates |
| Dispatcher, priority queue, matcher (`internal/scheduler`) | none (nodes are in the store) | `ScheduleJob`, `SchedulePending`, `placeJob`, `MatchNode` | stale node list, stale copies of jobs, shared `Metadata` map |
| ExecutionService | none | `RunJob`, `DispatchPending`, `finishFailed` | five store calls per run, an executor of any duration in the middle, batch abandoned on the first failure |
| API router, api-server | one goroutine per request | the routes | any interleaving of the above |
| Telemetry | counters, trace log | increments | increments far from the state change they count |
| MySQL store | the same records in a database | the same interface with a context; node operations return `ErrNotImplemented` | a cancelled request context fails every later call; the process dies between two calls and finds the database as it was |
| Executors (`internal/worker`) | none | shell, Kubernetes, HTTP, benchmark | outside of the program: an error or none |
| Inference gateway (`internal/gateway`) | health of backends, token buckets | probe loop, `proxyInference` with failover, rate limiter | stale health view, failover on the last candidate |
| Telemetry gateway (`internal/otelgateway`) | sharded queues, WAL segments, memory level, degrade mode, rate buckets, sampling rate | submit, worker loops, shutdown, append/rotate/replay, retry, fan-out | full queues, shutdown order, crashes between two writes, races of gauges, repeated exports, configuration changed under running workers |
| Benchmark client (`internal/benchmark`) | results of a run | one goroutine per request behind a semaphore, percentiles | clients that give up, off-by-one in percentiles |
| Commands | none | `scheduler`, `worker`: one job in a store of its own; `notifier`: a stub | none |

Interaction: the router calls the services; the services call the dispatcher and
the store; nothing calls back.  The only shared state is the store, the metrics
and (by accident) the `Metadata` map of each job, which all copies of a job
share.

What makes the control plane correct: GPUs are never handed out twice; a job
that is shown as running is being run; an outcome that is shown was produced by
an execution; the retry budget is respected; the documented state machine is
followed; every request is answered.

What makes the others correct: a started pipeline settles every payload that it
accepted, also when it is shut down, and never exports through a closed
exporter; the log can replay every record that it acknowledged, in order; the
gateway enforces a model's limit, tries every live candidate before it fails a
request, and its health view follows the backends; an export that reports
success has reached every backend; the processors account for every span, keep
traces whole and enforce their limits while they are being reconfigured; a
benchmark reports what was answered.  These share nothing with the control
plane: no command of the repository connects the telemetry packages, and the
gateway has a process of its own, which the benchmark client may be pointed at.

A run with `expect: violation` states what a comment or document says and shows
how the code departs from it.  In modules, definitions named `X_Something` are
deliberately wrong variants of `X`, used to see that a property notices.

## 2. Control plane

`JobModel` holds the job predicates and the retry rule, `NodeMatch` the GPU
inventory and `MatchNode`, and `ControlPlane` the api-server: `Handlers` is a
set of goroutines, each with a program counter and locals.

* **Atomicity.** One action per store call plus the local computation after it,
  because `MemoryStore` takes its mutex once per call and everything between two
  calls is local.  `snap[h]` is the handler's copy of a job (id and retry
  counter); `UpdateJob` writes the whole record from it, exactly as the code
  does, so lost updates are in the model.
* **Labels.** `pc[h]` names the next store call: `schedule_job` (second `GetJob`
  of `RunJob`), `list_nodes`, `allocate_gpu`, `mark_scheduled`, `pop` (the loop
  of `SchedulePending`), `run_next` (the loop of `DispatchPending`),
  `create_execution`, `mark_running`, `execute`, `succeeded`/`failed` (the
  `UpdateExecution` to come), `job_succeeded`/`job_failed`, `cancel_job`,
  `retry_job`.
* **Shared map.** `assigned` is `Metadata["assigned_node"]`.  `FatalMapWrite`
  is the abort of the Go runtime when this map is written while another
  goroutine reads or writes it; it sets `up` to FALSE and everything stops.
* **Nondeterminism.** The executor of a registered job returns an error or none;
  `MatchNode` returns any node of the best residual, since the store lists a Go
  map; `FirstFit` any candidate.
* **Left out.** Requests that are refused by their first check (they change
  nothing), the reading routes, the tracer, timestamps and messages.
  `ReleaseJobResources`, `ReleaseGPU` and `UpdateNode` have no caller.  Nodes are
  registered through the store's `RegisterNode`, once each.

`AttemptLog` is the abstract specification of the execution history and
`JobLifecycle` that of the status of a job (the state machine of
`reports/state_machine.md` with the manual retry of `Job.CanRetry`).

`StoreBackend` puts the same handlers on the store that `buildRepository` has
chosen.  On MySQL a store call may fail (the database is away, or the client has
gone and the request's context with it) before or after its statement was
executed; `Crash` and `Restart` lose everything but the database; jobs of equal
priority may tie, since `created_at` is stored in seconds; nodes are not
implemented, so that GPU jobs find none.  A failing `CreateJob` or a failing
first read is a request without effect and is not a step.  The encoding and
decoding of rows keep every field that is modelled.  `ran` records the
executions whose executor was called.

### Runs (modules `MCControlPlane`, `MCStoreBackend`)

| Run | Instance | Shows |
|---|---|---|
| `concurrent` | 2 handlers, 2 jobs (one GPU job without retries, one CPU job with one retry), 1 node, 4 requests, symmetric handlers | what holds under any interleaving: types, retry budget, ownership of running jobs and executions, reconciled counters, refinement of `AttemptLog` |
| `placement` | 2 handlers, 2 GPU jobs, 3 nodes (one drained, one with a small GPU), 2 requests, `FairSpec` | no oversubscription, grants covered by deductions, assignments fit; every request ends |
| `sequential` | `StoreBackend`, 1 handler, 3 jobs of which two tie, 5 requests, 2 store errors or crashes | no job is executed again unless its failure is on record, backed outcomes, refinement of `JobLifecycle` |
| `lifecycle_race` | 2 handlers, 2 requests | **violated**: a cancelled job becomes scheduled |
| `gpu_release` | 1 handler, 4 requests | **violated**: GPUs are not given back |

Two faults let the recovery from a first one meet a second.  Two handlers are
enough for every race of two read-modify-write sequences, and
four requests let one of them overtake two others on the same job, run a retry
and a dispatch of both jobs.  `MaxRequests` is the only bound on behaviours (creating jobs and
registering nodes are not counted); in `placement` it is two, enough for two
placements to race, because the fairness check is expensive.  Fairness is
weak fairness of each handler's own steps: goroutines are scheduled and an
executor returns (each has a timeout or a process that ends).  Requests,
registrations and the abort carry no fairness.

### Findings

* `lifecycle_race`: a dispatch reads a pending job, a cancel is acknowledged, and
  `markScheduled` writes the stale copy back.  `reports/state_machine.md` has no
  transition out of `cancelled`.
* `gpu_release`: nothing calls `ReleaseJobResources`, which `README.md` promises
  after completion and failure.

Observed, without a run of its own: a job whose outcome could not be recorded
(a store error after `Execute`, a crash) stays `running` for good on MySQL,
since no request is accepted in that status and nothing recovers it; this is
what keeps `EffectsOnce` true.  MySQL reports the rows that an `UPDATE` has
changed: two equal updates within a second make `ensureUpdated` return
`ErrNotFound` for the second (only concurrent requests can cause this, and they
are modelled on the memory store).  A concurrent access to a job's `Metadata`
map is reachable and aborts the process; `RequestsEnd` excepts it.  When a job of
a dispatch fails to run, the jobs behind it in the batch stay `scheduled`, with
their GPUs: no later dispatch selects them, only a request to run or to cancel
each of them moves them.  A `gpu_memory` with an unknown suffix is read as MiB,
and `AssignedFits` takes this reading as the meaning of the request.

### Proofs

`ControlPlaneProofs` proves, for any sets of jobs, handlers and nodes and any
number of requests, the properties of `concurrent`, the invariants of `placement`
and `OutcomeBacked`.  The inductive invariant has three
layers, each proved with the help of the one below:

1. `Typed`: `TypeOK` and what the label of a handler says about its locals (a
   handler at `allocate_gpu` has a target node, one at `create_execution` holds
   a copy of an existing job, ...).  `TypeOK` alone is not inductive: `UpdateJob`
   at an unknown id, or `executions[exec[h]]` outside of the log, would break it.
2. `ExecInv`: the execution a handler owns is its own, open exactly while the
   handler is between `CreateExecution` and `UpdateExecution`.
3. `BackedInv`: every copy, stored or held by a handler, has a retry counter
   whose attempts have all failed and which is within the budget; a handler at
   `job_succeeded`/`job_failed` has an execution with that outcome.  Lost
   updates move old copies around but never create a copy that was not backed,
   which is why `OutcomeBacked` survives them.

Beside these layers stand three invariants that count:

* `PlaceInv` (for `AssignedFits`): a handler has a node in mind only between
  `SelectNode` and `MarkScheduled`, and that node fits its copy of the job.  With
  no memory request `MatchNode` does not look at the GPUs one by one; that there
  are enough of them follows from `NoOversubscription`, since more are free than
  asked for.
* `GrantInv` (for `GrantsCovered`): the GPUs of a grant are counted as numbered
  slots of the handler until `MarkScheduled` and as slots of the job after it, so
  that sums become cardinalities of disjoint unions.  A second placement of a job
  moves its slots to the new node; the old node's deduction stays, which is why
  the account is an inequality.
* `KnownInv` and `CountInv` (for `MetricsReconcile`): a handler only works on jobs
  that the store holds, and in every state, not only at rest, a counter falls
  short of the store by exactly the handlers that are between the store call and
  the increment.  A failure is counted as `failed` or as `retried`, and `RetryJob`
  counts `retried` too, hence the two inequalities.

`StoreBackendProofs` is about the specification with store errors, crashes and
restarts, in two parts.

For any number of handlers, the three layers survive: a failed call has written
what a successful one writes, or nothing, and its handler gives up.  What does
not survive is that an open execution has an owner (`OpenOwned`), which is
therefore kept apart from `ExecInv`.  One more invariant is needed, `OpInv`: a
handler that owns an execution does not serve `SchedulePending`, whose loop is
the only caller that goes on after an error.  `OutcomeBacked` and the refinement
of `AttemptLog` follow.

The second part assumes one handler, and rests on `FreshInv`: the copies that a
lone handler holds or has queued agree with the store until it writes.  From it
follow the refinement of `JobLifecycle`, with and without faults, and the
monotone retry counter; the `lifecycle_race` run shows that the assumption is
necessary.  `EffectsOnce` needs `EffectInv`: the execution of a handler is the
last one of the log, its executor has not been called before label `execute`, all
earlier calls for the job have failed on record, and the same holds of all calls
for any job that is not stored as running or succeeded.  A process that dies after
the executor leaves the job stored as running, and no operation takes a running
job up again: that is what the proof comes down to.

Only model-checked: the liveness of `RequestsEnd` (fairness is outside of the
prover's reach).

## 3. Telemetry pipeline

`Pipeline` models `internal/otelgateway/pipeline/manager.go`: receivers that
submit without blocking, worker goroutines per shard and signal, and `Shutdown`.

* **State.** `queue[l]` and `closed` are the buffered channels (a *lane* is a
  signal and a shard), `gauge` the Prometheus depth, `open` the exporters,
  `manager` the progress of `Start` and `Shutdown`, `spc`/`wpc` the program
  counters of receivers and workers, `held` the payload of a worker, `fate`
  what became of a payload.
* **Atomicity.** A channel operation is one step.  `updateTraceDepth` and
  `updateMetricDepth` are two: adding up the lengths and setting the gauge.
  (The lengths are added up in one step; a finer grain only adds more stale
  totals.)
* **Data.** A payload has a signal and a service; the FNV hash is any function
  of the service.  Processors and exporters choose their outcome: passed on,
  filtered, rejected; exported or failed.  Counters other than the depth are
  left out, nothing reads them.
* **Owner.** `Shutdown` is enabled with and without a `Start` before it, as in
  the code (`if m.cancel != nil`); without one, `wg.Wait` has nobody to wait for
  and what was accepted stays in the channels.  Three sequences of calls are left
  out, which the code does not guard against and nobody makes: a second `Start`
  (twice the workers), a `Start` after `Shutdown` (workers that drain into closed
  exporters) and a second `Shutdown` (a panic).
* **Panics.** `SubmitClosed` is the panic of a send on a closed channel, when a
  receiver is not stopped before `Shutdown`.  It ends the process (`up`).

`Delivery` is the abstract specification: a payload is accepted or dropped; an
accepted one meets one fate, once, and only in a started pipeline; a started
pipeline is finished only when all have; one that was never started finishes as
it is.

| Run | Instance | Shows |
|---|---|---|
| `pipeline` | 2 traces, 1 shard, queue of 1, 2 workers per channel, `FairSpec` | types and capacity, exporters and hooks after the last worker, refinement of `Delivery`; accepted payloads of a started pipeline settle, `Shutdown` returns |

A queue of one with two payloads reaches full, empty and drop; two workers on
one channel race for its items and for the gauge, and the channel of the other
signal has workers too, for which `Shutdown` waits.  More shards only add
channels that do not interact; the proofs below are for any number.  Fairness: goroutines that can
run are run, and exporters have timeouts.  Receivers are not fair.

Observed, without a run of its own: `Shutdown` of a manager that was never
started runs the hooks and closes the exporters with every accepted payload
still in its channel, uncounted, although its comment says that it "drains
queues" (`manager.go:133`).  The model reaches such states, and `Delivery` lets
an unstarted pipeline finish with accepted payloads that have no fate; only a
started one must settle them.

### Proofs (`PipelineProofs`)

For any payloads, hash, numbers of shards and workers and queue sizes:
`PipelineTypes`, `OnePlaceAlways`, `ExportersOutliveWorkers` and
`PipelineDelivers` (the refinement).  The inductive invariant `PipelineInv` has three parts.  `Control`
says that a worker holds a payload exactly while it works on it, that a worker
ends on a closed and empty channel, that all workers are launched or none, and
that the stages after `wg.Wait` find all channels closed and all launched workers
ended.  `Places` adds to `OnePlace` that only
accepted payloads are in the pipeline (else a submission could put a payload in
a second time) and that every accepted payload without a fate is in a channel or
in a worker.  Together they give the essential step, `HooksDeliver`: in a started
pipeline every lane has a worker, all have ended, so all channels are empty, nothing is held, and
every accepted payload has its fate.  `Typed` leaves out the depths and the
bound on the channels, which the other parts do not need; `PipelineTypeOK` is
inductive beside `PipelineInv` (`ChannelsBounded`: the select looks for room and
sends in one step; `TotalType`: the loop over the channels adds up naturals, by
the lemmas of `Induction`).  The liveness of `PipelineDrains` is model-checked
only.

## 4. Write-ahead log

`WAL` models `internal/otelgateway/wal/wal.go`.  A segment file is a sequence of
records and `Torn` items; what follows a `Torn` item in the same file is
misread, because lengths and checksums no longer match.  `Append` is three
steps (size check and rotation, header, data) under one mutex, so that kills can
come between them; `Sync` is a tick of `syncLoop`.  `Kill` loses the process and
keeps the files; `PowerFailure` also cuts every file back to any length not
below what was synced, possibly with a torn end.  Directory entries survive a
power loss.  `Replay` runs when no writer exists, one record per step; its
callback may fail, which skips the rest of the segment.  Bounds: `MaxSegment`
and `MaxCrashes`; when they and the records are used up the model stops, which
is why the runs do not check for deadlock.

| Run | Instance | Shows |
|---|---|---|
| `wal_failures` | 4 records (one larger than a segment), 4 segments, 2 crashes, write errors, failed rotations, power loss | types; a replay is in order and without repetition; segments are never truncated; acknowledged records stay readable while `intact` |
| `wal_torn_append` | write errors only | **violated**: records acknowledged behind a torn one cannot be read |

### Proofs (`WALProofs`)

For any record sizes, segment size, segments and crashes, whatever fails:
`WALTypeCorrect`, `ReplaysInOrder`, `SegmentsGrow`, and `AckedStayReadable`,
which is about the time before the first failed write or loss of power (the
history variable `intact`).  `wal_torn_append` shows that it cannot be stronger.  The invariant
`WALInv` adds `Orderly` to the types: the current segment is the largest one,
`segSeq` follows it, and the header of a record in progress ends the file.  The
order of a replay needs `FilesOrdered` (records increase along a file and from a
segment to the next), `FilesPast` (every file holds only records before `next`)
and `AheadOfReplay` (what a replay still has to read is larger than what it has
handed over).  Readability needs `TornLast`: while `intact`, a torn item is the
last of its file, since a restart begins a new segment.

## 5. Exporter chain

`Exporter` models `retry/retry.go`, `exporter/fanout/fanout.go` and
`exporter/otlp/exporter.go` in the three wirings that their types allow
(`wiring`): a retry around the fan-out, a fan-out of retries, and
`retry.WithContext` around the fan-out.  The program that would choose one is
not in the repository.

* **State.** Per call `pc`, the retry's `attempt`, the fan-out's index `at` and
  its collected `errs`, and `result`; `order` is the order in which iterating a
  map has left the backends; `closed` the closed connections.  `asked`, `taken`
  and `lost` are history.
* **Faults.** A backend takes the payload and answers, does not take it, or takes
  it while the answer is lost (as with a deadline).  Contexts are cancelled and
  `Shutdown` closes connections at any time.
* **Left out.** The length of a delay, and the export counters, which nothing
  reads.

`AtLeastOnce` is the abstract specification: nil means that every backend has
the payload, and nothing is sent after the return.

| Run | Instance | Shows |
|---|---|---|
| `exporter` | 1 call, 2 backends, 3 attempts, `FairSpec` | no call gives up early or late; duplicates have a cause; refinement of `AtLeastOnce`; every call returns |

Calls share nothing but connections, so one call shows every order of answers;
three attempts are the fewest with a first, a middle and a last one.  Fairness: a worker runs, a client has a deadline
and a sleep ends.

### Proofs (`ExporterProofs`)

For any number of calls, backends and attempts, in every wiring:
`PersistenceHolds`, `DuplicatesHold` and `AtLeastOnceHolds`, the refinement of
`AtLeastOnce`.  The invariant `ExporterInv` describes, for the i-th backend in
the order of the fan-out, how often it has been asked: with the retry around
the fan-out (`PassOK`) once per pass, and once more if its turn in this pass has
come; with a retry per backend (`TurnOK`) the backends before the current one
are settled, those behind it untouched, and the current one has taken the
payload exactly as often as an answer was lost.  That no backend has two places
in the order follows from their number.  That every call returns is
model-checked only.

Observed: the retry counts a "retry" for the last failure too and sleeps after
it; `attempt_total` is counted by the retry and by the client, under different
labels; a retry around the fan-out repeats the export to backends that have
accepted it, so that one bad backend gives the others up to `MaxAttempts` copies.

## 6. Processors

`Pressure` models `processor/memlimit` and `processor/degrade`, `Throttle`
models `processor/ratelimit`, and `Processors` composes both with the sampler in
the loop of a pipeline worker.  A chain gives every signal its processors in
order; the sampler is for traces only.  The chain and the callback from
memlimit to `degrade.SetMode` (as both packages' comments have it) are wired by
a program that is not in the repository; two opposite orders are checked.

* **Atomicity.** One access of an atomic, one write of a gauge, one critical
  section of a bucket.  Reading the pointer to a bucket (`ReadBucket`) and
  consuming from it are two steps, and so are the two assignments of
  `UpdateConfig`; buckets are numbered so that a worker can hold a replaced one.
* **Data.** Spans are a set per payload; a hash has two bits instead of 64 and
  rates are multiples of a half, which keeps the shift, the strict comparison
  and the boundaries; rates of the limiter are tokens per tick.
* **History.** `blurred` says that the last change of the mode overlapped another
  one; `since` and `spent` are a window of time that is opened at any moment;
  `sampledAt` and `survived` record what the sampler did.
* **Bound.** `MaxEvents` is one budget for moves of the heap, calls of
  supervisors, reloads, ticks, stops and rate changes; the monitor and the
  workers are not bounded.

| Run | Instance | Shows |
|---|---|---|
| `processors` | 2 traces payloads that share a trace, 1 of metrics, one worker, 3 heap sizes, 2 events, `FairSpec` | the gauges show the mode at rest; limits hold over every window; every span is accounted for; traces stay whole; a rate keeps its share of the hashes; the mode follows the heap |

Two events pair every change with every other around the steps of a worker; one
worker at a time is enough because processors share nothing between payloads
except the buckets, whose sections are atomic.  Fairness: only the monitor's
ticker, which goes on.

### Proofs (`ProcessorsProofs`)

For any callers, payloads, reloads and chains: `GaugesHold`, `WindowHolds`,
`TracesHold`, `ShareHolds` and, for finitely many payloads, `SpansHold`.  The
invariant has three independent parts.  `GaugeInv`: while no
two changes of the mode have overlapped, the gauges show the mode or a caller is
on its way to write them.  `ThrottleInv`: what has been spent of a bucket in the
window and what a refill would make available now stay together below the burst
and what the window has added; a worker may still hold a bucket that was
replaced, so this is said of every bucket, not only of the current ones.
`PayloadInv`: a payload is whole until its sampler is called, and what the
sampler left is a function of its spans and the rate it met.  On top of it
`AccountInv` says that `SpanCount` is right, that a payload which nobody has
refused has just the spans the sampler left, and that the counter is the number
of spans of the refused traces (`Refused`); the spans that came in are then the
disjoint union of three sets.  `SpansAccounted` counts pairs of payload and span,
so that the sum over payloads is a cardinality; this is where finiteness is
needed.  `ShareExact` assumes that the trace ids have every hash, as they do in
the instance.  That the mode follows the heap is model-checked only.

Observed: when two calls of `SetMode` overlap, the gauges can rest on the mode
that lost (`GaugesSettle` excludes just this); `sampling_ratio` is 0 until the
first change of the mode although the ratio is 1, and a reloaded
`DegradedSamplingRate` is not published; a mode set by a supervisor lasts only
until the level changes; every `UpdateConfig` of the limiter starts with a full
burst.

### Findings of the telemetry parts

* `wal_torn_append`: after a failed write the next `Append` succeeds behind the
  torn bytes and is lost for `Replay`.

Observed, without a run of their own: two updates can add up the queue depth in
one order and set the gauge in the other, after which it rests on a depth that
is not current.  The log's package comment promises that acknowledged records
are marked and segments deleted; there is no such operation, and every restart
replays all that is in the directory.

## 7. Inference gateway and benchmark client

`Gateway` models `internal/gateway` and `cmd/gateway`.

* **State.** `stage` is the progress of `main` (initial probes, serving,
  draining, exited); `healthy` and `probe` the health checker; `limiters` and
  `buckets` the registry and its buckets, which requests refer to by index
  (`bucket`), so that a second bucket of a model would be visible; `pc`, `left`
  (the candidates not yet tried) and `answer` the request handlers.  `alive` is
  the truth about the backends, which die and recover at most `MaxFlips` times.
* **Atomicity.** A step is a critical section of the registry, of a bucket or of
  the checker, one call of a backend, or one probe.  A probe and the write of
  its result are two steps.
* **Data.** Time passes in ticks of 1/`Grain` seconds and tokens are counted in
  1/`Grain`: with these, what the code computes in floating point is exact.  A
  backend that is alive answers below 500; one that is not refuses, times out
  or answers with a 5xx.  Bodies, headers and streaming are left out.
* **Shuffle.** `ShuffledBy` is `weightedShuffle` for given random indices,
  `Shuffled` the orders it can return.
* **History variables.** `age` (rounds begun since a backend last changed, up to
  two), `proven` (backends that have answered a probe), `steady` (candidates
  alive since the request found them) and `allowed` (requests that passed a
  model's limit) serve the properties only.

| Run | Instance | Shows |
|---|---|---|
| `gateway_failover` | 2 backends, 2 requests (one without a model), 3 flips, one backend configured as healthy, `FairSpec` | no failure while a candidate stays alive, only probed backends are used, health is stale by less than two rounds; requests are answered, the health view follows the backends |
| `gateway_limits` | `Benchmark`: 1 backend, a benchmark of 2 requests with concurrency 1 and 1 request of another client, 3 seconds, a limit configured as 0 | types; the limit holds although requests race to create the bucket; the summary and the exit code of a benchmark are truthful, its percentiles right |

`Benchmark` models `internal/benchmark` and its two callers (`benchctl` and the
benchmark executor) as a client of the gateway: a goroutine per request behind a
semaphore (`client`), `samples`, and the summary.  A request fails when nobody
listens, the connection breaks or the client's timeout is over, possibly while
the gateway is still working on it.  A status below 500 may be other than 200
and a body may not be JSON, so that an answer of a backend may count as a
failure.  Samples are a set: their order is not looked at, each has an index.
The averages and the reports are left out.

The limiter never looks at backends and failover never at the clock, so
`gateway_failover` has no time (`Tick` is a step of `BenchNext` only) and
`gateway_limits` no flips.  The two requests
of the benchmark never overlap (its semaphore has one place), and the third
request races with either.  Three flips let a backend die and recover while
the other one dies.  Fairness: handlers and the checker run and both HTTP
clients have timeouts; the ticker of the checker fires again.  Time, clients,
flips and signals carry no fairness.

Observed, without a run of their own: `weightedShuffle` exchanges a position with
a random later one when that is strictly heavier; listed after one of weight 1,
a backend of weight 3 comes first in half of the cases, which the comment "higher
weight = more likely first" (`internal/gateway/router.go:245`) excludes.  And
`docs/异常场景样例.md` (section 8) shows a benchmark of an unreachable target as a
failed job; `BenchmarkExecutor.Execute` returns exit code 1 and no error, and
`RunJob` then records the job as succeeded.

### Proofs (`GatewayProofs`)

For any backends, weights, models, limits, requests and flips:
`FailoverComplete`, `OnlyProvenTried` and `HealthSettles` of `Spec`; and, with
time passing and a benchmark of any size and concurrency (`BenchSpec`),
`GatewayTypeHolds`, `RateHolds`, `SummaryHolds` and `PercentilesHold`.

* The candidates come out of two loops.  `MatchedType` and `ShuffledType` prove
  what they compute, for any number of turns, with the lemmas of `Induction`: the
  healthy backends of the model and no others, and the same ones after the
  shuffle whatever the random indices were.
* `RouteInv` says of a request (`RequestOK`) that it has no answer before its
  end, and that its candidates that have been alive since it found them are still
  among those to be tried: so none is left when the last one fails.  Of the
  checker it says (`HealthOK`) that a probe of a round that began after the last
  change of a backend has seen the backend as it is, which needs that rounds do
  not overlap; and (`ProvenOK`) that after the first round `healthy` contains
  only backends that have answered, which needs that `main` waits for it.
* `LimitInv` says that a bucket belongs to one model, that a request which has a
  bucket has its model's, and of each bucket (`BucketOK`) that the requests
  passed, the tokens left and what a refill would add are together no more than
  the initial tokens and what the time since the start has added.
* `BenchInv`: a request is finished exactly if it has a sample, which is its only
  one, and an answer that a sample counts as a success stays (`AnswersStay`).
  That the counts agree then follows from cardinalities.
* `Latencies` is any list of the successes in ascending order.  `Sortable` shows,
  by induction on the number of samples, that there is one, and `SortedLatencies`
  that it has every success once.  An interpolated value lies between its two
  neighbours (`PlaceBetween`) and does not decrease with its place
  (`PlacesInOrder`); how many samples lie below or above it then follows from
  the place of the neighbour (`PlaceSplits`).

Only model-checked: the liveness of `gateway_failover`.

## Plan

Done, in this order: `JobModel`, `NodeMatch`, `ControlPlane` with `AttemptLog`,
`JobLifecycle` and the proofs; `Delivery`, `Pipeline` and proofs; `WAL` and
proofs; `Gateway`; `AtLeastOnce`, `Exporter`; `Pressure`, `Throttle`,
`Processors`; `StoreBackend`; `Benchmark`.

Then the proofs: `ExporterProofs`, `ProcessorsProofs`, `Induction`,
`GatewayProofs`, the rest of `ControlPlaneProofs`, `StoreBackendProofs`.

Every safety invariant and action property of a passing run is now stated by a
theorem.

What no proof covers: liveness under fairness, which the prover does not
handle.  The installed induction theorems take operators as parameters and
cannot be cited; `Induction` restates what loops need for sets and functions.

## Not modelled

* The Redis store is a placeholder without operations; the tracer is a log that
  nothing reads; the commands `scheduler`, `worker` and `notifier` call modelled
  services once, on a store of their own.
* Kubernetes manifests, shell, HTTP and Kubernetes executors: what they run is
  outside of the program; the model has their error or success.
* Configuration parsing (its values are CONSTANTS), Prometheus and JSON
  formatting, SQL text, benchmark reports, the CUDA benchmark and the experiment
  scripts.
* Operations without a caller: `ReleaseGPU`, `ReleaseJobResources`, `UpdateNode`,
  a second registration of a node.
* The receivers and the batch processor that the configuration of the telemetry
  gateway mentions: their code is not in the repository.
