------------------------------ MODULE Pipeline ------------------------------
(***************************************************************************)
(* The sharded queues of internal/otelgateway/pipeline: receivers submit   *)
(* payloads without blocking, workers take them through the processors to  *)
(* the exporter of their signal, and Shutdown closes the queues, waits for *)
(* the workers, runs the hooks and closes the exporters.                   *)
(*                                                                         *)
(* A step is one operation on a channel, on the gauge or on an exporter.   *)
(* Each payload is submitted by a goroutine of its own.  What a processor  *)
(* decides and whether an export succeeds is left open.  The manager has   *)
(* one owner, which calls Start at most once and before Shutdown, and      *)
(* Shutdown at most once, with or without a Start.                         *)
(***************************************************************************)
EXTENDS Integers, Sequences

CONSTANTS
    Payloads,
    SignalOf,    \* [Payloads -> Signals]
    ServiceOf,   \* [Payloads -> Services or NoService]: extractServiceName
    Hash,        \* [Services -> Nat]: FNV-1a of the name
    NoService,   \* a payload without resource or service.name
    ShardCount,  \* cfg.ShardCount
    Workers,     \* cfg.Workers
    QueueSize,   \* [Signals -> Nat]: cfg.TraceQueueSize, cfg.MetricQueueSize
    NoPayload

Signals == {"trace", "metric"}

AtLeastOne(n) == IF n < 1 THEN 1 ELSE n

\* NewManager and Start raise a count below one to one.
Shards == 0 .. AtLeastOne(ShardCount) - 1
Lanes == Signals \X Shards
WorkerIds == Lanes \X (1 .. AtLeastOne(Workers))

Capacity(signal) == AtLeastOne(QueueSize[signal] \div AtLeastOne(ShardCount))

ASSUME PipelineAssumption ==
    /\ SignalOf \in [Payloads -> Signals]
    /\ \A p \in Payloads : ServiceOf[p] # NoService => Hash[ServiceOf[p]] \in Nat
    /\ ShardCount \in Nat
    /\ Workers \in Nat
    /\ QueueSize \in [Signals -> Nat]
    /\ NoPayload \notin Payloads

VARIABLES
    queue,    \* [Lanes -> Seq(Payloads)]: the channels
    closed,   \* the lanes whose channel is closed
    gauge,    \* [Signals -> Nat]: gateway_queue_depth
    open,     \* the signals whose exporter has not been shut down
    manager,  \* "new", "running", "closing", "hooks", "exporters", "done"
    hooked,   \* the pre-shutdown hooks have run
    up,       \* FALSE once a send on a closed channel has panicked
    spc,      \* [Payloads -> step of the goroutine that submits it]
    wpc,      \* [WorkerIds -> step of the worker]
    held,     \* [WorkerIds -> the payload it works on]
    sdepth,   \* [Payloads -> Nat]: the total a submitter has added up
    wdepth,   \* [WorkerIds -> Nat]: the total a worker has added up
    fate      \* [Payloads -> what became of an accepted payload]

submitters == <<spc, sdepth>>
workers == <<wpc, held, wdepth>>
control == <<manager, hooked, open>>
vars == <<queue, closed, gauge, control, up, submitters, workers, fate>>

Init ==
    /\ queue = [l \in Lanes |-> << >>]
    /\ closed = {}
    /\ gauge = [s \in Signals |-> 0]
    /\ open = Signals
    /\ manager = "new"
    /\ hooked = FALSE
    /\ up = TRUE
    /\ spc = [p \in Payloads |-> "new"]
    /\ wpc = [w \in WorkerIds |-> "none"]
    /\ held = [w \in WorkerIds |-> NoPayload]
    /\ sdepth = [p \in Payloads |-> 0]
    /\ wdepth = [w \in WorkerIds |-> 0]
    /\ fate = [p \in Payloads |-> "none"]
-----------------------------------------------------------------------------
(* Submission.                                                             *)

\* traceShardIndex and metricShardIndex.
ShardIndex(p) ==
    IF ShardCount <= 1 \/ ServiceOf[p] = NoService
    THEN 0
    ELSE Hash[ServiceOf[p]] % ShardCount

LaneOf(p) == <<SignalOf[p], ShardIndex(p)>>

Full_OffByOne(l) == Len(queue[l]) > Capacity(l[1])
Full(l) == Len(queue[l]) >= Capacity(l[1])

\* The select of SubmitTrace and SubmitMetric: the payload is sent, or it is
\* dropped because the channel is full.
Submit(p) ==
    /\ up
    /\ spc[p] = "new"
    /\ LaneOf(p) \notin closed
    /\ \/ /\ ~Full(LaneOf(p))
          /\ queue' = [queue EXCEPT ![LaneOf(p)] = Append(@, p)]
          /\ spc' = [spc EXCEPT ![p] = "total"]
       \/ /\ Full(LaneOf(p))
          /\ spc' = [spc EXCEPT ![p] = "dropped"]
          /\ UNCHANGED queue
    /\ UNCHANGED <<closed, gauge, control, up, sdepth, workers, fate>>

\* A select with a send on a closed channel panics, full or not.
SubmitClosed(p) ==
    /\ up
    /\ spc[p] = "new"
    /\ LaneOf(p) \in closed
    /\ up' = FALSE
    /\ UNCHANGED <<queue, closed, gauge, control, submitters, workers, fate>>

\* updateTraceDepth and updateMetricDepth: the lengths are added up, ...
Total(signal) ==
    LET n == AtLeastOne(ShardCount)
        upto[i \in 0 .. n] == IF i = 0 THEN 0
                              ELSE upto[i - 1] + Len(queue[<<signal, i - 1>>])
    IN  upto[n]

SubmitTotal(p) ==
    /\ up
    /\ spc[p] = "total"
    /\ sdepth' = [sdepth EXCEPT ![p] = Total(SignalOf[p])]
    /\ spc' = [spc EXCEPT ![p] = "gauge"]
    /\ UNCHANGED <<queue, closed, gauge, control, up, workers, fate>>

\* ... and the gauge is set to what the total was.
SubmitGauge(p) ==
    /\ up
    /\ spc[p] = "gauge"
    /\ gauge' = [gauge EXCEPT ![SignalOf[p]] = sdepth[p]]
    /\ spc' = [spc EXCEPT ![p] = "accepted"]
    /\ sdepth' = [sdepth EXCEPT ![p] = 0]
    /\ UNCHANGED <<queue, closed, control, up, workers, fate>>
-----------------------------------------------------------------------------
(* traceWorker and metricWorker.                                           *)

Receive(w) ==
    /\ up
    /\ wpc[w] = "receive"
    /\ queue[w[1]] # << >>
    /\ held' = [held EXCEPT ![w] = Head(queue[w[1]])]
    /\ queue' = [queue EXCEPT ![w[1]] = Tail(@)]
    /\ wpc' = [wpc EXCEPT ![w] = "total"]
    /\ UNCHANGED <<closed, gauge, control, up, submitters, wdepth, fate>>

\* range ends when the channel is closed and empty.
MayExit_Undrained(w) == w[1] \in closed
MayExit(w) == w[1] \in closed /\ queue[w[1]] = << >>

Exit(w) ==
    /\ up
    /\ wpc[w] = "receive"
    /\ MayExit(w)
    /\ wpc' = [wpc EXCEPT ![w] = "exited"]
    /\ UNCHANGED <<queue, closed, gauge, control, up, submitters, held, wdepth,
                   fate>>

WorkerTotal(w) ==
    /\ up
    /\ wpc[w] = "total"
    /\ wdepth' = [wdepth EXCEPT ![w] = Total(w[1][1])]
    /\ wpc' = [wpc EXCEPT ![w] = "gauge"]
    /\ UNCHANGED <<queue, closed, gauge, control, up, submitters, held, fate>>

WorkerGauge(w) ==
    /\ up
    /\ wpc[w] = "gauge"
    /\ gauge' = [gauge EXCEPT ![w[1][1]] = wdepth[w]]
    /\ wdepth' = [wdepth EXCEPT ![w] = 0]
    /\ wpc' = [wpc EXCEPT ![w] = "process"]
    /\ UNCHANGED <<queue, closed, control, up, submitters, held, fate>>

\* The worker is done with its payload and goes back to the channel.
Settle_Retried(w, f) ==
    /\ fate' = [fate EXCEPT ![held[w]] = IF f = "failed" THEN @ ELSE f]
    /\ wpc' = [wpc EXCEPT ![w] = IF f = "failed" THEN "process" ELSE "receive"]
    /\ held' = [held EXCEPT ![w] = IF f = "failed" THEN @ ELSE NoPayload]
Settle(w, f) ==
    /\ fate' = [fate EXCEPT ![held[w]] = f]
    /\ wpc' = [wpc EXCEPT ![w] = "receive"]
    /\ held' = [held EXCEPT ![w] = NoPayload]

\* The chain of processors: all pass the payload on, or one of them returns
\* nil (filtered) or an error (rejected).
Process(w) ==
    /\ up
    /\ wpc[w] = "process"
    /\ \/ /\ wpc' = [wpc EXCEPT ![w] = "export"]
          /\ UNCHANGED <<held, fate>>
       \/ Settle(w, "filtered")
       \/ Settle(w, "rejected")
    /\ UNCHANGED <<queue, closed, gauge, control, up, submitters, wdepth>>

\* ExportTraces and ExportMetrics; an error is logged and the payload is gone.
Export(w) ==
    /\ up
    /\ wpc[w] = "export"
    /\ Settle(w, "exported") \/ Settle(w, "failed")
    /\ UNCHANGED <<queue, closed, gauge, control, up, submitters, wdepth>>
-----------------------------------------------------------------------------
(* Start and Shutdown.                                                     *)

\* The workers have been launched, whether or not they have ended since.
Started == \A w \in WorkerIds : wpc[w] # "none"

Start ==
    /\ up
    /\ manager = "new"
    /\ manager' = "running"
    /\ wpc' = [w \in WorkerIds |-> "receive"]
    /\ UNCHANGED <<queue, closed, gauge, hooked, open, up, submitters, held,
                   wdepth, fate>>

\* Nothing asks whether the manager was started: m.cancel may be nil.
Shutdown ==
    /\ up
    /\ manager \in {"new", "running"}
    /\ manager' = "closing"
    /\ UNCHANGED <<queue, closed, gauge, hooked, open, up, submitters, workers,
                   fate>>

\* The loop closes the trace channel and the metric channel of a shard, then
\* those of the next one.
ClosedBefore(l) ==
    {m \in Lanes : \/ m[2] < l[2]
                   \/ m[2] = l[2] /\ m[1] = "trace" /\ l[1] = "metric"}

CloseChannel(l) ==
    /\ up
    /\ manager = "closing"
    /\ l \notin closed
    /\ ClosedBefore(l) \subseteq closed
    /\ closed' = closed \cup {l}
    /\ UNCHANGED <<queue, gauge, control, up, submitters, workers, fate>>

\* wg.Wait: the group counts the workers that Start has launched.
WorkersDone == \A w \in WorkerIds : wpc[w] \in {"none", "exited"}

Wait ==
    /\ up
    /\ manager = "closing"
    /\ closed = Lanes
    /\ WorkersDone
    /\ manager' = "hooks"
    /\ UNCHANGED <<queue, closed, gauge, hooked, open, up, submitters, workers,
                   fate>>

RunHooks ==
    /\ up
    /\ manager = "hooks"
    /\ hooked' = TRUE
    /\ manager' = "exporters"
    /\ UNCHANGED <<queue, closed, gauge, open, up, submitters, workers, fate>>

CloseExporter_Unwaited ==
    /\ up
    /\ manager \in {"closing", "exporters"}
    /\ \/ "trace" \in open /\ open' = open \ {"trace"} /\ UNCHANGED manager
       \/ /\ "trace" \notin open /\ manager = "exporters"
          /\ open' = {} /\ manager' = "done"
    /\ UNCHANGED <<queue, closed, gauge, hooked, up, submitters, workers,
                   fate>>

\* The trace exporter first; an error is logged.
CloseExporter ==
    /\ up
    /\ manager = "exporters"
    /\ \/ "trace" \in open /\ open' = open \ {"trace"} /\ UNCHANGED manager
       \/ "trace" \notin open /\ open' = {} /\ manager' = "done"
    /\ UNCHANGED <<queue, closed, gauge, hooked, up, submitters, workers,
                   fate>>
-----------------------------------------------------------------------------
Receiver(p) == Submit(p) \/ SubmitClosed(p)

Gauges(p) == SubmitTotal(p) \/ SubmitGauge(p)

Worker(w) ==
    \/ Receive(w)
    \/ Exit(w)
    \/ WorkerTotal(w)
    \/ WorkerGauge(w)
    \/ Process(w)
    \/ Export(w)

Stopping ==
    \/ \E l \in Lanes : CloseChannel(l)
    \/ Wait
    \/ RunHooks
    \/ CloseExporter

\* The pipeline waits for payloads, has been shut down, or has crashed.
Resting ==
    \/ ~up
    \/ /\ manager \in {"new", "running", "done"}
       /\ \A p \in Payloads : spc[p] \in {"new", "accepted", "dropped"}
       /\ \A w \in WorkerIds : wpc[w] \in {"none", "receive", "exited"}

Rest == Resting /\ UNCHANGED vars

Next ==
    \/ \E p \in Payloads : Receiver(p) \/ Gauges(p)
    \/ \E w \in WorkerIds : Worker(w)
    \/ Start
    \/ Shutdown
    \/ Stopping
    \/ Rest

Spec == Init /\ [][Next]_vars

\* Goroutines that can run are run; exporters have timeouts, so they return.
FairSpec ==
    /\ Spec
    /\ \A p \in Payloads : WF_vars(Gauges(p))
    /\ \A w \in WorkerIds : WF_vars(Worker(w))
    /\ WF_vars(Stopping)
-----------------------------------------------------------------------------
(* Properties.                                                             *)

Fates == {"filtered", "rejected", "exported", "failed"}

\* Type correctness; a channel never holds more than its capacity.
PipelineTypeOK ==
    /\ queue \in [Lanes -> Seq(Payloads)]
    /\ \A l \in Lanes : Len(queue[l]) <= Capacity(l[1])
    /\ closed \subseteq Lanes
    /\ gauge \in [Signals -> Nat]
    /\ open \subseteq Signals
    /\ manager \in {"new", "running", "closing", "hooks", "exporters", "done"}
    /\ hooked \in BOOLEAN
    /\ up \in BOOLEAN
    /\ spc \in [Payloads -> {"new", "total", "gauge", "accepted", "dropped"}]
    /\ wpc \in [WorkerIds -> {"none", "receive", "total", "gauge", "process",
                              "export", "exited"}]
    /\ held \in [WorkerIds -> Payloads \cup {NoPayload}]
    /\ sdepth \in [Payloads -> Nat]
    /\ wdepth \in [WorkerIds -> Nat]
    /\ fate \in [Payloads -> Fates \cup {"none"}]

\* A payload is in the pipeline once or not at all: the positions it has in
\* the channels and the workers that hold it are one if it was accepted and
\* has no fate yet, none otherwise, and it never leaves its shard.
OnePlace ==
    /\ \A w \in WorkerIds : held[w] # NoPayload =>
          /\ LaneOf(held[w]) = w[1]
          /\ fate[held[w]] = "none"
          /\ \A v \in WorkerIds : held[v] = held[w] => v = w
          /\ \A i \in DOMAIN queue[w[1]] : queue[w[1]][i] # held[w]
    /\ \A l \in Lanes : \A i \in DOMAIN queue[l] :
          /\ LaneOf(queue[l][i]) = l
          /\ fate[queue[l][i]] = "none"
          /\ \A k \in DOMAIN queue[l] : queue[l][k] = queue[l][i] => k = i

\* A worker only ever calls an exporter that has not been shut down, and the
\* hooks run between the last export and the first exporter's shutdown.
ExporterOpen ==
    /\ \A w \in WorkerIds : wpc[w] = "export" => open = Signals /\ ~hooked
    /\ open # Signals => hooked

Accepted(p) == spc[p] \in {"total", "gauge", "accepted"}

stateOf == [p \in Payloads |-> IF fate[p] # "none" THEN fate[p]
                               ELSE IF Accepted(p) THEN "accepted"
                               ELSE spc[p]]

Deliver == INSTANCE Delivery
           WITH state <- stateOf, started <- Started, finished <- hooked

\* Every accepted payload of a started pipeline meets one fate, once, and
\* before the hooks run; what an unstarted pipeline accepted meets none.
DeliverySpec == Deliver!Spec
=============================================================================
