----------------------------- MODULE MCPipeline -----------------------------
(***************************************************************************)
(* Pipeline on a small instance: two traces, one without a service, that   *)
(* compete for a channel of one payload.                                   *)
(***************************************************************************)
EXTENDS Pipeline, TLC

MCSignalOf  == [p \in Payloads |-> "trace"]
MCServiceOf == [p \in Payloads |-> IF p = "t1" THEN "A" ELSE NoService]
MCHash      == "A" :> 5

\* One payload, and the least capacity for the metrics.
NarrowQueueSize == "trace" :> 1 @@ "metric" :> 0
-----------------------------------------------------------------------------
\* Under fairness the pipeline drains.  An accepted payload of a started
\* pipeline meets its fate, also when the pipeline is shut down meanwhile, and
\* Shutdown returns: no worker waits for ever on a channel, nor the manager on a
\* worker.  (A receiver that is still submitting may make the process panic.)
PipelineDrains ==
    /\ \A p \in Payloads :
          (Accepted(p) /\ Started) ~> (fate[p] # "none" \/ ~up)
    /\ manager = "closing" ~> (manager = "done" \/ ~up)
=============================================================================
