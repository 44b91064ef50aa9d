--------------------------- MODULE MCControlPlane ---------------------------
(***************************************************************************)
(* ControlPlane on small instances.                                        *)
(***************************************************************************)
EXTENDS ControlPlane, TLC

\* Two jobs on a one-node cluster: job 1 needs its only GPU and has no retry,
\* job 2 needs none, has one retry and the higher priority.
SmallMaxRetries == 1 :> 0 @@ 2 :> 1
SmallPriority   == 1 :> 0 @@ 2 :> 5
SmallGPU        == 1 :> 1 @@ 2 :> 0
SmallGPUMemory  == 1 :> [val |-> 1, suffix |-> "Gi"]
                   @@ 2 :> [val |-> 0, suffix |-> "none"]
SmallNodeStatus == [n \in Nodes |-> "online"]
SmallFreeMem    == [n \in Nodes |-> <<2048>>]

\* Two GPU jobs, of which the second fits on one node only, and a node that
\* is drained.
GPUMaxRetries == 1 :> 1 @@ 2 :> 0
GPUPriority   == 1 :> 3 @@ 2 :> 3
GPUGPU        == 1 :> 1 @@ 2 :> 2
GPUGPUMemory  == 1 :> [val |-> 16, suffix |-> "other"]
                 @@ 2 :> [val |-> 1, suffix |-> "Gi"]
GPUNodes      == {"a", "b", "c"}
GPUNodeStatus == "a" :> "online" @@ "b" :> "online" @@ "c" :> "drain"
GPUFreeMem    == "a" :> <<2048, 1024>> @@ "b" :> <<2048, 512>> @@ "c" :> <<2048>>

\* Handlers are interchangeable.
HandlerSymmetry == Permutations(Handlers)
-----------------------------------------------------------------------------
\* Every request is answered, unless the runtime aborts the process: the loop
\* over the priority queue, the placement and the batch all end.
RequestsEnd ==
    \A h \in Handlers : pc[h] # "idle" ~> (pc[h] = "idle" \/ ~up)

\* README: ReleaseJobResources gives the GPUs back when a job has completed or
\* failed.  Once all jobs have run to their end, every node is whole again.
GPUsReturned ==
    (Quiescent /\ \A j \in Jobs : jobs[j].status \in {"succeeded", "failed"})
        => \A n \in nodes : avail[n] = TotalGPU(n)
=============================================================================
