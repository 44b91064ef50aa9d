----------------------------- MODULE NodeMatch ------------------------------
(***************************************************************************)
(* The GPU inventory of internal/model/node.go and the node selection of   *)
(* internal/scheduler/resource_matcher.go, as operators on a map from node *)
(* to the number of GPUs that are not handed out.                          *)
(***************************************************************************)
EXTENDS Naturals, Sequences, FiniteSets

CONSTANTS
    Nodes,      \* the node ids
    NodeStatus, \* [Nodes -> {"online", "offline", "drain"}]
    FreeMem,    \* [Nodes -> Seq(Nat)]: FreeMemMiB() of each GPU of the node
    Strategy    \* "BestFit" (what NewDispatcher sets) or "FirstFit"

\* One GPUInfo per GPU, so TotalGPU is their number (resource.go).
TotalGPU(n) == Len(FreeMem[n])

ASSUME NodesAssumption ==
    /\ NodeStatus \in [Nodes -> {"online", "offline", "drain"}]
    /\ FreeMem \in [Nodes -> Seq(Nat)]
    /\ Strategy \in {"BestFit", "FirstFit"}

\* A gpu_memory request is the number the string starts with and what follows
\* it: "Mi", "Gi", anything else ("other"), or no number at all ("none").
GPUMemoryRequest == [val : Nat, suffix : {"Mi", "Gi", "other", "none"}]

\* Sscanf("%d") stops at the first non-digit, so "16G" or "16GB" is 16 MiB.
parseGPUMemoryMiB(s) ==
    CASE s.suffix = "none" -> 0
      [] s.suffix = "Gi"   -> s.val * 1024
      [] OTHER             -> s.val

IsSchedulable(n) == NodeStatus[n] = "online"

CanFitGPUMemory_AnyOne(n, count, minMemMiB) ==
    \E i \in 1..Len(FreeMem[n]) : FreeMem[n][i] >= minMemMiB
CanFitGPUMemory(n, count, minMemMiB) ==
    Cardinality({i \in 1..Len(FreeMem[n]) : FreeMem[n][i] >= minMemMiB}) >= count

\* The nodes that pass the filters of MatchNode, out of those listed.
Candidates(listed, avail, count, minMemMiB) ==
    {n \in listed : /\ IsSchedulable(n)
                    /\ avail[n] >= count
                    /\ minMemMiB > 0 => CanFitGPUMemory(n, count, minMemMiB)}

\* The nodes MatchNode may return.  The store lists its map in an arbitrary
\* order, so FirstFit is any candidate, and BestFit (an unstable sort on the
\* residual) is any candidate with the least residual; empty means "no fit".
MatchNode(listed, avail, count, minMemMiB) ==
    LET fits == Candidates(listed, avail, count, minMemMiB)
    IN  IF Strategy = "FirstFit"
        THEN fits
        ELSE {n \in fits : \A m \in fits : avail[n] - count <= avail[m] - count}
=============================================================================
