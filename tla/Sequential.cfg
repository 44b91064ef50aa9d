SPECIFICATION BackendSpec
CONSTANTS
    Handlers = {h1}
    Nodes = {n1}
    NoNode = NoNode
    Jobs = {1, 2, 3}
    MaxRetries <- TiedMaxRetries
    Priority <- TiedPriority
    GPU <- TiedGPU
    GPUMemory <- TiedGPUMemory
    NodeStatus <- SmallNodeStatus
    FreeMem <- SmallFreeMem
    Strategy = "BestFit"
    Registered = {1, 2}
    Limits = {2}
    MaxRequests = 5
    MaxFaults = 2
INVARIANTS
    EffectsOnce
    OutcomeBacked
PROPERTIES
    LifecycleSpec
