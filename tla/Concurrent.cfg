SPECIFICATION Spec
CONSTANTS
    Handlers = {h1, h2}
    Nodes = {n1}
    NoNode = NoNode
    Jobs = {1, 2}
    MaxRetries <- SmallMaxRetries
    Priority <- SmallPriority
    GPU <- SmallGPU
    GPUMemory <- SmallGPUMemory
    NodeStatus <- SmallNodeStatus
    FreeMem <- SmallFreeMem
    Strategy = "BestFit"
    Registered = {1, 2}
    Limits = {1, 2}
    MaxRequests = 4
INVARIANTS
    TypeOK
    RetryBudget
    RunningHasOwner
    ExecutionsOwned
    MetricsReconcile
PROPERTIES
    AttemptLogSpec
SYMMETRY HandlerSymmetry
