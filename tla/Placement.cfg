SPECIFICATION FairSpec
CONSTANTS
    Handlers = {h1, h2}
    Nodes <- GPUNodes
    NoNode = NoNode
    Jobs = {1, 2}
    MaxRetries <- GPUMaxRetries
    Priority <- GPUPriority
    GPU <- GPUGPU
    GPUMemory <- GPUGPUMemory
    NodeStatus <- GPUNodeStatus
    FreeMem <- GPUFreeMem
    Strategy = "BestFit"
    Registered = {1, 2}
    Limits = {2}
    MaxRequests = 2
INVARIANTS
    NoOversubscription
    GrantsCovered
    AssignedFits
PROPERTIES
    RequestsEnd
