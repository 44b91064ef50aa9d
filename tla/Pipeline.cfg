SPECIFICATION FairSpec
CONSTANTS
    Payloads = {"t1", "t2"}
    SignalOf <- MCSignalOf
    ServiceOf <- MCServiceOf
    Hash <- MCHash
    NoService = NoService
    ShardCount = 1
    Workers = 2
    QueueSize <- NarrowQueueSize
    NoPayload = NoPayload
INVARIANTS
    PipelineTypeOK
    ExporterOpen
PROPERTIES
    DeliverySpec
    PipelineDrains
