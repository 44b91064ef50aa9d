SPECIFICATION FairSpec
CONSTANTS
    HeapSizes = {0, 5, 9}
    HighWatermark = 5
    CriticalWatermark = 9
    Ratios = {10, 100}
    DefaultRatio = 10
    Monitor = "monitor"
    Supervisors = {"supervisor"}
    MaxHeapMoves = 2
    MaxCalls = 1
    MaxReloads = 1
    Signals = {"trace", "metric"}
    Configs <- MCConfigs
    MaxNow = 2
    MaxUpdates = 1
    None = None
    Chains <- MCChains
    Workers = 1
    Payloads = {"t1", "t2", "m1"}
    SignalOf <- MCSignalOf
    SpansOf <- MCSpansOf
    HashOf <- MCHashOf
    NoTrace = NoTrace
    Half = 2
    Rates <- MCRates
    MaxEvents = 2
INVARIANTS
    GaugesSettle
    WindowBounded
    SpansAccounted
    TracesWhole
    ShareExact
PROPERTIES
    ModeFollows
