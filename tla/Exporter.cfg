SPECIFICATION FairSpec
CONSTANTS
    Calls = {"c1"}
    Backends = {"tempo", "jaeger"}
    MaxAttempts = 3
INVARIANTS
    Persistence
    DuplicatesExplained
PROPERTIES
    AtLeastOnceSpec
    CallsReturn
