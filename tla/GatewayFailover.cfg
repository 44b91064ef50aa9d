SPECIFICATION FairSpec
CONSTANTS
    Backends <- TwoBackends
    Weight <- MCWeight
    Serves <- MCServes
    Configured = {"heavy"}
    Models = {"m", "n"}
    RPS <- MCRPS
    Requests = {"r1", "r5"}
    ModelOf <- MCModelOf
    NoModel = NoModel
    Grain = 1
    MaxTime = 0
    MaxFlips = 3
INVARIANTS
    NoNeedlessFailure
    OnlyProven
    HealthConverges
PROPERTIES
    RequestsAnswered
    HealthFollows
