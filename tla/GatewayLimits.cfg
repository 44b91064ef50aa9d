SPECIFICATION BenchSpec
SYMMETRY Symmetry
CONSTANTS
    Backends <- OneBackend
    Weight <- MCWeight
    Serves <- MCServes
    Configured = {}
    Models = {"m"}
    RPS <- ZeroRPS
    Requests = {r1, r2, r3}
    ModelOf <- MCModelOf
    NoModel = NoModel
    Grain = 1
    MaxTime = 3
    MaxFlips = 0
    Sent = {r1, r2}
    Concurrency = 1
    ClientTimeout = 2
    r1 = r1
    r2 = r2
    r3 = r3
INVARIANTS
    GatewayTypeOK
    RateRespected
    SummaryTruthful
    PercentilesRight
