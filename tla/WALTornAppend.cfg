SPECIFICATION Spec
CONSTANTS
    Size <- MCSize
    SegmentMaxSize = 4
    WriteErrors = TRUE
    CreateErrors = FALSE
    PowerLoss = FALSE
    MaxSegment = 4
    MaxCrashes = 2
INVARIANTS
    AckedReadable
CHECK_DEADLOCK FALSE
