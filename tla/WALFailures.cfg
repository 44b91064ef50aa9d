SPECIFICATION Spec
CONSTANTS
    Size <- MCSize
    SegmentMaxSize = 4
    WriteErrors = TRUE
    CreateErrors = TRUE
    PowerLoss = TRUE
    MaxSegment = 4
    MaxCrashes = 2
INVARIANTS
    WALTypeOK
    ReplayInOrder
    IntactReadable
PROPERTIES
    SegmentsOnlyGrow
CHECK_DEADLOCK FALSE
