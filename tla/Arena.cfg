CONSTANTS
    FailureToleranceCount = 1
    FailureCounterThreshold = 16
    BigChunkThreshold = 24
    DefaultPoolBlockSize = 40
    MaximumPoolBlockSize = 80
    Types <- MCTypes
    MaxAllocations = 8
SPECIFICATION Spec
INVARIANT ChunksAreSound
PROPERTIES
    RefinesAllocator
    AllocationsEnd
CHECK_DEADLOCK FALSE
