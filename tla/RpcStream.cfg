SPECIFICATION Spec
CONSTANTS
    s1 = s1
    f1 = f1
    Subscribers <- MCSubscribers
    Filters <- MCFilters
    MinQueueLen = 1
    SegmentSize = 2
    Capacity = 2
    FilterCap = 1
    MaxBatch = 2
    MaxItems = 7
INVARIANTS
    TypeOK
    HoldsNewest
    CapacityKept
PROPERTIES
    InOrder
    NoGapWithinCapacity
    
    SignalledCatchesUp
    CancelEnds
CHECK_DEADLOCK FALSE
