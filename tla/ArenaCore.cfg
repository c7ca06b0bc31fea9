SPECIFICATION ArenaFairSpec

CONSTANTS
    ArenaSize = 10
    Granularity = 2
    Sizes = {1, 3, 4}
    TopDownBytes = 4
    MaxSizeClasses = 2
    MaxCachedPerClass = 2
    NodeCap = 3
    MaxRequests = 5

INVARIANTS
    NoOverlap
    NodesAccounted
    StatsAddUp
    FreeListCoalesced

PROPERTIES
    FailureJustified
    ShutdownIsFinal
    ImplementsContract
    LockHandedBack

CHECK_DEADLOCK FALSE
