SPECIFICATION CorralSpec

CONSTANTS
    Threads = {t1, t2}
    Monitor = Monitor
    NoThread = NoThread
    AddrMax = 5
    Width = 16
    Sizes = {1}
    MaxSegs = 3
    StartSize = 1
    GrowFloor = 1
    MaxReserved = 3
    MaxBlocks = 1

SYMMETRY CorralSymmetry

INVARIANTS
    SlotIsBacked
    BlocksAccounted
    ReleaseReachesOwner
    PeakBounds

CHECK_DEADLOCK FALSE
