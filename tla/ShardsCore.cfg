SPECIFICATION HeapShardsSpec

CONSTANTS
    Threads = {t1, t2}
    Creators = {t1}
    Heaps = {h1, x1, x2}
    Exec = {x1, x2}
    ArenaSlots = 1
    Positions = 2
    ShardCount = 2
    ShardSize = 2
    MaxExec = 1
    LongMax = 3
    NoHeap = NoHeap

SYMMETRY ShardSymmetry

INVARIANTS
    BlockHasOwner
    CarvesAccounted
    NullMeansFull
    ExecNotRedirected

CHECK_DEADLOCK FALSE
