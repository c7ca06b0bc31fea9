SPECIFICATION HookSpec

CONSTANTS
    Threads = {t1}
    Slots = {s1}
    None = None
    VatMax = 1
    DirectNt = FALSE
    RealHeapCanFail = TRUE

INVARIANT
    FailedReallocKeepsBlock

CHECK_DEADLOCK FALSE
