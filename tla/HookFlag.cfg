SPECIFICATION HookSpec

CONSTANTS
    Threads = {t1}
    Slots = {s1}
    None = None
    VatMax = 1
    DirectNt = TRUE
    RealHeapCanFail = FALSE

INVARIANT
    FlagClearInGame

CHECK_DEADLOCK FALSE
