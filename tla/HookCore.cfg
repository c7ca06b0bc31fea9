SPECIFICATION HookSpec

CONSTANTS
    Threads = {t1, t2, t3}
    Slots = {s1, s2, s3}
    None = None
    VatMax = 3
    DirectNt = TRUE
    RealHeapCanFail = FALSE

SYMMETRY HookSymmetry

INVARIANTS
    HeldIsUsable
    OneOwner
    FreeSlotsClean
    SlotsAccounted

PROPERTY
    NoStrayWhileRunning

CHECK_DEADLOCK FALSE
