SPECIFICATION ScanSpec

CONSTANTS
    Threads = {t1, t2}
    Viewers = {t1, t2}
    Keys = {0, 2, 4}
    Slots = 3
    MaxProbe = 2
    MaxMarks = 2
    Packages = {p1, p2, p3}
    Scripted = {p1, p2}
    KeyA <- MCKeyA
    KeyW <- MCKeyW
    NameOf <- MCNameOf
    Names = {n1, n2}
    LongNames = {n2}
    MaxFiles = 2
    p1 = p1
    p2 = p2
    p3 = p3
    n1 = n1
    n2 = n2

SYMMETRY ScanSymmetry

INVARIANTS
    KeyStoredOnce
    PressureMeansFull
    SomeoneReports
    CountedOnce
    CountedInTheEnd
    FileListedOnce

CHECK_DEADLOCK FALSE
