SPECIFICATION CompanionSpec

CONSTANTS
    Proactive = 6
    Pressure = 3
    BeatGap = 2
    SampleEvery = 4
    HeapSizes = {5, 7}
    Word = 16

INVARIANTS
    RequestsKeepComing
    ReadIsPublished

PROPERTY
    RequestServed

CHECK_DEADLOCK FALSE
