SPECIFICATION HeartbeatSpec

CONSTANTS
    Levels = {800, 950, 1000, 1040}
    ShortSleep = 2
    LongSleep = 5
    ShortBeats = 4
    MaxBeat = 5
    StopWait = 6
    MinWorld = 45

INVARIANT
    StopJoins

PROPERTIES
    ExitAfterDwell
    StableTakesBeats

CHECK_DEADLOCK FALSE
