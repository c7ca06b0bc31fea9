SPECIFICATION LoggerSpec

CONSTANTS
    Writers = {w1, w2}
    MaxMessages = 2
    Telemetry = FALSE

INVARIANT
    CrashLogKept

CHECK_DEADLOCK FALSE
