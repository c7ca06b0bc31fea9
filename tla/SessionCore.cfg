SPECIFICATION SessionSpec

CONSTANTS
    MaxPolls = 2
    Callers = {c1, c2}
    HookUsers = {c1}
    MaxQueue = 2

INVARIANTS
    
    
    StrandedOnlyByUnload
    ExitCodeTellsTruth
    PathBufferHandled

PROPERTIES
    CaptureLogged
    LauncherReturns

CHECK_DEADLOCK FALSE
