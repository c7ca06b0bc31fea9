SPECIFICATION GateSpec

CONSTANTS
    GameThreads = {t1, t2}
    ProcessHeaps = {h1, h2}
    Modules = {game, driver, sound}
    Graphics = {driver}
    Audio = {sound}
    MaxHeaps = 1
    MaxModules = 2

INVARIANT AudioHandsOff

CHECK_DEADLOCK FALSE
