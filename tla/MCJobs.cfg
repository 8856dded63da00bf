SPECIFICATION JobsFair
CONSTANTS
    Workers = {w1, w2}
    Putters = {s1, s2}
    Jobs = {j1, j2, j3}
    MaxModules = 3
    MaxLost = 1
CHECK_DEADLOCK FALSE
INVARIANTS
    RunsOnce
    NoForgottenJob
    CleanEnd
    UndoSafe
PROPERTIES
    StopEndsWorkers
    StopIsSeen
