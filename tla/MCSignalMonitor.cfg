SPECIFICATION Spec
CONSTANTS
    Workers = {w1, w2}
    MaxSignals = 5
    MaxCount = 1
    Batch = 2
    PoolDrops = TRUE
CHECK_DEADLOCK FALSE
INVARIANTS
    OneProcessor
    NoneUnattended
PROPERTY
    InOrder
