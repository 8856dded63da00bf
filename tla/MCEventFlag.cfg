SPECIFICATION FairSpec
CONSTANTS
    NoThread = NoThread
    Threads = {t1, t2}
    LockFlags = {lk}
    StateFlags = {st}
INVARIANTS
    TypeOK
    MutualExclusion
    NoLostWakeup
    WaitResultExact
    OneWinner
PROPERTIES
    ImplementsFlagLock
    WaitersServed
