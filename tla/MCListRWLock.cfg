SPECIFICATION HFairSpec
CONSTANTS
    e1 = e1
    e2 = e2
    t1 = t1
    t2 = t2
    t3 = t3
    t4 = t4
    t5 = t5
    Threads = {t1, t2, t3, t4, t5}
    Crews <- AllCrews
    Width = 8
    NoThread = NoThread
    Elements = {e1, e2}
    IdWidth = 2
    Size = 2
    Row = 1
    NoElement = NoElement
    NoId = NoId
INVARIANTS
    OrderlyExclusive
    FlagsExact
    NoForgottenSleeper
    HandedOnce
PROPERTIES
    WriterServed
    MissIsRight
