SPECIFICATION AllSpec
CONSTANTS
    Names = {expire, timeout}
    Nsec = 4
    Word = 9
    Bases = {1, 5}
    Factors = {1, 3}
    Counts = {1, 3}
    MaxClock = 5
    MaxInstant = 19
    Data <- Data4
    MaxSize = 7
    Strings = {s1, s2}
    Blocks = {k1, k2}
    Line <- Line4
    Mark = "="
    MaxBytes = 2
    NoBlock = NoBlock
    Requests <- SomeRequests
    Rooms = {47, 80, 300}
    TableSize = 3
    TextSize = 10
INVARIANTS
    DeadlineExact
    OrderExact
    PathSound
    StringSound
    HeardAsMeant
