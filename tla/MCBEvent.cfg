SPECIFICATION FairSpec
CONSTANTS
    Workers = {w1, w2}
    Pools = {{w1}, {w1, w2}}
    NoThread = NoThread
    Watch <- MCWatch
    Happens <- MCHappens
    MaxJobs = 1
CHECK_DEADLOCK FALSE
INVARIANTS
    OneThread
    NotHidden
PROPERTIES
    SingleThreadServes
