SPECIFICATION Spec
CONSTANTS
    Threads = {t1, t2}
    Exporters = {x1}
    Ids = {1, 2, 3}
    Unreadable <- MCUnreadable
    System = {2}
    MaxChanges = 4
INVARIANTS
    NoMissedChange
    TextIsOwn
    MergeExact
    ToldIsTable
