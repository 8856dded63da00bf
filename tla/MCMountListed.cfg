SPECIFICATION Spec
CONSTANTS
    Threads = {t1}
    Exporters = {}
    Ids = {1, 2, 3}
    Unreadable = {}
    System = {}
    MaxChanges = 4
INVARIANT
    EveryMountListed
