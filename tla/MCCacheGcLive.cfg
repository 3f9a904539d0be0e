\* A store, two processes, two faults, collections that are not throttled.
CONSTANTS
    Stores = {s}
    Models = {}
    Procs = {p1, p2}
    None = None
    Kinds = {"auto", "clear"}
    Size <- UnitSize
    High = 0
    Low = 0
    Ttl = 1
    Gap = 1
    Grace = 0
    Interval = 0
    MaxTime = 0
    MaxFaults = 2
SPECIFICATION FairSpec
INVARIANTS TypeOK
PROPERTIES TrashResumed CommandsReturn
