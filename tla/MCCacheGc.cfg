\* A store and a model, a clock that passes the TTL and the orphan grace time.
CONSTANTS
    Stores = {s}
    Models = {m}
    Procs = {p1, p2}
    None = None
    Kinds = {"auto", "dry", "clear"}
    Size <- UnitSize
    High = 1
    Low = 0
    Ttl = 1
    Gap = 1
    Grace = 1
    Interval = 1
    MaxTime = 2
    MaxFaults = 0
SPECIFICATION Spec
SYMMETRY Symmetry
INVARIANTS LeasedKept QuotaMet
PROPERTY OnlyVerifiedRemoved
