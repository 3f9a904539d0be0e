SPECIFICATION FairSpec
CONSTANTS
    Clients = {a, b}
    Daemons = {d1, d2}
    None = None
    Stale = Stale
    Retries = 1
    MaxFaults = 1
INVARIANTS TypeOK OneOwner ReachableServer
PROPERTY ServiceRecovers
PROPERTY CallReturns
