SPECIFICATION FairSpec
CONSTANTS
    Queries = {q1, q2}
    Pids = {p1, p2}
    Others = {o1}
    None = None
    MaxFaults = 2
INVARIANTS
    TypeOK
    OneJob
    SeenRecordStaysRemoved
PROPERTY RefreshHappens
