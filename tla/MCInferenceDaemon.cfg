\* Two connections and two readers, so that each queue can be full and one
\* request can overtake another.
SPECIFICATION FairSpec
CONSTANTS
    Conns = {c1, c2}
    Readers = {r1, r2}
    NoConn = NoConn
    AcceptCap = 1
    JobCap = 1
INVARIANT TypeOK
INVARIANT PendingExact
INVARIANT ReadyMeansLoaded
PROPERTY ExitDrained
PROPERTY WatchdogSound
PROPERTY ReplyOnce
PROPERTY EventuallyClosed
PROPERTY EventuallyExits
CHECK_DEADLOCK FALSE
