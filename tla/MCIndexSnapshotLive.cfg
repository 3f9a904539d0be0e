\* Queries with inline reindexing of a file that grows, breaks and is repaired,
\* with one crash, failure or revert.
CONSTANTS
    Files = {f1}
    Procs = {p1, p2}
    Inodes = {n1, n2, n3}
    None = None
    Shape <- Troubled
    AutoReindex = TRUE
    Background = FALSE
    Reverts = TRUE
    Limited = FALSE
    Stranded = FALSE
    MaxVersion = 3
    MaxRuns = 0
    MaxFaults = 1
SPECIFICATION FairSpec
PROPERTIES QueriesServed
