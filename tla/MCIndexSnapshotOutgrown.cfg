\* Queries of a workspace in which a file grows above the size cap, without
\* faults.
CONSTANTS
    Files = {f1}
    Procs = {p1}
    Inodes = {n1, n2, n3}
    None = None
    Shape <- Troubled
    AutoReindex = TRUE
    Background = FALSE
    Reverts = FALSE
    Limited = FALSE
    Stranded = FALSE
    MaxVersion = 2
    MaxRuns = 0
    MaxFaults = 0
SPECIFICATION FairSpec
PROPERTIES OversizeFilesSkipped
