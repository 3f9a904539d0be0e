\* Two processes, two files, one edit of each, crashes and corruption.
CONSTANTS
    Files = {f1, f2}
    Procs = {p1, p2}
    Inodes = {n1, n2, n3}
    None = None
    Shape <- Texts
    AutoReindex = TRUE
    Background = TRUE
    Reverts = FALSE
    Limited = TRUE
    Stranded = TRUE
    MaxVersion = 2
    MaxRuns = 1
    MaxFaults = 1
SPECIFICATION Spec
SYMMETRY Symmetry
INVARIANTS TypeOK LiveTempKept OneTemp
PROPERTIES HandleImmutable FreshMeansCurrent GenerationGrows
           FirstUseReplacesNothing ImplementsAtomicSnapshot
