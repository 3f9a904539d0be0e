\* The project has one symbol more than the search looks at.
SPECIFICATION Spec
CONSTANTS
    Nodes <- MCNodes
    Rank <- MCRank
    Graphs <- MCGraphs
    Queries <- MCQueries
    MaxEdges = 1
    MAX_REACH_HOPS = 3
    MAX_REACH_RESULTS = 4
    MAX_CYCLE_LEN = 3
    DEFAULT_LIMIT = 4
    None = None
INVARIANT CyclesComplete
