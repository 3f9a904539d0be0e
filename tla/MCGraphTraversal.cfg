SPECIFICATION Spec
CONSTANTS
    Nodes <- MCNodes
    Rank <- MCRank
    Graphs <- MCGraphs
    Queries <- MCQueries
    MaxEdges = 4
    MAX_REACH_HOPS = 3
    MAX_REACH_RESULTS = 4
    MAX_CYCLE_LEN = 3
    DEFAULT_LIMIT = 4
    None = None
INVARIANTS
    BreadthFirstExact
    BudgetHonest
    DepthFirstExact
