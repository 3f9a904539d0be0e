-------------------------- MODULE MCGraphTraversal --------------------------
(* Every graph of at most MaxEdges edges over four nodes, and every part   *)
(* of a graph with a detour over the five, the edges numbered in both      *)
(* orders; the names sort unlike the ids.                                  *)
EXTENDS GraphTraversal, TLC

CONSTANT MaxEdges

MCNodes == 1..5
MCRank == [n \in MCNodes |-> (3 * n) % 7]

Edge(s, t) == [src |-> s, tgt |-> t]
Ascending(k, top) == {q \in [1..k -> 1..top] :
                        \A i \in 1..(k - 1) : q[i] < q[i + 1]}
Small == {[i \in DOMAIN q |-> Edge(((q[i] - 1) \div 4) + 1, ((q[i] - 1) % 4) + 1)] :
            q \in UNION {Ascending(k, 16) : k \in 0..MaxEdges}}
Detour == <<Edge(1, 2), Edge(1, 5), Edge(2, 3), Edge(3, 4), Edge(4, 5), Edge(5, 4)>>
Parts == {[i \in DOMAIN q |-> Detour[q[i]]] :
            q \in UNION {Ascending(k, 6) : k \in 0..6}}
MCGraphs == LET asc == Small \cup Parts IN asc \cup {Reverse(g) : g \in asc}

Ask(kind, start, goal, dir, hops, limit) ==
    [kind |-> kind, start |-> start, goal |-> goal, dir |-> dir,
     hops |-> hops, limit |-> limit]
MCQueries ==
    {Ask("reach", 1, 1, d, h, l) : d \in {"out", "in"}, h \in {0, 1, 4}, l \in {0, 2, 5}} \cup
    {Ask("path", 1, g, d, h, 1) : g \in {1, 2, 5}, d \in {"out", "in"}, h \in {0, 2, 4}} \cup
    {Ask("trace", 1, 1, d, h, 1) : d \in {"out", "in"}, h \in {0, 2, 4}} \cup
    {Ask("cluster", 1, 1, "out", 1, l) : l \in {0, 2, 3, 6}} \cup
    {Ask("subgraph", 1, 1, "out", h, 1) : h \in {0, 1, 2, 4}} \cup
    {Ask("tree", 1, 1, d, h, 1) : d \in {"out", "in"}, h \in {2, 4}} \cup
    {Ask("cycles", 1, 1, "out", h, l) : h \in {0, 2, 5}, l \in {0, 1, 3}} \cup
    {Ask("hierarchy", 1, 1, d, h, 1) : d \in {"out", "in"}, h \in {0, 1, 3}} \cup
    {Ask(k, 9, 1, "out", 2, 2) : k \in {"reach", "path", "trace", "cluster", "subgraph",
                                        "tree", "hierarchy"}} \cup
    {Ask("path", 1, 9, "out", 2, 2), Ask("path", 9, 9, "out", 2, 2)}
=============================================================================
