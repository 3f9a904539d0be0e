--------------------------- MODULE GraphTraversal ---------------------------
(***************************************************************************)
(* The bounded traversals behind the graph queries (crates/search/src/     *)
(* graph.rs, trace.rs): reachability, shortest path, trace, dependency     *)
(* cluster, subgraph, call tree, call cycles and call hierarchy.  One      *)
(* query runs to its end over one graph; a step takes an entry off the     *)
(* queue, or the next edge of the depth-first walk.                        *)
(*                                                                         *)
(* The graph holds the edges of the types the query asks for; an edge's id *)
(* is its position.  Per-node fan-out caps are above every node's degree.  *)
(***************************************************************************)
EXTENDS Integers, Sequences, FiniteSets, SequencesExt

CONSTANTS
    Nodes,              \* node ids
    Rank,               \* Rank[n]: the place of n's qualified name
    Graphs,             \* sequences of edges
    Queries,            \* what may be asked
    MAX_REACH_HOPS,
    MAX_REACH_RESULTS,
    MAX_CYCLE_LEN,
    DEFAULT_LIMIT,      \* rows search_graph hands to cycles
    None                \* no path

Walks == {"reach", "path", "trace", "cluster", "subgraph", "tree", "cycles",
          "hierarchy"}

ASSUME GraphAssumption ==
    /\ IsFiniteSet(Nodes) /\ Nodes \subseteq Nat /\ Rank \in [Nodes -> Nat]
    /\ Graphs \subseteq Seq([src : Nodes, tgt : Nodes])
    /\ Queries \subseteq [kind : Walks, start : Int, goal : Int,
                          dir : {"out", "in"}, hops : Nat, limit : Nat]
    /\ {MAX_REACH_HOPS, MAX_REACH_RESULTS, MAX_CYCLE_LEN, DEFAULT_LIMIT}
          \subseteq Nat \ {0}

VARIABLES
    graph, query, pc,
    queue,      \* nodes to expand, with the depth they were reached at
    seen,       \* node |-> depth it was first reached at
    pred,       \* node |-> the node that reached it first
    path,       \* the depth-first walk: the nodes from its start
    rest,       \* for each of them the neighbours still to look at
    starts,     \* the start nodes a cycle search has left, in order
    result,     \* what the query returns (cycles, hierarchies: a set)
    truncated   \* DependencyCluster.truncated

vars == <<graph, query, pc, queue, seen, pred, path, rest, starts, result,
          truncated>>
walk == <<path, rest, starts>>

Row(n, d) == [node |-> n, depth |-> d]
TreeRow(r, c) == [node |-> r.node, depth |-> r.depth, children |-> c]

(* The elements of DOMAIN before in order: before[x] holds those before x. *)
Enumerate(before) ==
    [i \in 1..Cardinality(DOMAIN before) |->
       CHOOSE x \in DOMAIN before : Cardinality(before[x]) = i - 1]

(* What s holds at the positions in I, in order.                           *)
Pick(s, I) == LET at == Enumerate([i \in I |-> {j \in I : j < i}])
              IN [k \in DOMAIN at |-> s[at[k]]]
Keep(s, S) == Pick(s, {i \in DOMAIN s : s[i] \in S})
Prefix(s, n) == SubSeq(s, 1, IF Len(s) <= n THEN Len(s) ELSE n)

(* outgoing_edges, incoming_edges: in edge-id order.                       *)
Targets(g, n) == LET I == {i \in DOMAIN g : g[i].src = n}
                 IN Pick([i \in DOMAIN g |-> g[i].tgt], I)
Sources(g, n) == LET I == {i \in DOMAIN g : g[i].tgt = n}
                 IN Pick([i \in DOMAIN g |-> g[i].src], I)
Ends(g, n, dir) == CASE dir = "out" -> Targets(g, n)
                     [] dir = "in" -> Sources(g, n)
                     [] OTHER -> Targets(g, n) \o Sources(g, n)

Least(a, b) == IF a <= b THEN a ELSE b
Way(q) == IF q.kind \in {"cluster", "subgraph"} THEN "both" ELSE q.dir
Hops(q) == IF q.kind \in {"reach", "path", "subgraph"}
           THEN Least(q.hops, MAX_REACH_HOPS) ELSE q.hops
Limit(q) == Least(q.limit, MAX_REACH_RESULTS)
CycleLen(q) == Least(q.hops, MAX_CYCLE_LEN)

(* How many nodes a walk may collect.                                      *)
Budget(q) == CASE q.kind = "cluster" -> IF Limit(q) = 0 THEN 1 ELSE Limit(q)
               [] q.kind = "subgraph" -> MAX_REACH_RESULTS
               [] OTHER -> Cardinality(Nodes) + 1

(* The nodes cycles looks at: search_graph's rows, by name and then by id. *)
NamedBefore(a, b) == Rank[a] < Rank[b] \/ (Rank[a] = Rank[b] /\ a < b)
Scope == Prefix(Enumerate([n \in Nodes |-> {m \in Nodes : NamedBefore(m, n)}]),
                DEFAULT_LIMIT)

PushFront(q, rows) == rows \o q
PushBack(q, rows) == q \o rows

(* The budget is spent and m is not part of the collected nodes.           *)
OverBudgetAny(nodes, m, cap) == Cardinality(nodes) >= cap
OverBudget(nodes, m, cap) == m \notin nodes /\ Cardinality(nodes) >= cap

(* Of the neighbours of a node those not seen yet, each once, in order; as *)
(* many as the budget leaves room for are taken.                           *)
Fresh(next) == Pick(next, {i \in DOMAIN next :
                             /\ next[i] \notin DOMAIN seen
                             /\ \A j \in 1..(i - 1) : next[j] # next[i]})
Taken(next, cap) == Prefix(Fresh(next), cap - Cardinality(DOMAIN seen))

(* One run over the neighbours of the head of the queue: what is taken is  *)
(* recorded and queued one level deeper.                                   *)
Discover(next, cap) ==
    LET h == Head(queue)
        new == Taken(next, cap)
        all == DOMAIN seen \cup ToSet(new)
    IN /\ queue' = PushBack(Tail(queue),
                            [i \in DOMAIN new |-> Row(new[i], h.depth + 1)])
       /\ seen' = [m \in all |-> IF m \in DOMAIN seen THEN seen[m] ELSE h.depth + 1]
       /\ pred' = [m \in DOMAIN pred \cup ToSet(new) |->
                      IF m \in DOMAIN pred THEN pred[m] ELSE h.node]
Drop == queue' = Tail(queue) /\ UNCHANGED <<seen, pred>>

-----------------------------------------------------------------------------
(* The answers given without a walk: a start that does not exist, a zero   *)
(* bound, a path from a node to itself.                                    *)
Empty(q) ==
    CASE q.kind \in {"path", "cluster", "subgraph"} -> None
      [] q.kind \in {"reach", "trace", "tree"} -> <<>>
      [] OTHER -> {}

Immediate(q) ==
    \/ q.kind # "cycles" /\ q.start \notin Nodes
    \/ q.kind = "reach" /\ (q.hops = 0 \/ q.limit = 0)
    \/ q.kind = "path" /\ (q.goal \notin Nodes \/ q.start = q.goal \/ q.hops = 0)
    \/ q.kind = "cycles" /\ (q.hops = 0 \/ q.limit = 0)

Answer(q) ==
    IF q.kind = "path" /\ q.start = q.goal /\ q.start \in Nodes
    THEN <<q.start>> ELSE Empty(q)

Expands(q) == q.kind = "hierarchy" /\ q.start \in Nodes /\ q.hops > 0

Init ==
    /\ graph \in Graphs /\ query \in Queries
    /\ pc = IF Immediate(query) THEN "done" ELSE "run"
    /\ queue = IF query.start \in Nodes THEN <<Row(query.start, 0)>> ELSE <<>>
    /\ seen = [n \in IF query.kind = "trace" THEN {} ELSE {query.start} \cap Nodes |-> 0]
    /\ pred = <<>> /\ truncated = FALSE
    /\ result = IF Immediate(query) THEN Answer(query)
                ELSE IF query.kind = "hierarchy"
                     THEN {[path |-> <<query.start>>, cyclic |-> FALSE,
                            truncated |-> query.hops = 0]}
                     ELSE IF query.kind = "tree" THEN <<TreeRow(Row(query.start, 0), <<>>)>>
                          ELSE Empty(query)
    /\ path = IF Expands(query) THEN <<query.start>> ELSE <<>>
    /\ rest = IF Expands(query) THEN <<Ends(graph, query.start, query.dir)>> ELSE <<>>
    /\ starts = IF query.kind = "cycles" THEN Scope ELSE <<>>

Runs(kind) == pc = "run" /\ query.kind = kind
Done(kind) == Runs(kind) /\ queue = <<>>

(* reachable_within_any_edge_type.                                         *)
Neighbourhood == Ends(graph, Head(queue).node, Way(query))
AtBound == Head(queue).depth >= Hops(query)
ReachStep ==
    /\ Runs("reach") /\ queue # <<>>
    /\ IF AtBound THEN Drop ELSE Discover(Neighbourhood, Budget(query))
    /\ UNCHANGED <<graph, query, pc, walk, result, truncated>>

Nearer(a, b) == \/ a.depth < b.depth
                \/ a.depth = b.depth /\ NamedBefore(a.node, b.node)
ReachDone ==
    /\ Done("reach") /\ pc' = "done"
    /\ LET rows == {Row(n, seen[n]) : n \in DOMAIN seen \ {query.start}}
       IN result' = Prefix(Enumerate([r \in rows |-> {a \in rows : Nearer(a, r)}]),
                           Limit(query))
    /\ UNCHANGED <<graph, query, queue, seen, pred, walk, truncated>>

(* path_query: the walk ends when the goal is first seen.                  *)
Back(from, p, n, bound) ==
    LET chain[k \in Nat] ==
          IF k = 0 THEN <<n>>
          ELSE LET c == chain[k - 1]
               IN IF c[1] = from \/ c[1] \notin DOMAIN p THEN c ELSE <<p[c[1]]>> \o c
    IN chain[bound]

PathStep ==
    /\ Runs("path") /\ queue # <<>>
    /\ IF AtBound THEN Drop ELSE Discover(Neighbourhood, Budget(query))
    /\ IF query.goal \in DOMAIN seen'
       THEN /\ pc' = "done"
            /\ result' = Back(query.start, pred', query.goal, Hops(query))
       ELSE UNCHANGED <<pc, result>>
    /\ UNCHANGED <<graph, query, walk, truncated>>

(* trace_path: a node is marked when it leaves the queue, so the queue may *)
(* hold it several times.                                                  *)
TraceStep ==
    /\ Runs("trace") /\ queue # <<>>
    /\ LET h == Head(queue)
           marked == DOMAIN seen \cup {h.node}
           next == Keep(Neighbourhood, Nodes \ marked)
           more == [i \in DOMAIN next |-> Row(next[i], h.depth + 1)]
       IN IF h.node \in DOMAIN seen
          THEN queue' = Tail(queue) /\ UNCHANGED <<seen, result>>
          ELSE /\ seen' = [m \in marked |-> IF m = h.node THEN h.depth ELSE seen[m]]
               /\ result' = Append(result, h)
               /\ queue' = IF AtBound THEN Tail(queue) ELSE PushBack(Tail(queue), more)
    /\ UNCHANGED <<graph, query, pc, pred, walk, truncated>>

(* dependency_cluster: both directions, no hop bound, a node budget.       *)
ClusterStep ==
    /\ Runs("cluster") /\ queue # <<>>
    /\ Discover(Neighbourhood, Budget(query))
    /\ truncated' = (truncated \/ \E m \in ToSet(Neighbourhood) :
                                      OverBudget(DOMAIN seen', m, Budget(query)))
    /\ UNCHANGED <<graph, query, pc, walk, result>>

ClusterDone ==
    /\ Done("cluster") /\ pc' = "done" /\ result' = DOMAIN seen
    /\ UNCHANGED <<graph, query, queue, seen, pred, walk, truncated>>

(* subgraph_around: both directions, a hop bound and a node budget, then   *)
(* the edges between the collected nodes.                                  *)
SubgraphStep ==
    /\ Runs("subgraph") /\ queue # <<>>
    /\ IF AtBound THEN Drop ELSE Discover(Neighbourhood, Budget(query))
    /\ UNCHANGED <<graph, query, pc, walk, result, truncated>>

SubgraphDone ==
    /\ Done("subgraph") /\ pc' = "done"
    /\ result' = [nodes |-> DOMAIN seen,
                  edges |-> {e \in ToSet(graph) : {e.src, e.tgt} \subseteq DOMAIN seen}]
    /\ UNCHANGED <<graph, query, queue, seen, pred, walk, truncated>>

(* call_tree: a node is placed once, where it is reached first; a node     *)
(* that was placed before is still a child.                                *)
TreeStep ==
    /\ Runs("tree") /\ queue # <<>>
    /\ LET h == Head(queue)
           next == Keep(Neighbourhood, Nodes \ {h.node})
           placed == Taken(next, Budget(query))
       IN IF AtBound THEN Drop /\ UNCHANGED result
          ELSE /\ Discover(next, Budget(query))
               /\ result' = [i \in DOMAIN result |->
                                IF result[i].node = h.node
                                THEN TreeRow(h, next) ELSE result[i]]
                            \o [i \in DOMAIN placed |->
                                  TreeRow(Row(placed[i], h.depth + 1), <<>>)]
    /\ UNCHANGED <<graph, query, pc, walk, truncated>>

(* The queue of a path, a trace or a tree is exhausted.                    *)
WalkDone ==
    /\ \E kind \in {"path", "trace", "tree"} : Done(kind)
    /\ pc' = "done"
    /\ UNCHANGED <<graph, query, queue, seen, pred, walk, result, truncated>>

-----------------------------------------------------------------------------
(* The depth-first walks.                                                  *)

Leave == path' = Front(path) /\ rest' = Front(rest)
Skip == path' = path /\ rest' = [rest EXCEPT ![Len(rest)] = Tail(@)]
Descend(n, next) ==
    /\ path' = Append(path, n)
    /\ rest' = Append([rest EXCEPT ![Len(rest)] = Tail(@)], next)
OnPath(n) == \E i \in DOMAIN path : path[i] = n
Walking(kind) == Runs(kind) /\ path # <<>>
NextNode == Head(Last(rest))

(* cycles: a search from every node of the scope, restricted to larger ids.*)
InScope(s) == Keep(s, ToSet(Scope))
CycleStart ==
    /\ Runs("cycles") /\ path = <<>> /\ starts # <<>>
    /\ starts' = Tail(starts)
    /\ path' = <<Head(starts)>> /\ rest' = <<InScope(Ends(graph, Head(starts), "out"))>>
    /\ UNCHANGED <<graph, query, pc, queue, seen, pred, result, truncated>>

(* dfs_cycles, one edge.                                                   *)
ExtendsCycleAnyId(n) == ~OnPath(n) /\ Len(path) < CycleLen(query)
ExtendsCycle(n) ==
    n > Head(path) /\ ~OnPath(n) /\ Len(path) < CycleLen(query)
CycleStep ==
    /\ Walking("cycles")
    /\ \/ Last(rest) = <<>> /\ Leave /\ UNCHANGED result
       \/ /\ Last(rest) # <<>> /\ NextNode = Head(path) /\ Skip
          /\ result' = IF Len(path) <= CycleLen(query) THEN result \cup {path} ELSE result
       \/ /\ Last(rest) # <<>> /\ NextNode # Head(path) /\ UNCHANGED result
          /\ IF ExtendsCycle(NextNode)
             THEN Descend(NextNode, InScope(Ends(graph, NextNode, "out")))
             ELSE Skip
    /\ UNCHANGED <<graph, query, pc, queue, seen, pred, starts, truncated>>

(* The smallest cycles survive the limit.                                  *)
Smaller(a, b) ==
    \/ Len(a) < Len(b)
    \/ Len(a) = Len(b) /\ \E i \in DOMAIN a :
          a[i] < b[i] /\ \A j \in 1..(i - 1) : a[j] = b[j]
CyclesDone ==
    /\ Runs("cycles") /\ path = <<>> /\ starts = <<>> /\ pc' = "done"
    /\ LET sorted == Enumerate([c \in result |-> {d \in result : Smaller(d, c)}])
       IN result' = ToSet(Prefix(sorted, query.limit))
    /\ UNCHANGED <<graph, query, queue, seen, pred, walk, truncated>>

(* expand_hierarchy, one edge: a self-loop or a neighbour that is already  *)
(* a child is skipped, an ancestor becomes a cyclic leaf, a node at the    *)
(* depth bound a truncated one.                                            *)
Child(n, cyclic, cut) ==
    [path |-> Append(path, n), cyclic |-> cyclic, truncated |-> cut]
BackEdge(n) == OnPath(n)
HierarchyStep ==
    /\ Walking("hierarchy")
    /\ \/ Last(rest) = <<>> /\ Leave /\ UNCHANGED result
       \/ /\ Last(rest) # <<>>
          /\ LET n == NextNode
                 deep == Len(path) >= Hops(query)
             IN IF n = Last(path) \/ \E c \in result : c.path = Append(path, n)
                THEN Skip /\ UNCHANGED result
                ELSE /\ result' = result \cup {Child(n, BackEdge(n), ~BackEdge(n) /\ deep)}
                     /\ IF BackEdge(n) \/ deep THEN Skip ELSE Descend(n, Ends(graph, n, query.dir))
    /\ UNCHANGED <<graph, query, pc, queue, seen, pred, starts, truncated>>

HierarchyDone ==
    /\ Runs("hierarchy") /\ path = <<>> /\ pc' = "done"
    /\ UNCHANGED <<graph, query, queue, seen, pred, walk, result, truncated>>

Answered == pc = "done" /\ UNCHANGED vars

Next ==
    \/ ReachStep \/ ReachDone \/ PathStep \/ TraceStep \/ TreeStep \/ WalkDone
    \/ ClusterStep \/ ClusterDone \/ SubgraphStep \/ SubgraphDone
    \/ CycleStart \/ CycleStep \/ CyclesDone \/ HierarchyStep \/ HierarchyDone
    \/ Answered

Spec == Init /\ [][Next]_vars

-----------------------------------------------------------------------------
Answers(kind) == pc = "done" /\ query.kind = kind

(* One edge leads from a to b.                                             *)
EdgeBetween(g, a, b, dir) ==
    \E i \in DOMAIN g : \/ dir # "in" /\ g[i].src = a /\ g[i].tgt = b
                        \/ dir # "out" /\ g[i].tgt = a /\ g[i].src = b

(* The nodes at most k edges among S away from a, by definition.           *)
Ball(g, a, dir, S, k) ==
    LET ball[i \in Nat] ==
          IF i = 0 THEN {a}
          ELSE LET near == ball[i - 1]
               IN near \cup {m \in S : \E c \in near : EdgeBetween(g, c, m, dir)}
    IN ball[k]
Sphere(g, a, dir, k) ==
    Ball(g, a, dir, Nodes, k) \ (IF k = 0 THEN {} ELSE Ball(g, a, dir, Nodes, k - 1))
(* Every node at most hops edges away, with its distance.                  *)
Distances(g, a, dir, hops) ==
    IF a \in Nodes THEN UNION {{Row(n, k) : n \in Sphere(g, a, dir, k)} : k \in 0..hops}
    ELSE {}

(* reachable_within: the rows are the other nodes within the clamped hop   *)
(* bound, each once, at its exact distance, nearest first and by name, and *)
(* a result cut at the limit leaves out only rows that sort after it.      *)
ReachExact ==
    Answers("reach") =>
      LET size == Least(query.limit, MAX_REACH_RESULTS)
          hops == Least(query.hops, MAX_REACH_HOPS)
          all == {r \in Distances(graph, query.start, query.dir, hops) :
                    r.node # query.start}
      IN /\ ToSet(result) \subseteq all
         /\ Len(result) = Least(Cardinality(all), size)
         /\ \A i, j \in DOMAIN result : i < j => Nearer(result[i], result[j])
         /\ \A r \in all \ ToSet(result), i \in DOMAIN result : Nearer(result[i], r)

(* path_query: a path is found exactly when the goal lies within the       *)
(* clamped bound; it follows edges from start to goal and none is shorter. *)
PathShortest ==
    Answers("path") =>
      LET hops == Least(query.hops, MAX_REACH_HOPS)
          reached == /\ {query.start, query.goal} \subseteq Nodes
                     /\ query.goal \in Ball(graph, query.start, query.dir, Nodes, hops)
      IN IF ~reached THEN result = None
         ELSE /\ result \in Seq(Nodes) /\ result # <<>>
              /\ result[1] = query.start /\ Last(result) = query.goal
              /\ query.goal \in Sphere(graph, query.start, query.dir, Len(result) - 1)
              /\ \A i \in 1..(Len(result) - 1) :
                    EdgeBetween(graph, result[i], result[i + 1], query.dir)

(* trace_path: though the queue may hold a node several times, the trace   *)
(* lists every node within the depth once, at its distance, nearest first. *)
TraceBfs ==
    Answers("trace") =>
      /\ ToSet(result) = Distances(graph, query.start, query.dir, query.hops)
      /\ \A i, j \in DOMAIN result : i < j =>
            result[i].node # result[j].node /\ result[i].depth <= result[j].depth

(* The nodes of S that every part of S with a in it that no edge among S   *)
(* leaves must hold: those linked to a.                                    *)
Component(g, a, S) ==
    {n \in S : \A T \in SUBSET S :
       a \in T /\ (\A x \in T, y \in S : EdgeBetween(g, x, y, "both") => y \in T)
         => n \in T}

(* dependency_cluster: truncated is set exactly when the component is      *)
(* larger than the budget; what is returned is connected and fills it.     *)
ClusterHonest ==
    Answers("cluster") =>
      IF query.start \notin Nodes THEN result = None
      ELSE LET whole == Component(graph, query.start, Nodes)
               size == IF query.limit = 0 THEN 1 ELSE Least(query.limit, MAX_REACH_RESULTS)
           IN /\ truncated = (Cardinality(whole) > size)
              /\ Cardinality(result) = Least(Cardinality(whole), size)
              /\ result \subseteq whole /\ Component(graph, query.start, result) = result

(* subgraph_around: under the node budget the neighbourhood loses only its *)
(* farthest nodes, every node it keeps is within the bound of the center   *)
(* through nodes it keeps, and it has the edges between them and no other. *)
SubgraphInduced ==
    Answers("subgraph") =>
      IF query.start \notin Nodes THEN result = None
      ELSE LET hops == Least(query.hops, MAX_REACH_HOPS)
               ball(k) == Ball(graph, query.start, "both", Nodes, k)
           IN /\ Cardinality(result.nodes)
                   = Least(Cardinality(ball(hops)), MAX_REACH_RESULTS)
              /\ \A i \in DOMAIN graph :
                    graph[i] \in result.edges
                      <=> {graph[i].src, graph[i].tgt} \subseteq result.nodes
              /\ Ball(graph, query.start, "both", result.nodes, hops) = result.nodes
              /\ \A k \in 0..hops :
                    ball(k) \subseteq result.nodes \/ result.nodes \subseteq ball(k)

(* call_tree: every node within the depth is placed once, at its distance, *)
(* and lists all its neighbours above the depth bound and none at it.      *)
TreeSpans ==
    Answers("tree") =>
      /\ {Row(result[i].node, result[i].depth) : i \in DOMAIN result}
           = Distances(graph, query.start, query.dir, query.hops)
      /\ \A i, j \in DOMAIN result : i # j => result[i].node # result[j].node
      /\ \A i \in DOMAIN result :
           ToSet(result[i].children) =
             IF result[i].depth = query.hops THEN {}
             ELSE {m \in Nodes \ {result[i].node} :
                     EdgeBetween(graph, result[i].node, m, query.dir)}

(* cycles: within the rows search_graph returned (at most DEFAULT_LIMIT of *)
(* them, see CyclesComplete), every simple cycle up to the clamped length  *)
(* is found once, from its smallest id, and the limit leaves out only      *)
(* cycles that sort later.                                                 *)
SimpleCycles(g, S, len) ==
    {c \in UNION {[1..k -> S] : k \in 1..len} :
       /\ IsInjective(c) /\ \A i \in DOMAIN c : c[1] <= c[i]
       /\ \A i \in DOMAIN c : EdgeBetween(g, c[i], c[(i % Len(c)) + 1], "out")}
CyclesExact ==
    Answers("cycles") =>
      LET all == SimpleCycles(graph, ToSet(Scope), Least(query.hops, MAX_CYCLE_LEN))
      IN /\ result \subseteq all
         /\ Cardinality(result) = Least(Cardinality(all), query.limit)
         /\ \A c \in all \ result, d \in result : Smaller(d, c)

(* "report every distinct simple cycle over CALLS edges of length at most  *)
(* max_len, scoped to project" (cycles): a cycle of the project that the   *)
(* limit leaves room for is reported, whatever its nodes are called.       *)
CyclesComplete ==
    Answers("cycles") =>
      LET all == SimpleCycles(graph, Nodes, Least(query.hops, MAX_CYCLE_LEN))
      IN Cardinality(result) = Least(Cardinality(all), query.limit)

(* call_hierarchy: the tree holds exactly the walks from the root that     *)
(* turn back at most in their last node; those are the cyclic leaves, and  *)
(* the others at the depth bound are the truncated ones.                   *)
Turns(p) == \E i \in 1..(Len(p) - 1) : p[i] = p[Len(p)]
WalksFrom(g, a, dir, bound) ==
    {p \in UNION {[1..k -> Nodes] : k \in 1..bound} :
       /\ p[1] = a /\ \A i, j \in 1..(Len(p) - 1) : p[i] = p[j] => i = j
       /\ \A i \in 1..(Len(p) - 1) :
             p[i] # p[i + 1] /\ EdgeBetween(g, p[i], p[i + 1], dir)}
HierarchyExact ==
    Answers("hierarchy") =>
      result = {[path |-> p, cyclic |-> Turns(p),
                 truncated |-> ~Turns(p) /\ Len(p) = query.hops + 1] :
                  p \in WalksFrom(graph, query.start, query.dir, query.hops + 1)}

(* The breadth-first queries agree with their definitions by distances.    *)
BreadthFirstExact == ReachExact /\ PathShortest /\ TraceBfs /\ TreeSpans

(* The queries with a node budget say truthfully what it made them drop.   *)
BudgetHonest == ClusterHonest /\ SubgraphInduced

(* The depth-first walk visits no node twice at any time, so that it ends, *)
(* and finds exactly the cycles and the hierarchy its definition has.      *)
DepthFirstExact == IsInjective(path) /\ CyclesExact /\ HierarchyExact
=============================================================================
