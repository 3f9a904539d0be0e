------------------------ MODULE GraphTraversalProofs ------------------------
(***************************************************************************)
(* Every bounded traversal of GraphTraversal returns what its definition   *)
(* by distances, components, cycles and walks says, for every graph, every *)
(* query and every bound.                                                  *)
(***************************************************************************)
EXTENDS GraphTraversalLemmas

-----------------------------------------------------------------------------
(* The inductive invariants, one per kind of walk.                         *)

Given == /\ graph \in Seq(EdgeSet) /\ query \in Queries /\ pc \in {"run", "done"}
         /\ pc = "run" => ~Immediate(query)

QueueEntry == [node : Nodes, depth : Nat]

(* The queue is a stretch of at most two depths, nearest first.            *)
Layered(q) == \A i, j \in 1..Len(q) :
                 i < j => q[i].depth <= q[j].depth /\ q[j].depth <= q[i].depth + 1
Queued(q, n) == \E i \in 1..Len(q) : q[i].node = n

(* A walk that marks a node when it is queued: what is marked is at its    *)
(* distance and holds every nearer node; unless the budget is spent, the   *)
(* neighbours of a node that left the queue are marked.                    *)
Marked(g, a, dir, hops, cap, q, s) ==
    /\ q \in Seq(QueueEntry) /\ Layered(q)
    /\ DOMAIN s \subseteq Nodes /\ a \in DOMAIN s
    /\ \A m \in DOMAIN s :
         /\ s[m] \in Nat /\ s[m] <= hops /\ m \in Sphere(g, a, dir, s[m])
         /\ m \in Ball(g, a, dir, DOMAIN s, s[m])
         /\ \A k \in 0..(s[m] - 1) : Ball(g, a, dir, Nodes, k) \subseteq DOMAIN s
    /\ \A i \in 1..Len(q) : q[i].node \in DOMAIN s /\ s[q[i].node] = q[i].depth
    /\ Cardinality(DOMAIN s) <= cap
    /\ Cardinality(DOMAIN s) < cap =>
         \A n \in DOMAIN s : ~Queued(q, n) /\ s[n] < hops =>
           \A m \in Nodes : EdgeBetween(g, n, m, dir) => m \in DOMAIN s
Marking == Marked(graph, query.start, Way(query), Hops(query), Budget(query), queue, seen)

ReachInv == Runs("reach") => Marking
SubgraphInv == Runs("subgraph") => Marking

(* Every marked node but the start has its predecessor one edge nearer.    *)
Preceded(g, a, dir, s, p) ==
    /\ DOMAIN p = DOMAIN s \ {a}
    /\ \A m \in DOMAIN p :
         p[m] \in DOMAIN s /\ s[m] = s[p[m]] + 1 /\ EdgeBetween(g, p[m], m, dir)
PathInv ==
    Runs("path") =>
      /\ Marking /\ Preceded(graph, query.start, Way(query), seen, pred)
      /\ query.goal \notin DOMAIN seen /\ result = None

TreeRowSet == [node : Nodes, depth : Nat, children : Seq(Nodes)]

(* The rows of a call tree: one per marked node; those expanded have their *)
(* neighbours as children.                                                 *)
TreeRows(g, dir, hops, q, s, r) ==
    /\ r \in Seq(TreeRowSet)
    /\ \A i \in 1..Len(r) :
         /\ r[i].node \in DOMAIN s /\ r[i].depth = s[r[i].node]
         /\ r[i].depth = hops => ToSet(r[i].children) = {}
         /\ r[i].depth < hops /\ ~Queued(q, r[i].node) =>
              ToSet(r[i].children)
                = {m \in Nodes \ {r[i].node} : EdgeBetween(g, r[i].node, m, dir)}
    /\ \A m \in DOMAIN s : \E i \in 1..Len(r) : r[i].node = m
    /\ \A i, j \in 1..Len(r) : r[i].node = r[j].node => i = j
TreeInv ==
    Runs("tree") =>
      Marking /\ TreeRows(graph, Way(query), Hops(query), queue, seen, result)

(* trace_path marks late: the neighbours of a marked node are marked or    *)
(* queued, at most one level deeper.                                       *)
Traced(g, a, dir, hops, q, s, r) ==
    /\ q \in Seq(QueueEntry) /\ Layered(q) /\ DOMAIN s \subseteq Nodes
    /\ \A m \in DOMAIN s : s[m] \in Nat /\ s[m] <= hops /\ m \in Sphere(g, a, dir, s[m])
    /\ \A i \in 1..Len(q) :
         q[i].depth <= hops /\ q[i].node \in Ball(g, a, dir, Nodes, q[i].depth)
    /\ a \in DOMAIN s \/ \E i \in 1..Len(q) : q[i] = Row(a, 0)
    /\ \A n \in DOMAIN s : s[n] < hops =>
         \A m \in Nodes : EdgeBetween(g, n, m, dir) =>
           m \in DOMAIN s \/ \E i \in 1..Len(q) : q[i].node = m /\ q[i].depth <= s[n] + 1
    /\ r \in Seq(QueueEntry)
    /\ \A i \in 1..Len(r) : r[i].node \in DOMAIN s /\ r[i].depth = s[r[i].node]
    /\ \A m \in DOMAIN s : \E i \in 1..Len(r) : r[i].node = m
    /\ \A i, j \in 1..Len(r) :
         i < j => r[i].node # r[j].node /\ r[i].depth <= r[j].depth
    /\ \A i \in 1..Len(r), k \in 1..Len(q) : r[i].depth <= q[k].depth
TraceInv ==
    Runs("trace") =>
      Traced(graph, query.start, Way(query), Hops(query), queue, seen, result)

(* The collected part of the component: connected, and closed but for the  *)
(* queue unless a neighbour was dropped.                                   *)
Collected(g, a, cap, q, C, t) ==
    /\ q \in Seq(QueueEntry) /\ C \subseteq Component(g, a, Nodes) /\ a \in C
    /\ \A i \in 1..Len(q) : q[i].node \in C
    /\ C \subseteq Component(g, a, C) /\ Cardinality(C) <= cap
    /\ t \in BOOLEAN
    /\ ~t => \A n \in C : ~Queued(q, n) =>
                \A m \in Nodes : EdgeBetween(g, n, m, "both") => m \in C
    /\ t => /\ Cardinality(C) = cap
            /\ \E n \in C : \E m \in Nodes \ C : EdgeBetween(g, n, m, "both")
ClusterInv ==
    Runs("cluster") =>
      Collected(graph, query.start, Budget(query), queue, DOMAIN seen, truncated)

-----------------------------------------------------------------------------
Begins(p, q, k) == \A j \in 1..k : p[j] = q[j]

(* The depth-first walk: a simple path over V, with a part of each node's  *)
(* neighbours left to look at.                                             *)
Stack(g, V, dir, p, r) ==
    /\ p \in Seq(V) /\ r \in Seq(Seq(V)) /\ Len(r) = Len(p)
    /\ \A i, j \in 1..Len(p) : p[i] = p[j] => i = j
    /\ \A i \in 1..(Len(p) - 1) : EdgeBetween(g, p[i], p[i + 1], dir)
    /\ \A i \in 1..Len(p) : \A m \in ToSet(r[i]) : EdgeBetween(g, p[i], m, dir)

(* A cycle still to be found: the walk is on it, and its next node is left.*)
CycleAhead(p, r, c) ==
    \E i \in 1..Len(p) :
       i <= Len(c) /\ Begins(p, c, i) /\ c[(i % Len(c)) + 1] \in ToSet(r[i])
Searching(g, V, len, p, r, st, R) ==
    /\ Stack(g, V, "out", p, r) /\ st \in Seq(V)
    /\ Len(p) <= len /\ \A i \in 1..Len(p) : p[1] <= p[i]
    /\ R \subseteq SimpleCycles(g, V, len)
    /\ \A c \in SimpleCycles(g, V, len) :
         c \in R \/ c[1] \in ToSet(st) \/ CycleAhead(p, r, c)
CyclesInv ==
    Runs("cycles") =>
      Searching(graph, ToSet(Scope), CycleLen(query), path, rest, starts, result)

Branch(w, hops) == [path |-> w, cyclic |-> Turns(w),
                    truncated |-> ~Turns(w) /\ Len(w) = hops + 1]
Listed(R, w, k) == \E c \in R : Len(c.path) = k /\ Begins(c.path, w, k)

(* A walk still to be found: the stack begins it, and its next node is     *)
(* left and not yet a child there.                                         *)
WalkAhead(p, r, R, w) ==
    \E i \in 1..Len(p) :
       /\ i < Len(w) /\ Begins(p, w, i) /\ w[i + 1] \in ToSet(r[i])
       /\ ~Listed(R, w, i + 1)
Exploring(g, a, dir, hops, p, r, R) ==
    /\ Stack(g, Nodes, dir, p, r) /\ Len(p) <= hops
    /\ p # <<>> => p[1] = a /\ Listed(R, p, Len(p))
    /\ \A c \in R : /\ c.path \in WalksFrom(g, a, dir, hops + 1)
                    /\ c = Branch(c.path, hops)
                    /\ Len(c.path) > 1 => Listed(R, c.path, Len(c.path) - 1)
    /\ \A w \in WalksFrom(g, a, dir, hops + 1) :
         Branch(w, hops) \in R \/ WalkAhead(p, r, R, w)
HierarchyInv ==
    Runs("hierarchy") =>
      Exploring(graph, query.start, query.dir, query.hops, path, rest, result)

(* Only the depth-first queries have a path, and only while they run.      *)
PathInUse == path # <<>> => \E kind \in {"cycles", "hierarchy"} : Runs(kind)

-----------------------------------------------------------------------------
(* The stack of a depth-first walk.                                        *)

\* All but the last of a sequence.
LEMMA FrontOf ==
    ASSUME NEW S, NEW s \in Seq(S), s # <<>>
    PROVE  /\ Front(s) \in Seq(S) /\ Len(s) \in Nat \ {0} /\ Len(Front(s)) = Len(s) - 1
           /\ \A i \in 1..(Len(s) - 1) : Front(s)[i] = s[i]
           /\ Last(s) = s[Len(s)] /\ Last(s) \in S
<1>1. Len(s) \in Nat \ {0} /\ \A i \in 1..Len(s) : s[i] \in S
  OBVIOUS
<1>2. Front(s) = SubSeq(s, 1, Len(s) - 1) /\ Last(s) = s[Len(s)]
  BY DEF Front, Last
<1>3. \A i \in 1..(Len(s) - 1) : s[i] \in S
  BY <1>1
<1>4. /\ SubSeq(s, 1, Len(s) - 1) \in Seq(S)
      /\ Len(SubSeq(s, 1, Len(s) - 1)) = Len(s) - 1
      /\ \A i \in 1..(Len(s) - 1) : SubSeq(s, 1, Len(s) - 1)[i] = s[i]
  <2> DEFINE k == Len(s) - 1
  <2>1. k \in Nat /\ k - 1 + 1 = k /\ \A i \in 1..k : s[i] \in S /\ 1 + i - 1 = i
    BY <1>1, <1>3
  <2> HIDE DEF k
  <2>2. /\ SubSeq(s, 1, k) \in Seq(S)
        /\ Len(SubSeq(s, 1, k)) = IF 1 <= k THEN k - 1 + 1 ELSE 0
        /\ \A i \in 1..(k - 1 + 1) : SubSeq(s, 1, k)[i] = s[1 + i - 1]
    BY <2>1, SubSeqProperties
  <2>3. Len(SubSeq(s, 1, k)) = k /\ \A i \in 1..k : SubSeq(s, 1, k)[i] = s[i]
    BY <2>1, <2>2
  <2> QED
    BY <2>2, <2>3 DEF k
<1> QED
  BY <1>1, <1>2, <1>4

\* The values of a sequence are its head and the values of its tail.
LEMMA HeadAndTail ==
    ASSUME NEW V, NEW s \in Seq(V), s # <<>>
    PROVE  /\ \A m : m \in ToSet(s) <=> m = Head(s) \/ m \in ToSet(Tail(s))
           /\ Head(s) \in V /\ Tail(s) \in Seq(V)
<1>1. /\ \A x : x \in ToSet(s) <=> \E i \in 1..Len(s) : s[i] = x
      /\ Len(s) \in Nat \ {0} /\ Head(s) = s[1]
  BY ToSetOfSeq
<1>2. /\ Tail(s) \in Seq(V) /\ Len(Tail(s)) = Len(s) - 1
      /\ \A i \in 1..Len(Tail(s)) : Tail(s)[i] = s[i + 1]
  BY HeadTailProperties
<1> DEFINE t == Tail(s)
<1> HIDE DEF t
<1>3. \A x : x \in ToSet(t) <=> \E i \in 1..Len(t) : t[i] = x
  BY <1>2, ToSetOfSeq DEF t
<1>4. ASSUME NEW m, m \in ToSet(s), m # s[1] PROVE m \in ToSet(t)
  <2>1. PICK i \in 1..Len(s) : s[i] = m
    BY <1>1, <1>4
  <2>2. i - 1 \in 1..Len(t) /\ t[i - 1] = m
    BY <1>1, <1>2, <1>4, <2>1 DEF t
  <2> QED
    BY <1>3, <2>2
<1>5. ASSUME NEW m \in ToSet(t) PROVE m \in ToSet(s)
  <2>1. PICK i \in 1..Len(t) : t[i] = m
    BY <1>3
  <2>2. i + 1 \in 1..Len(s) /\ s[i + 1] = m
    BY <1>1, <1>2, <2>1 DEF t
  <2> QED
    BY <1>1, <2>2
<1>6. s[1] \in ToSet(s)
  BY <1>1
<1> QED
  BY <1>1, <1>4, <1>5, <1>6 DEF t

\* Leaving a node takes it off the stack.
LEMMA LeaveValues ==
    ASSUME NEW g, NEW V, NEW dir, NEW p, NEW r, Stack(g, V, dir, p, r), p # <<>>
    PROVE  /\ Front(p) \in Seq(V) /\ Front(r) \in Seq(Seq(V))
           /\ Len(p) \in Nat \ {0} /\ Len(Front(p)) = Len(p) - 1
           /\ Len(Front(r)) = Len(p) - 1
           /\ \A i \in 1..(Len(p) - 1) : Front(p)[i] = p[i] /\ Front(r)[i] = r[i]
           /\ Last(r) = r[Len(p)] /\ Last(p) = p[Len(p)]
<1>1. p \in Seq(V) /\ r \in Seq(Seq(V)) /\ Len(r) = Len(p)
  BY DEF Stack
<1>2. r # <<>>
  BY <1>1
<1>3. /\ Front(p) \in Seq(V) /\ Len(p) \in Nat \ {0} /\ Len(Front(p)) = Len(p) - 1
      /\ \A i \in 1..(Len(p) - 1) : Front(p)[i] = p[i]
      /\ Last(p) = p[Len(p)]
  BY <1>1, FrontOf
<1>4. /\ Front(r) \in Seq(Seq(V)) /\ Len(Front(r)) = Len(p) - 1
      /\ \A i \in 1..(Len(p) - 1) : Front(r)[i] = r[i]
      /\ Last(r) = r[Len(p)]
  BY <1>1, <1>2, FrontOf
<1> QED
  BY <1>3, <1>4

\* What is left is a stack.
LEMMA StackLeave ==
    ASSUME NEW g, NEW V, NEW dir, NEW p, NEW r, Stack(g, V, dir, p, r), p # <<>>
    PROVE  Stack(g, V, dir, Front(p), Front(r))
<1> DEFINE fp == Front(p)
           fr == Front(r)
<1>3. Len(p) \in Nat \ {0}
  BY LeaveValues
<1>5. /\ fp \in Seq(V) /\ Len(fp) = Len(p) - 1 /\ fr \in Seq(Seq(V)) /\ Len(fr) = Len(p) - 1
      /\ \A i \in 1..(Len(p) - 1) : i \in 1..Len(p) /\ fp[i] = p[i] /\ fr[i] = r[i]
  BY <1>3, LeaveValues
<1> HIDE DEF fp, fr
<1>6. \A i, j \in 1..Len(fp) : fp[i] = fp[j] => i = j
  BY <1>5 DEF Stack
<1>7. \A i \in 1..(Len(fp) - 1) : EdgeBetween(g, fp[i], fp[i + 1], dir)
  <2> SUFFICES ASSUME NEW i \in 1..(Len(fp) - 1) PROVE EdgeBetween(g, fp[i], fp[i + 1], dir)
    OBVIOUS
  <2>1. i \in 1..(Len(p) - 1) /\ i + 1 \in 1..(Len(p) - 1)
    BY <1>3, <1>5
  <2> QED
    BY <1>5, <2>1 DEF Stack
<1>8. \A i \in 1..Len(fp) : \A m \in ToSet(fr[i]) : EdgeBetween(g, fp[i], m, dir)
  BY <1>5 DEF Stack
<1>9. Stack(g, V, dir, fp, fr)
  BY <1>5, <1>6, <1>7, <1>8 DEF Stack
<1> QED
  BY <1>9 DEF fp, fr

Skipped(r) == [r EXCEPT ![Len(r)] = Tail(@)]

\* Looking at the next neighbour of the last node takes it off its list.
LEMMA StackSkip ==
    ASSUME NEW g, NEW V, NEW dir, NEW p, NEW r, Stack(g, V, dir, p, r), p # <<>>,
           Last(r) # <<>>
    PROVE  LET n == Head(Last(r))
               k == Len(p)
           IN /\ Stack(g, V, dir, p, Skipped(r)) /\ k \in Nat \ {0}
              /\ p \in Seq(V) /\ r \in Seq(Seq(V)) /\ Len(Skipped(r)) = k /\ Len(r) = k
              /\ \A i \in 1..(k - 1) : Skipped(r)[i] = r[i]
              /\ \A m : m \in ToSet(r[k]) <=> m = n \/ m \in ToSet(Skipped(r)[k])
              /\ n \in V /\ EdgeBetween(g, p[k], n, dir)
<1> DEFINE k == Len(p)
           s == r[k]
           q == Skipped(r)
<1>1. /\ p \in Seq(V) /\ r \in Seq(Seq(V)) /\ Len(r) = k /\ k \in Nat \ {0} /\ r # <<>>
  BY DEF Stack
<1>2. Last(r) = s /\ s \in Seq(V) /\ s # <<>>
  BY <1>1, FrontOf
<1>3. /\ q \in Seq(Seq(V)) /\ Len(q) = k /\ q[k] = Tail(s)
      /\ \A i \in 1..(k - 1) : q[i] = r[i]
  <2>1. q = [r EXCEPT ![k] = Tail(s)]
    BY <1>1 DEF Skipped
  <2>2. Tail(s) \in Seq(V) /\ k \in 1..Len(r)
    BY <1>1, <1>2
  <2>3. /\ q \in Seq(Seq(V)) /\ Len(q) = Len(r)
        /\ \A j \in 1..Len(r) : q[j] = IF j = k THEN Tail(s) ELSE r[j]
    <3> HIDE DEF s, q, k
    <3> QED
      BY <1>1, <2>1, <2>2, ExceptSeq
  <2>4. k \in 1..Len(r) /\ \A i \in 1..(k - 1) : i \in 1..Len(r) /\ i # k
    BY <1>1
  <2> HIDE DEF q, s, k
  <2> QED
    BY <1>1, <2>3, <2>4
<1> HIDE DEF q, s
<1>4. \A m : m \in ToSet(s) <=> m = Head(s) \/ m \in ToSet(Tail(s))
  BY <1>2, HeadAndTail
<1>5. \A i \in 1..k : ToSet(q[i]) \subseteq ToSet(r[i])
  <2>1. \A i \in 1..k : i \in 1..(k - 1) \/ i = k
    BY <1>1
  <2>2. ToSet(q[k]) \subseteq ToSet(s)
    BY <1>3, <1>4
  <2> QED
    BY <1>3, <2>1, <2>2 DEF s
<1>6. Stack(g, V, dir, p, q)
  BY <1>1, <1>3, <1>5 DEF Stack
<1>7. Head(s) \in V /\ EdgeBetween(g, p[k], Head(s), dir)
  <2>1. Head(s) \in ToSet(s) /\ Head(s) \in V
    BY <1>2, <1>4
  <2>2. k \in 1..Len(p) /\ \A i \in 1..Len(p) : \A m \in ToSet(r[i]) : EdgeBetween(g, p[i], m, dir)
    BY <1>1 DEF Stack
  <2>3. \A m \in ToSet(r[k]) : EdgeBetween(g, p[k], m, dir)
    BY <2>2
  <2> QED
    BY <2>1, <2>3 DEF s
<1> QED
  BY <1>1, <1>2, <1>3, <1>4, <1>6, <1>7 DEF q, s

(* q is p with one more element, n.                                        *)
Pushed(S, q, p, n) ==
    /\ q \in Seq(S) /\ Len(q) = Len(p) + 1 /\ q[Len(p) + 1] = n
    /\ \A i \in 1..Len(p) : q[i] = p[i]

\* Append adds one element.
LEMMA AppendPushed ==
    ASSUME NEW S, NEW p \in Seq(S), NEW n \in S
    PROVE  Pushed(S, Append(p, n), p, n)
BY AppendProperties DEF Pushed

\* Descending puts a new node on the stack, with its neighbours.
LEMMA StackDescend ==
    ASSUME NEW g, NEW V, NEW dir, NEW p, NEW r, Stack(g, V, dir, p, r), p # <<>>,
           NEW n \in V, EdgeBetween(g, p[Len(p)], n, dir),
           \A i \in 1..Len(p) : p[i] # n,
           NEW next, \A m \in ToSet(next) : EdgeBetween(g, n, m, dir),
           NEW q, Pushed(V, q, p, n), NEW t, Pushed(Seq(V), t, r, next)
    PROVE  Stack(g, V, dir, q, t)
<1> DEFINE k == Len(p)
<1>1. p \in Seq(V) /\ r \in Seq(Seq(V)) /\ Len(r) = k /\ k \in Nat \ {0}
  BY DEF Stack
<1>2. /\ q \in Seq(V) /\ Len(q) = k + 1 /\ q[k + 1] = n
      /\ \A i \in 1..k : q[i] = p[i]
  BY DEF Pushed
<1>3. /\ t \in Seq(Seq(V)) /\ Len(t) = k + 1 /\ t[k + 1] = next
      /\ \A i \in 1..k : t[i] = r[i]
  BY <1>1 DEF Pushed
<1>4. \A i \in 1..(k + 1) : i \in 1..k \/ i = k + 1
  BY <1>1
<1> HIDE DEF k
<1>5. \A i, j \in 1..Len(q) : q[i] = q[j] => i = j
  BY <1>2, <1>4 DEF Stack, k
<1>6. \A i \in 1..(Len(q) - 1) : EdgeBetween(g, q[i], q[i + 1], dir)
  <2> SUFFICES ASSUME NEW i \in 1..k PROVE EdgeBetween(g, q[i], q[i + 1], dir)
    BY <1>1, <1>2
  <2>1. CASE i = k
    BY <1>1, <1>2, <2>1 DEF k
  <2>2. CASE i # k
    <3>1. i \in 1..(k - 1) /\ i + 1 \in 1..k
      BY <1>1, <2>2
    <3> QED
      BY <1>2, <3>1 DEF Stack, k
  <2> QED
    BY <2>1, <2>2
<1>7. \A i \in 1..Len(q) : \A m \in ToSet(t[i]) : EdgeBetween(g, q[i], m, dir)
  BY <1>2, <1>3, <1>4 DEF Stack, k
<1> QED
  BY <1>2, <1>3, <1>5, <1>6, <1>7 DEF Stack

-----------------------------------------------------------------------------
(* One query runs to its end over one graph.                               *)

QueryTypes ==
    /\ query.kind \in Walks /\ query.start \in Int /\ query.goal \in Int
    /\ query.dir \in {"out", "in"} /\ query.hops \in Nat /\ query.limit \in Nat
    /\ Way(query) \in {"out", "in", "both"}
    /\ Hops(query) \in Nat /\ Limit(query) \in Nat /\ CycleLen(query) \in Nat
    /\ Budget(query) \in Nat \ {0}

\* The fields of a query and the bounds clamped from them.
LEMMA QueryFields == ASSUME Given PROVE QueryTypes
<1>1. query \in [kind : Walks, start : Int, goal : Int, dir : {"out", "in"},
                 hops : Nat, limit : Nat]
  BY GraphAssumption DEF Given
<1>2. /\ query.kind \in Walks /\ query.start \in Int /\ query.goal \in Int
      /\ query.dir \in {"out", "in"} /\ query.hops \in Nat /\ query.limit \in Nat
  BY <1>1
<1>3. /\ MAX_REACH_HOPS \in Nat /\ MAX_CYCLE_LEN \in Nat
      /\ MAX_REACH_RESULTS \in Nat \ {0}
  BY GraphAssumption
<1>4. Way(query) \in {"out", "in", "both"}
  BY <1>2 DEF Way
<1>5. Hops(query) \in Nat /\ Limit(query) \in Nat /\ CycleLen(query) \in Nat
  BY <1>2, <1>3 DEF Hops, Limit, CycleLen, Least
<1>6. Budget(query) \in Nat \ {0}
  <2>1. Cardinality(Nodes) \in Nat
    BY GraphAssumption, FS_CardinalityType
  <2>2. Limit(query) # 0 => Limit(query) \in Nat \ {0}
    BY <1>5
  <2>3. CASE query.kind = "cluster"
    BY <2>2, <2>3 DEF Budget
  <2>4. CASE query.kind = "subgraph"
    BY <1>3, <2>4 DEF Budget
  <2>5. CASE query.kind \notin {"cluster", "subgraph"}
    <3>1. Budget(query) = Cardinality(Nodes) + 1
      BY <2>5 DEF Budget
    <3> QED
      BY <2>1, <3>1
  <2> QED
    BY <2>3, <2>4, <2>5
<1> QED
  BY <1>2, <1>4, <1>5, <1>6 DEF QueryTypes

\* The walk begins with a graph and a query.
LEMMA GivenInit == Init => Given
<1>1. ASSUME graph \in Graphs PROVE graph \in Seq(EdgeSet)
  BY <1>1, GraphAssumption DEF EdgeSet
<1> QED
  BY <1>1 DEF Init, Given

(* The steps of each kind of walk.                                         *)
KindStep ==
    /\ Runs("reach") => ReachStep \/ ReachDone
    /\ Runs("path") => PathStep \/ WalkDone
    /\ Runs("trace") => TraceStep \/ WalkDone
    /\ Runs("tree") => TreeStep \/ WalkDone
    /\ Runs("cluster") => ClusterStep \/ ClusterDone
    /\ Runs("subgraph") => SubgraphStep \/ SubgraphDone
    /\ Runs("cycles") => CycleStart \/ CycleStep \/ CyclesDone
    /\ Runs("hierarchy") => HierarchyStep \/ HierarchyDone
    /\ pc = "done" => UNCHANGED vars

\* A step takes a walk of the kind asked for further, over the same graph.
LEMMA Frame ==
    ASSUME Given, Next
    PROVE  Given' /\ graph' = graph /\ query' = query /\ KindStep
<1> DEFINE Same == graph' = graph /\ query' = query /\ pc' \in {pc, "done"}
<1>1. Same => Given' /\ graph' = graph /\ query' = query
  BY DEF Given
<1>2. CASE ReachStep
  <2>1. Runs("reach") /\ Same
    BY <1>2 DEF ReachStep
  <2>2. KindStep
    BY <1>2, <2>1 DEF KindStep, Runs
  <2> QED
    BY <1>1, <2>1, <2>2
<1>3. CASE ReachDone
  <2>1. Runs("reach") /\ Same
    BY <1>3 DEF ReachDone, Done
  <2>2. KindStep
    BY <1>3, <2>1 DEF KindStep, Runs
  <2> QED
    BY <1>1, <2>1, <2>2
<1>4. CASE PathStep
  <2>1. Runs("path") /\ Same
    BY <1>4 DEF PathStep
  <2>2. KindStep
    BY <1>4, <2>1 DEF KindStep, Runs
  <2> QED
    BY <1>1, <2>1, <2>2
<1>5. CASE TraceStep
  <2>1. Runs("trace") /\ Same
    BY <1>5 DEF TraceStep
  <2>2. KindStep
    BY <1>5, <2>1 DEF KindStep, Runs
  <2> QED
    BY <1>1, <2>1, <2>2
<1>6. CASE TreeStep
  <2>1. Runs("tree") /\ Same
    BY <1>6 DEF TreeStep
  <2>2. KindStep
    BY <1>6, <2>1 DEF KindStep, Runs
  <2> QED
    BY <1>1, <2>1, <2>2
<1>7. CASE WalkDone
  <2>1. (\E kind \in {"path", "trace", "tree"} : Runs(kind)) /\ Same
    BY <1>7 DEF WalkDone, Done
  <2>2. KindStep
    BY <1>7, <2>1 DEF KindStep, Runs
  <2> QED
    BY <1>1, <2>1, <2>2
<1>8. CASE ClusterStep
  <2>1. Runs("cluster") /\ Same
    BY <1>8 DEF ClusterStep
  <2>2. KindStep
    BY <1>8, <2>1 DEF KindStep, Runs
  <2> QED
    BY <1>1, <2>1, <2>2
<1>9. CASE ClusterDone
  <2>1. Runs("cluster") /\ Same
    BY <1>9 DEF ClusterDone, Done
  <2>2. KindStep
    BY <1>9, <2>1 DEF KindStep, Runs
  <2> QED
    BY <1>1, <2>1, <2>2
<1>10. CASE SubgraphStep
  <2>1. Runs("subgraph") /\ Same
    BY <1>10 DEF SubgraphStep
  <2>2. KindStep
    BY <1>10, <2>1 DEF KindStep, Runs
  <2> QED
    BY <1>1, <2>1, <2>2
<1>11. CASE SubgraphDone
  <2>1. Runs("subgraph") /\ Same
    BY <1>11 DEF SubgraphDone, Done
  <2>2. KindStep
    BY <1>11, <2>1 DEF KindStep, Runs
  <2> QED
    BY <1>1, <2>1, <2>2
<1>12. CASE CycleStart
  <2>1. Runs("cycles") /\ Same
    BY <1>12 DEF CycleStart
  <2>2. KindStep
    BY <1>12, <2>1 DEF KindStep, Runs
  <2> QED
    BY <1>1, <2>1, <2>2
<1>13. CASE CycleStep
  <2>1. Runs("cycles") /\ Same
    BY <1>13 DEF CycleStep, Walking
  <2>2. KindStep
    BY <1>13, <2>1 DEF KindStep, Runs
  <2> QED
    BY <1>1, <2>1, <2>2
<1>14. CASE CyclesDone
  <2>1. Runs("cycles") /\ Same
    BY <1>14 DEF CyclesDone
  <2>2. KindStep
    BY <1>14, <2>1 DEF KindStep, Runs
  <2> QED
    BY <1>1, <2>1, <2>2
<1>15. CASE HierarchyStep
  <2>1. Runs("hierarchy") /\ Same
    BY <1>15 DEF HierarchyStep, Walking
  <2>2. KindStep
    BY <1>15, <2>1 DEF KindStep, Runs
  <2> QED
    BY <1>1, <2>1, <2>2
<1>16. CASE HierarchyDone
  <2>1. Runs("hierarchy") /\ Same
    BY <1>16 DEF HierarchyDone
  <2>2. KindStep
    BY <1>16, <2>1 DEF KindStep, Runs
  <2> QED
    BY <1>1, <2>1, <2>2
<1>17. CASE Answered
  <2>1. pc = "done" /\ UNCHANGED vars
    BY <1>17 DEF Answered
  <2>2. Same
    BY <2>1 DEF vars
  <2>3. KindStep
    BY <2>1 DEF KindStep, Runs
  <2> QED
    BY <1>1, <2>2, <2>3
<1> QED
  BY <1>2, <1>3, <1>4, <1>5, <1>6, <1>7, <1>8, <1>9, <1>10, <1>11, <1>12, <1>13, <1>14,
     <1>15, <1>16, <1>17 DEF Next

-----------------------------------------------------------------------------
(* cycles.                                                                 *)

\* The position after k on a cycle of length L.
LEMMA Onward ==
    ASSUME NEW L \in Nat \ {0}, NEW k \in 1..L
    PROVE  (k % L) + 1 = (IF k = L THEN 1 ELSE k + 1) /\ (k % L) + 1 \in 1..L
<1>1. CASE k = L
  BY <1>1
<1>2. CASE k # L
  BY <1>2
<1> QED
  BY <1>1, <1>2

\* A simple cycle is a sequence of distinct nodes, the first the smallest, with
\* an edge from each to the next and from the last to the first.
LEMMA CycleFacts ==
    ASSUME NEW g, NEW V, NEW len \in Nat, NEW c
    PROVE  c \in SimpleCycles(g, V, len)
             <=> /\ c \in Seq(V) /\ Len(c) \in 1..len
                 /\ \A i, j \in 1..Len(c) : c[i] = c[j] => i = j
                 /\ \A i \in 1..Len(c) : c[1] <= c[i]
                 /\ \A i \in 1..Len(c) : EdgeBetween(g, c[i], c[(i % Len(c)) + 1], "out")
<1> DEFINE Shape(k) == /\ \A i, j \in 1..k : c[i] = c[j] => i = j
                       /\ \A i \in 1..k : c[1] <= c[i]
                       /\ \A i \in 1..k : EdgeBetween(g, c[i], c[(i % k) + 1], "out")
           All == UNION {[1..k -> V] : k \in 1..len}
<1>1. c \in All <=> \E k \in 1..len : c \in [1..k -> V]
  OBVIOUS
<1>2. ASSUME NEW k \in 1..len, c \in [1..k -> V]
      PROVE  c \in Seq(V) /\ Len(c) = k /\ DOMAIN c = 1..Len(c)
  BY <1>2
<1>3. ASSUME c \in Seq(V), Len(c) \in 1..len PROVE c \in [1..Len(c) -> V]
  BY <1>3
<1>4. c \in All <=> c \in Seq(V) /\ Len(c) \in 1..len
  BY <1>1, <1>2, <1>3
<1>5. ASSUME c \in Seq(V)
      PROVE  Shape(Len(c)) <=>
               /\ IsInjective(c) /\ \A i \in DOMAIN c : c[1] <= c[i]
               /\ \A i \in DOMAIN c : EdgeBetween(g, c[i], c[(i % Len(c)) + 1], "out")
  <2>1. DOMAIN c = 1..Len(c)
    BY <1>5
  <2> QED
    BY <2>1 DEF IsInjective
<1> HIDE DEF All
<1>6. c \in SimpleCycles(g, V, len) <=>
        /\ c \in All /\ IsInjective(c) /\ \A i \in DOMAIN c : c[1] <= c[i]
        /\ \A i \in DOMAIN c : EdgeBetween(g, c[i], c[(i % Len(c)) + 1], "out")
  BY DEF SimpleCycles, All
<1> QED
  BY <1>4, <1>5, <1>6

\* When the last node is left, every cycle ahead is still ahead.
LEMMA AheadLeave ==
    ASSUME NEW g, NEW V, NEW dir, NEW p, NEW r, Stack(g, V, dir, p, r), p # <<>>,
           ToSet(Last(r)) = {}, NEW c, CycleAhead(p, r, c)
    PROVE  CycleAhead(Front(p), Front(r), c)
<1>1. /\ Len(p) \in Nat \ {0} /\ Len(Front(p)) = Len(p) - 1
      /\ \A i \in 1..(Len(p) - 1) : Front(p)[i] = p[i] /\ Front(r)[i] = r[i]
      /\ Last(r) = r[Len(p)]
  BY LeaveValues
<1>2. PICK i \in 1..Len(p) :
         i <= Len(c) /\ Begins(p, c, i) /\ c[(i % Len(c)) + 1] \in ToSet(r[i])
  BY DEF CycleAhead
<1>3. ToSet(r[Len(p)]) = {}
  BY <1>1
<1>4. i # Len(p)
  BY <1>2, <1>3
<1>5. i \in 1..(Len(p) - 1) /\ \A j \in 1..i : j \in 1..(Len(p) - 1)
  BY <1>1, <1>4
<1>6. Begins(Front(p), c, i)
  BY <1>1, <1>2, <1>5 DEF Begins
<1> QED
  BY <1>1, <1>2, <1>5, <1>6 DEF CycleAhead

\* When a neighbour is skipped, only the cycles that go on with it are lost.
LEMMA AheadSkip ==
    ASSUME NEW g, NEW V, NEW dir, NEW p, NEW r, Stack(g, V, dir, p, r), p # <<>>,
           Last(r) # <<>>, NEW c, CycleAhead(p, r, c)
    PROVE  \/ CycleAhead(p, Skipped(r), c)
           \/ /\ Len(p) <= Len(c) /\ Begins(p, c, Len(p))
              /\ c[(Len(p) % Len(c)) + 1] = Head(Last(r))
<1> DEFINE n == Head(Last(r))
           k == Len(p)
           q == Skipped(r)
<1>1. /\ Stack(g, V, dir, p, q) /\ k \in Nat \ {0}
      /\ p \in Seq(V) /\ r \in Seq(Seq(V)) /\ Len(q) = k /\ Len(r) = k
      /\ \A i \in 1..(k - 1) : q[i] = r[i]
      /\ \A m : m \in ToSet(r[k]) <=> m = n \/ m \in ToSet(q[k])
      /\ n \in V /\ EdgeBetween(g, p[k], n, dir)
  BY StackSkip
<1>2. PICK i \in 1..k :
         i <= Len(c) /\ Begins(p, c, i) /\ c[(i % Len(c)) + 1] \in ToSet(r[i])
  BY DEF CycleAhead
<1> HIDE DEF n, q
<1>3. CASE i = k /\ c[(i % Len(c)) + 1] = n
  BY <1>2, <1>3 DEF n
<1>4. CASE i = k /\ c[(i % Len(c)) + 1] # n
  <2>1. c[(i % Len(c)) + 1] \in ToSet(q[i])
    BY <1>1, <1>2, <1>4
  <2> QED
    BY <1>2, <2>1 DEF CycleAhead, q
<1>5. CASE i # k
  <2>1. i \in 1..(k - 1)
    BY <1>1, <1>5
  <2>2. c[(i % Len(c)) + 1] \in ToSet(q[i])
    BY <1>1, <1>2, <2>1
  <2> QED
    BY <1>2, <2>2 DEF CycleAhead, q
<1> QED
  BY <1>3, <1>4, <1>5

\* What is put on the stack loses no cycle ahead.
LEMMA AheadMore ==
    ASSUME NEW p, NEW r, NEW q, NEW t, NEW c, CycleAhead(p, r, c),
           Len(p) \in Nat, Len(q) \in Nat, Len(p) <= Len(q),
           \A i \in 1..Len(p) : q[i] = p[i] /\ t[i] = r[i]
    PROVE  CycleAhead(q, t, c)
<1>1. PICK i \in 1..Len(p) :
         i <= Len(c) /\ Begins(p, c, i) /\ c[(i % Len(c)) + 1] \in ToSet(r[i])
  BY DEF CycleAhead
<1>2. i \in 1..Len(q) /\ \A j \in 1..i : j \in 1..Len(p)
  OBVIOUS
<1>3. Begins(q, c, i)
  BY <1>1, <1>2 DEF Begins
<1> QED
  BY <1>1, <1>2, <1>3 DEF CycleAhead

\* A search from the next start node has its cycles ahead.
LEMMA SearchStart ==
    ASSUME NEW g, NEW V, V \subseteq Nat, NEW len \in Nat \ {0}, NEW r, NEW st, NEW R,
           Searching(g, V, len, <<>>, r, st, R), st # <<>>,
           NEW next \in Seq(V), ToSet(next) = {m \in V : EdgeBetween(g, Head(st), m, "out")}
    PROVE  Searching(g, V, len, <<Head(st)>>, <<next>>, Tail(st), R)
<1> DEFINE h == Head(st)
           All == SimpleCycles(g, V, len)
           p == <<h>>
           t == <<next>>
<1>1. st \in Seq(V) /\ h \in V /\ Tail(st) \in Seq(V) /\ R \subseteq All
  BY DEF Searching
<1>2. \A x : x \in ToSet(st) => x = h \/ x \in ToSet(Tail(st))
  BY <1>1, HeadAndTail
<1>3. /\ p \in Seq(V) /\ t \in Seq(Seq(V)) /\ Len(p) = 1 /\ Len(t) = 1
      /\ p[1] = h /\ t[1] = next /\ \A i \in 1..1 : i = 1
  BY <1>1
<1> HIDE DEF p, t, All, h
<1>4. \A i \in 1..Len(p) : \A m \in ToSet(t[i]) : EdgeBetween(g, p[i], m, "out")
  BY <1>3 DEF h
<1>5. 1..(Len(p) - 1) = {}
  BY <1>3
<1>6. \A i, j \in 1..Len(p) : p[i] = p[j] => i = j
  BY <1>3
<1>7. Stack(g, V, "out", p, t)
  BY <1>3, <1>4, <1>5, <1>6 DEF Stack
<1>8. ASSUME NEW c \in All, c \notin R, c[1] \notin ToSet(Tail(st))
      PROVE  CycleAhead(p, t, c)
  <2>1. /\ c \in Seq(V) /\ Len(c) \in 1..len
        /\ \A i \in 1..Len(c) : EdgeBetween(g, c[i], c[(i % Len(c)) + 1], "out")
    BY CycleFacts DEF All
  <2>2. 1..Len(<<>>) = {}
    OBVIOUS
  <2>3. ~CycleAhead(<<>>, r, c)
    BY <2>2 DEF CycleAhead
  <2>4. c[1] \in ToSet(st)
    BY <1>8, <2>3 DEF Searching, All
  <2>5. c[1] = h
    BY <1>2, <1>8, <2>4
  <2>6. Len(c) \in Nat \ {0} /\ 1 \in 1..Len(c)
    BY <2>1
  <2>7. (1 % Len(c)) + 1 \in 1..Len(c)
    BY <2>6, Onward
  <2>8. c[(1 % Len(c)) + 1] \in V /\ EdgeBetween(g, h, c[(1 % Len(c)) + 1], "out")
    BY <2>1, <2>5, <2>6, <2>7
  <2>9. c[(1 % Len(c)) + 1] \in ToSet(t[1])
    BY <1>3, <2>8 DEF h
  <2>10. Begins(p, c, 1)
    BY <1>3, <2>5 DEF Begins
  <2> QED
    BY <1>3, <2>6, <2>9, <2>10 DEF CycleAhead
<1>9. Len(p) <= len /\ \A i \in 1..Len(p) : p[1] <= p[i]
  BY <1>1, <1>3
<1> QED
  BY <1>1, <1>7, <1>8, <1>9 DEF Searching, p, t, All, h

\* When a node's neighbours are all looked at, the search leaves it.
LEMMA SearchLeave ==
    ASSUME NEW g, NEW V, NEW len \in Nat, NEW p, NEW r, NEW st, NEW R,
           Searching(g, V, len, p, r, st, R), p # <<>>, Last(r) = <<>>
    PROVE  Searching(g, V, len, Front(p), Front(r), st, R)
<1>1. Stack(g, V, "out", p, r)
  BY DEF Searching
<1>2. Stack(g, V, "out", Front(p), Front(r))
  BY <1>1, StackLeave
<1>3. ToSet(Last(r)) = {}
  BY DEF ToSet
<1>4. \A c : CycleAhead(p, r, c) => CycleAhead(Front(p), Front(r), c)
  BY <1>1, <1>3, AheadLeave
<1>5. /\ Len(p) \in Nat \ {0} /\ Len(Front(p)) = Len(p) - 1
      /\ \A i \in 1..(Len(p) - 1) : Front(p)[i] = p[i]
  BY <1>1, LeaveValues
<1> DEFINE f == Front(p)
           fr == Front(r)
<1> HIDE DEF f, fr
<1>6. Len(f) <= len /\ \A i \in 1..Len(f) : f[1] <= f[i]
  BY <1>5 DEF Searching, f
<1>7. Searching(g, V, len, f, fr, st, R)
  BY <1>2, <1>4, <1>6 DEF Searching, f, fr
<1> QED
  BY <1>7 DEF f, fr

\* The cycle that goes on with n after the walk p.
GoesOn(p, c, n) ==
    Len(p) <= Len(c) /\ Begins(p, c, Len(p)) /\ c[(Len(p) % Len(c)) + 1] = n

\* An edge that is skipped loses no cycle but those that go on with it.
LEMMA SearchSkip ==
    ASSUME NEW g, NEW V, NEW len \in Nat, NEW p, NEW r, NEW st, NEW R, NEW RR,
           Searching(g, V, len, p, r, st, R), p # <<>>, Last(r) # <<>>,
           R \subseteq RR, RR \subseteq SimpleCycles(g, V, len),
           \A c \in SimpleCycles(g, V, len) : GoesOn(p, c, Head(Last(r))) => c \in RR
    PROVE  Searching(g, V, len, p, Skipped(r), st, RR)
<1>1. Stack(g, V, "out", p, r)
  BY DEF Searching
<1>2. Stack(g, V, "out", p, Skipped(r))
  BY <1>1, StackSkip
<1>3. \A c : CycleAhead(p, r, c) =>
        CycleAhead(p, Skipped(r), c) \/ GoesOn(p, c, Head(Last(r)))
  BY <1>1, AheadSkip DEF GoesOn
<1> QED
  BY <1>2, <1>3 DEF Searching

\* A cycle that goes on with another node than the walk's first goes on with
\* a larger one that is not on the walk.
LEMMA GoesOnFurther ==
    ASSUME NEW g, NEW V, NEW len \in Nat, NEW p \in Seq(V), p # <<>>, p[1] \in Nat,
           NEW n \in Nat, n # p[1], NEW c \in SimpleCycles(g, V, len), GoesOn(p, c, n)
    PROVE  /\ Len(p) + 1 \in 1..Len(c) /\ c[Len(p) + 1] = n /\ Len(p) < len
           /\ n > p[1] /\ \A i \in 1..Len(p) : p[i] # n
<1> DEFINE k == Len(p)
<1>1. /\ c \in Seq(V) /\ Len(c) \in 1..len
      /\ \A i, j \in 1..Len(c) : c[i] = c[j] => i = j
      /\ \A i \in 1..Len(c) : c[1] <= c[i]
  BY CycleFacts
<1>2. /\ k \in Nat \ {0} /\ k <= Len(c) /\ \A j \in 1..k : p[j] = c[j]
      /\ c[(k % Len(c)) + 1] = n
  BY DEF GoesOn, Begins
<1>3. p[1] = c[1] /\ Len(c) \in Nat \ {0} /\ k \in 1..Len(c) /\ Len(c) <= len
  BY <1>1, <1>2
<1> HIDE DEF k
<1>4. (k % Len(c)) + 1 = (IF k = Len(c) THEN 1 ELSE k + 1)
  BY <1>3, Onward
<1>5. k # Len(c) /\ c[k + 1] = n
  BY <1>2, <1>3, <1>4
<1>6. k + 1 \in 1..Len(c) /\ k < len
  BY <1>2, <1>3, <1>5
<1>7. c[1] <= n /\ n # c[1]
  BY <1>1, <1>3, <1>5, <1>6
<1>8. n \in Nat /\ c[1] \in Nat
  BY <1>3
<1>9. n > p[1]
  BY <1>3, <1>7, <1>8
<1>10. ASSUME NEW i \in 1..k, p[i] = n PROVE FALSE
  <2>1. i \in 1..Len(c) /\ c[i] = c[k + 1] /\ i # k + 1
    BY <1>2, <1>5, <1>6, <1>10
  <2> QED
    BY <1>1, <1>6, <2>1
<1> QED
  BY <1>5, <1>6, <1>9, <1>10 DEF k

\* The walk goes on with a node: its cycles stay ahead.
LEMMA SearchExtend ==
    ASSUME NEW g, NEW V, V \subseteq Nat, NEW len \in Nat, NEW p, NEW r, NEW st, NEW R,
           Searching(g, V, len, p, r, st, R), p # <<>>, Last(r) # <<>>,
           NEW n, n = Head(Last(r)), n > p[1], \A i \in 1..Len(p) : p[i] # n, Len(p) < len,
           NEW next \in Seq(V), ToSet(next) = {m \in V : EdgeBetween(g, n, m, "out")}
    PROVE  Searching(g, V, len, Append(p, n), Append(Skipped(r), next), st, R)
<1> DEFINE k == Len(p)
           s == Skipped(r)
           q == Append(p, n)
           t == Append(s, next)
<1>1. Stack(g, V, "out", p, r)
  BY DEF Searching
<1>2. /\ Stack(g, V, "out", p, s) /\ k \in Nat \ {0} /\ p \in Seq(V) /\ Len(s) = k
      /\ n \in V /\ EdgeBetween(g, p[k], n, "out")
  BY <1>1, StackSkip
<1>3. \A m \in ToSet(next) : EdgeBetween(g, n, m, "out")
  OBVIOUS
<1>8. p[1] \in Nat /\ n \in Nat
  <2>1. 1 \in 1..k /\ p[1] \in V
    BY <1>2
  <2> QED
    BY <1>2, <2>1
<1> HIDE DEF s
<1>4. /\ Stack(g, V, "out", q, t) /\ Len(q) = k + 1
      /\ \A i \in 1..k : q[i] = p[i] /\ t[i] = s[i]
      /\ q[k + 1] = n /\ t[k + 1] = next
  <2>1. s \in Seq(Seq(V))
    BY <1>2 DEF Stack
  <2>2. Pushed(V, q, p, n) /\ Pushed(Seq(V), t, s, next)
    BY <1>2, <2>1, AppendPushed
  <2> HIDE DEF q, t
  <2>3. Stack(g, V, "out", q, t)
    BY <1>2, <1>3, <2>2, StackDescend
  <2> QED
    BY <1>2, <2>2, <2>3 DEF Pushed
<1> HIDE DEF q, t, k
<1>5. Len(q) <= len /\ \A i \in 1..Len(q) : q[1] <= q[i]
  <2>1. \A i \in 1..(k + 1) : i \in 1..k \/ i = k + 1
    BY <1>2
  <2>2. 1 \in 1..k /\ q[1] = p[1] /\ p[1] <= n
    BY <1>2, <1>4, <1>8
  <2>3. \A i \in 1..k : p[1] <= p[i]
    BY DEF Searching, k
  <2> QED
    BY <1>2, <1>4, <2>1, <2>2, <2>3 DEF k
<1>6. ASSUME NEW c \in SimpleCycles(g, V, len), CycleAhead(p, r, c)
      PROVE  CycleAhead(q, t, c)
  <2>1. CASE CycleAhead(p, s, c)
    <3>1. Len(p) <= Len(q) /\ Len(p) \in Nat /\ Len(q) \in Nat
      BY <1>2, <1>4 DEF k
    <3>2. \A i \in 1..Len(p) : q[i] = p[i] /\ t[i] = s[i]
      BY <1>4 DEF k
    <3> QED
      BY <2>1, <3>1, <3>2, AheadMore
  <2>2. CASE GoesOn(p, c, n)
    <3>1. k + 1 \in 1..Len(c) /\ c[k + 1] = n
      <4>2. p \in Seq(V) /\ p # <<>> /\ GoesOn(p, c, n) /\ c \in SimpleCycles(g, V, len)
        BY <1>2, <2>2
      <4>1. n # p[1]
        BY <1>8
      <4>3. /\ Len(p) + 1 \in 1..Len(c) /\ c[Len(p) + 1] = n /\ Len(p) < len
            /\ n > p[1] /\ \A i \in 1..Len(p) : p[i] # n
        <5> HIDE DEF k
        <5> QED
          BY <1>8, <4>1, <4>2, GoesOnFurther
      <4> QED
        BY <4>3 DEF k
    <3>2. /\ c \in Seq(V) /\ Len(c) \in 1..len
          /\ \A i \in 1..Len(c) : EdgeBetween(g, c[i], c[(i % Len(c)) + 1], "out")
      BY CycleFacts
    <3>3. Len(c) \in Nat \ {0}
      BY <3>2
    <3>4. ((k + 1) % Len(c)) + 1 \in 1..Len(c)
      BY <3>1, <3>3, Onward
    <3>5. c[((k + 1) % Len(c)) + 1] \in ToSet(next)
      BY <3>1, <3>2, <3>4
    <3>6. Begins(q, c, k + 1)
      <4>1. \A j \in 1..(k + 1) : j \in 1..k \/ j = k + 1
        BY <1>2
      <4>2. \A j \in 1..k : p[j] = c[j]
        BY <2>2 DEF GoesOn, Begins, k
      <4> QED
        BY <1>4, <3>1, <4>1, <4>2 DEF Begins
    <3>7. k + 1 \in 1..Len(q) /\ k + 1 <= Len(c)
      BY <1>2, <1>4, <3>1, <3>3
    <3> QED
      BY <1>4, <3>5, <3>6, <3>7 DEF CycleAhead
  <2> QED
    BY <1>1, <1>6, <2>1, <2>2, AheadSkip DEF GoesOn, s
<1>7. Searching(g, V, len, q, t, st, R)
  BY <1>4, <1>5, <1>6 DEF Searching
<1> QED
  BY <1>7 DEF q, t, s

\* An edge back to the first node closes exactly the walk.
LEMMA GoesOnClosed ==
    ASSUME NEW g, NEW V, NEW len \in Nat, NEW p \in Seq(V), p # <<>>,
           NEW c \in SimpleCycles(g, V, len), GoesOn(p, c, p[1])
    PROVE  c = p
<1> DEFINE k == Len(p)
<1>1. /\ c \in Seq(V) /\ Len(c) \in 1..len
      /\ \A i, j \in 1..Len(c) : c[i] = c[j] => i = j
  BY CycleFacts
<1>2. /\ k \in Nat \ {0} /\ k <= Len(c) /\ \A j \in 1..k : p[j] = c[j]
      /\ c[(k % Len(c)) + 1] = p[1]
  BY DEF GoesOn, Begins
<1>3. p[1] = c[1] /\ Len(c) \in Nat \ {0} /\ k \in 1..Len(c) /\ 1 \in 1..Len(c)
  BY <1>1, <1>2
<1> HIDE DEF k
<1>4. (k % Len(c)) + 1 = (IF k = Len(c) THEN 1 ELSE k + 1) /\ (k % Len(c)) + 1 \in 1..Len(c)
  BY <1>3, Onward
<1>5. (k % Len(c)) + 1 = 1
  BY <1>1, <1>2, <1>3, <1>4
<1>6. k = Len(c)
  BY <1>2, <1>4, <1>5
<1> QED
  BY <1>1, <1>2, <1>6, SeqEqual DEF k

\* A walk closed by an edge back to its first node is a cycle.
LEMMA ClosedWalk ==
    ASSUME NEW g, NEW V, NEW len \in Nat, NEW p, NEW r, NEW st, NEW R,
           Searching(g, V, len, p, r, st, R), p # <<>>, EdgeBetween(g, p[Len(p)], p[1], "out")
    PROVE  p \in SimpleCycles(g, V, len)
<1> DEFINE k == Len(p)
<1>1. /\ p \in Seq(V) /\ k <= len /\ \A i \in 1..k : p[1] <= p[i]
      /\ \A i, j \in 1..k : p[i] = p[j] => i = j
      /\ \A i \in 1..(k - 1) : EdgeBetween(g, p[i], p[i + 1], "out")
  BY DEF Searching, Stack
<1>2. k \in Nat \ {0} /\ k \in 1..len
  BY <1>1
<1> HIDE DEF k
<1>3. ASSUME NEW i \in 1..k PROVE EdgeBetween(g, p[i], p[(i % k) + 1], "out")
  <2>1. (i % k) + 1 = (IF i = k THEN 1 ELSE i + 1)
    BY <1>2, Onward
  <2>2. CASE i = k
    BY <2>1, <2>2 DEF k
  <2>3. CASE i # k
    <3>1. i \in 1..(k - 1) /\ (i % k) + 1 = i + 1
      BY <1>2, <2>1, <2>3
    <3> QED
      BY <1>1, <3>1
  <2> QED
    BY <2>2, <2>3
<1> QED
  BY <1>1, <1>2, <1>3, CycleFacts DEF k

\* The neighbours the search looks at: those within the scope.
LEMMA ScopeNext ==
    ASSUME Given, NEW n
    PROVE  LET next == InScope(Ends(graph, n, "out"))
           IN /\ next \in Seq(ToSet(Scope))
              /\ ToSet(next) = {m \in ToSet(Scope) : EdgeBetween(graph, n, m, "out")}
<1> DEFINE e == Ends(graph, n, "out")
           V == ToSet(Scope)
<1>1. e \in Seq(Nodes) /\ ToSet(e) = {m \in Nodes : EdgeBetween(graph, n, m, "out")}
  BY EndsAre DEF Given
<1>2. V \subseteq Nodes
  BY ScopeNodes
<1> HIDE DEF e, V
<1>3. Keep(e, V) \in Seq(Nodes \cap V) /\ ToSet(Keep(e, V)) = ToSet(e) \cap V
  BY <1>1, KeepValues
<1>4. Nodes \cap V = V
  BY <1>2
<1>5. ToSet(e) \cap V = {m \in V : EdgeBetween(graph, n, m, "out")}
  BY <1>1, <1>2
<1> QED
  BY <1>3, <1>4, <1>5 DEF InScope, e, V

\* A running search has a positive length bound.
LEMMA CycleBound == ASSUME Given, Runs("cycles") PROVE CycleLen(query) \in Nat \ {0}
<1>1. query.hops \in Nat \ {0} /\ MAX_CYCLE_LEN \in Nat \ {0}
  BY QueryFields, GraphAssumption DEF Given, Runs, Immediate, QueryTypes
<1> QED
  BY <1>1 DEF CycleLen, Least

\* Every step of the search keeps each cycle found or ahead.
LEMMA CyclesKept ==
    ASSUME Given, CyclesInv, Runs("cycles"), CycleStart \/ CycleStep
    PROVE  CyclesInv'
<1> DEFINE V == ToSet(Scope)
           len == CycleLen(query)
           I(p, r, st, R) == Searching(graph, V, len, p, r, st, R)
<1>1. I(path, rest, starts, result) /\ len \in Nat \ {0}
  BY CycleBound DEF CyclesInv
<1>2. V \subseteq Nat
  BY ScopeNodes, GraphAssumption
<1> SUFFICES graph' = graph /\ query' = query /\ I(path', rest', starts', result')
  BY DEF CyclesInv
<1>3. graph' = graph /\ query' = query
  BY DEF CycleStart, CycleStep
<1> HIDE DEF V, len
<1>4. CASE CycleStart
  <2> DEFINE next == InScope(Ends(graph, Head(starts), "out"))
  <2>1. /\ path = <<>> /\ starts # <<>> /\ starts' = Tail(starts) /\ result' = result
        /\ path' = <<Head(starts)>> /\ rest' = <<next>>
    BY <1>4 DEF CycleStart
  <2>2. next \in Seq(V) /\ ToSet(next) = {m \in V : EdgeBetween(graph, Head(starts), m, "out")}
    BY ScopeNext DEF V
  <2> HIDE DEF next
  <2>3. Searching(graph, V, len, <<>>, rest, starts, result)
    BY <1>1, <2>1
  <2>4. Searching(graph, V, len, <<Head(starts)>>, <<next>>, Tail(starts), result)
    BY <1>1, <1>2, <2>1, <2>2, <2>3, SearchStart
  <2> QED
    BY <1>3, <2>1, <2>4
<1>5. CASE CycleStep
  <2>1. path # <<>> /\ starts' = starts
    BY <1>5 DEF CycleStep, Walking
  <2>2. path \in Seq(V) /\ Stack(graph, V, "out", path, rest)
    BY <1>1 DEF Searching, Stack
  <2>3. Head(path) = path[1] /\ DOMAIN path = 1..Len(path) /\ Len(path) \in Nat
    BY <2>1, <2>2
  <2>4. CASE Last(rest) = <<>> /\ Leave /\ UNCHANGED result
    <3>1. Searching(graph, V, len, Front(path), Front(rest), starts, result)
      BY <1>1, <2>1, <2>4, SearchLeave
    <3> QED
      BY <1>3, <2>1, <2>4, <3>1 DEF Leave
  <2>5. CASE /\ Last(rest) # <<>> /\ NextNode = Head(path) /\ Skip
             /\ result' = IF Len(path) <= CycleLen(query) THEN result \cup {path} ELSE result
    <3>1. Len(path) <= len /\ result \subseteq SimpleCycles(graph, V, len)
      BY <1>1 DEF Searching
    <3>2. result' = result \cup {path}
      BY <2>5, <3>1 DEF len
    <3>3. path' = path /\ rest' = Skipped(rest) /\ path[1] = Head(Last(rest))
      BY <2>3, <2>5 DEF Skip, NextNode, Skipped
    <3>4. EdgeBetween(graph, path[Len(path)], path[1], "out")
      <4>1. Last(rest) # <<>>
        BY <2>5
      <4>2. EdgeBetween(graph, path[Len(path)], Head(Last(rest)), "out")
        BY <2>1, <2>2, <4>1, StackSkip
      <4> QED
        BY <3>3, <4>2
    <3>5. path \in SimpleCycles(graph, V, len)
      BY <1>1, <2>1, <3>4, ClosedWalk
    <3>6. result \subseteq result' /\ result' \subseteq SimpleCycles(graph, V, len)
      BY <3>1, <3>2, <3>5
    <3>7. ASSUME NEW c \in SimpleCycles(graph, V, len), GoesOn(path, c, Head(Last(rest)))
          PROVE  c \in result'
      BY <1>1, <2>1, <2>2, <3>2, <3>3, <3>7, GoesOnClosed
    <3>8. Searching(graph, V, len, path, Skipped(rest), starts, result')
      BY <1>1, <2>1, <2>5, <3>6, <3>7, SearchSkip
    <3> QED
      BY <1>3, <2>1, <3>3, <3>8
  <2>6. CASE /\ Last(rest) # <<>> /\ NextNode # Head(path) /\ UNCHANGED result
             /\ ~ExtendsCycle(NextNode) /\ Skip
    <3> DEFINE n == Head(Last(rest))
    <3>1. path' = path /\ rest' = Skipped(rest) /\ n = NextNode /\ n # path[1]
      BY <2>3, <2>6 DEF Skip, NextNode, Skipped
    <3>2. n \in V
      BY <2>1, <2>2, <2>6, StackSkip
    <3>3. n \in Nat /\ path[1] \in Nat
      <4>1. 1 \in 1..Len(path) /\ path[1] \in V
        BY <2>1, <2>2
      <4> QED
        BY <1>2, <3>2, <4>1
    <3>4. \/ ~(n > path[1]) \/ (\E i \in 1..Len(path) : path[i] = n) \/ ~(Len(path) < len)
      BY <2>3, <2>6, <3>1 DEF ExtendsCycle, OnPath, len
    <3> HIDE DEF n
    <3>5. ASSUME NEW c \in SimpleCycles(graph, V, len), GoesOn(path, c, n)
          PROVE  FALSE
      <4>1. /\ n > path[1] /\ Len(path) < len /\ \A i \in 1..Len(path) : path[i] # n
        BY <1>1, <2>1, <2>2, <3>1, <3>3, <3>5, GoesOnFurther
      <4> QED
        BY <3>4, <4>1
    <3>6. result \subseteq SimpleCycles(graph, V, len)
      BY <1>1 DEF Searching
    <3>7. Searching(graph, V, len, path, Skipped(rest), starts, result)
      BY <1>1, <2>1, <2>6, <3>5, <3>6, SearchSkip DEF n
    <3> QED
      BY <1>3, <2>1, <2>6, <3>1, <3>7
  <2>7. CASE /\ Last(rest) # <<>> /\ NextNode # Head(path) /\ UNCHANGED result
             /\ ExtendsCycle(NextNode)
             /\ Descend(NextNode, InScope(Ends(graph, NextNode, "out")))
    <3> DEFINE n == Head(Last(rest))
               next == InScope(Ends(graph, n, "out"))
    <3>1. path' = Append(path, n) /\ rest' = Append(Skipped(rest), next)
      BY <2>7 DEF Descend, NextNode, Skipped
    <3>2. n > path[1] /\ (\A i \in 1..Len(path) : path[i] # n) /\ Len(path) < len
      BY <2>3, <2>7 DEF ExtendsCycle, OnPath, NextNode, len
    <3>3. next \in Seq(V) /\ ToSet(next) = {m \in V : EdgeBetween(graph, n, m, "out")}
      BY ScopeNext DEF V
    <3> HIDE DEF next
    <3>4. Searching(graph, V, len, Append(path, n), Append(Skipped(rest), next), starts, result)
      BY <1>1, <1>2, <2>1, <2>7, <3>2, <3>3, SearchExtend
    <3> QED
      BY <1>3, <2>1, <2>7, <3>1, <3>4
  <2> QED
    BY <1>5, <2>4, <2>5, <2>6, <2>7 DEF CycleStep
<1> QED
  BY <1>4, <1>5

\* There are finitely many cycles, and they are sequences of ids.
LEMMA CyclesFinite ==
    ASSUME NEW g, NEW len \in Nat
    PROVE  LET all == SimpleCycles(g, ToSet(Scope), len)
           IN IsFiniteSet(all) /\ Cardinality(all) \in Nat /\ all \subseteq Seq(Nat)
<1> DEFINE V == ToSet(Scope)
           all == SimpleCycles(g, V, len)
           F == UNION {[1..k -> V] : k \in 1..len}
<1>1. V \subseteq Nodes /\ V \subseteq Nat /\ IsFiniteSet(V)
  BY ScopeNodes, GraphAssumption, FS_Subset
<1>2. IsFiniteSet(F)
  BY <1>1, FiniteFunctions
<1>3. all \subseteq F
  BY DEF SimpleCycles
<1>4. IsFiniteSet(all)
  BY <1>2, <1>3, FS_Subset
<1>5. \A c \in all : c \in Seq(V)
  BY CycleFacts
<1>6. all \subseteq Seq(Nat)
  <2> HIDE DEF all, V
  <2>1. ASSUME NEW c \in all PROVE c \in Seq(Nat)
    <3>1. c \in Seq(V)
      BY <1>5
    <3>3. /\ c = [i \in 1..Len(c) |-> c[i]] /\ Len(c) \in Nat
          /\ \A i \in 1..Len(c) : c[i] \in V
      BY <3>1
    <3>2. c \in [1..Len(c) -> Nat] /\ Len(c) \in Nat
      BY <1>1, <3>3
    <3> QED
      BY <3>2
  <2> QED
    BY <2>1
<1> QED
  BY <1>4, <1>6, FS_CardinalityType

\* cycles before its first step.
LEMMA CyclesInit == Init => CyclesInv /\ CyclesExact
<1> SUFFICES ASSUME Init PROVE CyclesInv /\ CyclesExact
  OBVIOUS
<1> DEFINE V == ToSet(Scope)
           len == CycleLen(query)
           all == SimpleCycles(graph, V, len)
<1>1. Given /\ QueryTypes
  BY GivenInit, QueryFields
<1>2. len \in Nat
  BY <1>1 DEF QueryTypes
<1>3. ASSUME Runs("cycles") PROVE CyclesInv
  <2>1. path = <<>> /\ rest = <<>> /\ starts = Scope /\ result = {}
    BY <1>3 DEF Init, Runs, Expands, Empty
  <2>2. Stack(graph, V, "out", <<>>, <<>>)
    <3>1. /\ <<>> \in Seq(V) /\ <<>> \in Seq(Seq(V)) /\ Len(<<>>) = 0
          /\ 1..0 = {} /\ 1..(0 - 1) = {}
      OBVIOUS
    <3> QED
      BY <3>1 DEF Stack
  <2>3. Scope \in Seq(V)
    BY ScopeNodes DEF ToSet
  <2>4. ASSUME NEW c \in all PROVE c[1] \in V
    <3>1. c \in Seq(V) /\ Len(c) \in 1..len
      BY <1>2, CycleFacts
    <3> QED
      BY <1>2, <3>1
  <2>5. Len(<<>>) <= len /\ \A i \in 1..Len(<<>>) : <<>>[1] <= <<>>[i]
    BY <1>2
  <2> HIDE DEF V, len
  <2>6. Searching(graph, V, len, <<>>, <<>>, Scope, {})
    BY <2>2, <2>3, <2>4, <2>5 DEF Searching, V
  <2> QED
    BY <2>1, <2>6 DEF CyclesInv, V, len
<1>4. ASSUME Answers("cycles") PROVE CyclesExact
  <2>1. result = {} /\ (query.hops = 0 \/ query.limit = 0)
    BY <1>4 DEF Init, Answers, Immediate, Answer, Empty
  <2>2. Cardinality(all) \in Nat
    BY <1>2, CyclesFinite
  <2>3. ASSUME query.hops = 0 PROVE all = {}
    <3>1. len = 0
      BY <2>3, GraphAssumption DEF CycleLen, Least
    <3>2. 1..len = {}
      BY <3>1
    <3> QED
      BY <1>2, <3>2, CycleFacts
  <2>4. Cardinality({}) = 0
    BY FS_EmptySet
  <2>5. 0 = Least(Cardinality(all), query.limit)
    BY <1>1, <2>1, <2>2, <2>3, <2>4 DEF Least, QueryTypes
  <2> HIDE DEF all
  <2>6. /\ {} \subseteq all /\ Cardinality({}) = Least(Cardinality(all), query.limit)
        /\ \A c \in all \ {}, d \in {} : Smaller(d, c)
    BY <2>4, <2>5
  <2> QED
    BY <2>1, <2>6 DEF CyclesExact, all, V, len, CycleLen
<1> QED
  BY <1>3, <1>4 DEF CyclesInv, CyclesExact

\* The cycles are all found when the search ends, and the limit keeps the
\* smallest.
LEMMA CyclesSorted ==
    ASSUME Given, CyclesInv, CyclesDone
    PROVE  CyclesExact'
<1> DEFINE V == ToSet(Scope)
           len == CycleLen(query)
           all == SimpleCycles(graph, V, len)
           before == [c \in all |-> {d \in all : Smaller(d, c)}]
           first == Prefix(Enumerate(before), query.limit)
<1>1. /\ Runs("cycles") /\ path = <<>> /\ starts = <<>>
      /\ graph' = graph /\ query' = query
      /\ result' = ToSet(Prefix(Enumerate([c \in result |-> {d \in result : Smaller(d, c)}]),
                                query.limit))
  BY DEF CyclesDone
<1>2. len \in Nat /\ query.limit \in Nat
  BY QueryFields DEF QueryTypes
<1>3. Searching(graph, V, len, <<>>, rest, <<>>, result)
  BY <1>1 DEF CyclesInv
<1>4. result = all
  <2>1. ToSet(<<>>) = {}
    BY DEF ToSet
  <2>2. \A c : ~CycleAhead(<<>>, rest, c)
    BY DEF CycleAhead
  <2> QED
    BY <1>3, <2>1, <2>2 DEF Searching
<1>5. result' = ToSet(first)
  BY <1>1, <1>4
<1>6. IsFiniteSet(all) /\ Cardinality(all) \in Nat /\ all \subseteq Seq(Nat)
  BY <1>2, CyclesFinite
<1> HIDE DEF all
<1>7. /\ \A x \in all : ~Smaller(x, x)
      /\ \A x, y, z \in all : Smaller(x, y) /\ Smaller(y, z) => Smaller(x, z)
      /\ \A x, y \in all : x = y \/ Smaller(x, y) \/ Smaller(y, x)
  BY <1>6, SmallerOrder
<1>8. \A x, y \in all : x \in before[y] <=> Smaller(x, y)
  OBVIOUS
<1>9. before = [x \in all |-> before[x]] /\ \A x \in all : before[x] \subseteq all
  OBVIOUS
<1> HIDE DEF before
<1>10. /\ \A x \in all : before[x] \subseteq all /\ x \notin before[x]
       /\ \A x, y, z \in all : x \in before[y] /\ y \in before[z] => x \in before[z]
       /\ \A x, y \in all : x = y \/ x \in before[y] \/ y \in before[x]
  BY <1>7, <1>8, <1>9
<1>11. DOMAIN before = all /\ StrictOrder(before)
  BY <1>6, <1>9, <1>10, OrderedBy
<1>12. /\ first \in Seq(all) /\ Len(first) = Least(Cardinality(all), query.limit)
       /\ \A x \in all \ ToSet(first) : \A i \in 1..Len(first) : first[i] \in before[x]
       /\ Cardinality(ToSet(first)) = Len(first)
  BY <1>2, <1>11, FirstOf
<1> HIDE DEF first
<1>13. /\ ToSet(first) \subseteq all
       /\ \A x : x \in ToSet(first) <=> \E i \in 1..Len(first) : first[i] = x
  BY <1>12, ToSetOfSeq
<1>14. \A c \in all \ ToSet(first), d \in ToSet(first) : Smaller(d, c)
  BY <1>8, <1>12, <1>13
<1>15. /\ ToSet(first) \subseteq all
       /\ Cardinality(ToSet(first)) = Least(Cardinality(all), query.limit)
       /\ \A c \in all \ ToSet(first), d \in ToSet(first) : Smaller(d, c)
  BY <1>12, <1>13, <1>14
<1> QED
  BY <1>1, <1>5, <1>15 DEF CyclesExact, all, V, len, CycleLen

-----------------------------------------------------------------------------
(* call_hierarchy.                                                         *)

\* A walk is a sequence of nodes that follows edges and repeats at most its
\* last node.
LEMMA WalkFacts ==
    ASSUME NEW g, NEW a, NEW dir, NEW b \in Nat, NEW w
    PROVE  w \in WalksFrom(g, a, dir, b)
             <=> /\ w \in Seq(Nodes) /\ Len(w) \in 1..b /\ w[1] = a
                 /\ \A i, j \in 1..(Len(w) - 1) : w[i] = w[j] => i = j
                 /\ \A i \in 1..(Len(w) - 1) :
                       w[i] # w[i + 1] /\ EdgeBetween(g, w[i], w[i + 1], dir)
<1> DEFINE All == UNION {[1..k -> Nodes] : k \in 1..b}
<1>1. w \in All <=> \E k \in 1..b : w \in [1..k -> Nodes]
  OBVIOUS
<1>2. ASSUME NEW k \in 1..b, w \in [1..k -> Nodes]
      PROVE  w \in Seq(Nodes) /\ Len(w) = k
  BY <1>2
<1>3. ASSUME w \in Seq(Nodes), Len(w) \in 1..b PROVE w \in [1..Len(w) -> Nodes]
  BY <1>3
<1>4. w \in All <=> w \in Seq(Nodes) /\ Len(w) \in 1..b
  BY <1>1, <1>2, <1>3
<1> HIDE DEF All
<1>5. w \in WalksFrom(g, a, dir, b)
        <=> /\ w \in All /\ w[1] = a
            /\ \A i, j \in 1..(Len(w) - 1) : w[i] = w[j] => i = j
            /\ \A i \in 1..(Len(w) - 1) :
                  w[i] # w[i + 1] /\ EdgeBetween(g, w[i], w[i + 1], dir)
  BY DEF WalksFrom, All
<1> QED
  BY <1>4, <1>5

\* When the last node is left, every walk ahead is still ahead.
LEMMA WalkAheadLeave ==
    ASSUME NEW g, NEW V, NEW dir, NEW p, NEW r, Stack(g, V, dir, p, r), p # <<>>,
           ToSet(Last(r)) = {}, NEW R, NEW w, WalkAhead(p, r, R, w)
    PROVE  WalkAhead(Front(p), Front(r), R, w)
<1>1. /\ Len(p) \in Nat \ {0} /\ Len(Front(p)) = Len(p) - 1
      /\ \A i \in 1..(Len(p) - 1) : Front(p)[i] = p[i] /\ Front(r)[i] = r[i]
      /\ Last(r) = r[Len(p)]
  BY LeaveValues
<1>2. PICK i \in 1..Len(p) :
         /\ i < Len(w) /\ Begins(p, w, i) /\ w[i + 1] \in ToSet(r[i])
         /\ ~Listed(R, w, i + 1)
  BY DEF WalkAhead
<1>3. ToSet(r[Len(p)]) = {}
  BY <1>1
<1>4. i # Len(p)
  BY <1>2, <1>3
<1>5. i \in 1..(Len(p) - 1) /\ \A j \in 1..i : j \in 1..(Len(p) - 1)
  BY <1>1, <1>4
<1>6. Begins(Front(p), w, i)
  BY <1>1, <1>2, <1>5 DEF Begins
<1> QED
  BY <1>1, <1>2, <1>5, <1>6 DEF WalkAhead

\* When a neighbour is skipped, only the walks that go on with it are lost.
LEMMA WalkAheadSkip ==
    ASSUME NEW g, NEW V, NEW dir, NEW p, NEW r, Stack(g, V, dir, p, r), p # <<>>,
           Last(r) # <<>>, NEW R, NEW w, WalkAhead(p, r, R, w)
    PROVE  \/ WalkAhead(p, Skipped(r), R, w)
           \/ /\ Len(p) < Len(w) /\ Begins(p, w, Len(p))
              /\ w[Len(p) + 1] = Head(Last(r)) /\ ~Listed(R, w, Len(p) + 1)
<1> DEFINE n == Head(Last(r))
           k == Len(p)
           q == Skipped(r)
<1>1. /\ k \in Nat \ {0} /\ \A i \in 1..(k - 1) : q[i] = r[i]
      /\ \A m : m \in ToSet(r[k]) <=> m = n \/ m \in ToSet(q[k])
  <2>1. /\ Stack(g, V, dir, p, q) /\ k \in Nat \ {0}
        /\ p \in Seq(V) /\ r \in Seq(Seq(V)) /\ Len(q) = k /\ Len(r) = k
        /\ \A i \in 1..(k - 1) : q[i] = r[i]
        /\ \A m : m \in ToSet(r[k]) <=> m = n \/ m \in ToSet(q[k])
        /\ n \in V /\ EdgeBetween(g, p[k], n, dir)
    BY StackSkip
  <2> QED
    BY <2>1
<1>2. PICK i \in 1..k :
         /\ i < Len(w) /\ Begins(p, w, i) /\ w[i + 1] \in ToSet(r[i])
         /\ ~Listed(R, w, i + 1)
  BY DEF WalkAhead
<1> HIDE DEF n, q
<1>3. CASE i = k /\ w[i + 1] = n
  BY <1>2, <1>3 DEF n
<1>4. CASE i = k /\ w[i + 1] # n
  <2>1. w[i + 1] \in ToSet(q[i])
    BY <1>1, <1>2, <1>4
  <2> QED
    BY <1>2, <2>1 DEF WalkAhead, q
<1>5. CASE i # k
  <2>1. i \in 1..(k - 1)
    BY <1>1, <1>5
  <2>2. w[i + 1] \in ToSet(q[i])
    BY <1>1, <1>2, <2>1
  <2> QED
    BY <1>2, <2>2 DEF WalkAhead, q
<1> QED
  BY <1>3, <1>4, <1>5

\* What begins with a listed walk lists it too.
LEMMA ListedPrefix ==
    ASSUME NEW R, NEW p, NEW w, NEW k, Listed(R, p, k), Begins(p, w, k)
    PROVE  Listed(R, w, k)
BY DEF Listed, Begins

\* When a node's neighbours are all looked at, the walk leaves it.
LEMMA ExploreLeave ==
    ASSUME NEW g, NEW a, NEW dir, NEW hops \in Nat, NEW p, NEW r, NEW R,
           Exploring(g, a, dir, hops, p, r, R), p # <<>>, Last(r) = <<>>
    PROVE  Exploring(g, a, dir, hops, Front(p), Front(r), R)
<1> DEFINE k == Len(p)
           f == Front(p)
           fr == Front(r)
<1>1. Stack(g, Nodes, dir, p, r) /\ k <= hops /\ p[1] = a /\ Listed(R, p, k)
  BY DEF Exploring
<1>2. Stack(g, Nodes, dir, f, fr)
  BY <1>1, StackLeave
<1>3. ToSet(Last(r)) = {}
  BY DEF ToSet
<1>4. \A w : WalkAhead(p, r, R, w) => WalkAhead(f, fr, R, w)
  BY <1>1, <1>3, WalkAheadLeave
<1>5. f \in Seq(Nodes) /\ k \in Nat \ {0} /\ Len(f) = k - 1 /\ \A i \in 1..(k - 1) : f[i] = p[i]
  BY <1>1, LeaveValues
<1> HIDE DEF f, fr, k
<1>6. ASSUME f # <<>> PROVE f[1] = a /\ Listed(R, f, Len(f))
  <2>1. 1 \in 1..(k - 1) /\ k > 1
    BY <1>5, <1>6
  <2>2. f[1] = a
    BY <1>1, <1>5, <2>1
  <2>3. PICK c \in R : Len(c.path) = k /\ Begins(c.path, p, k)
    BY <1>1 DEF Listed
  <2>4. Listed(R, c.path, k - 1)
    BY <2>1, <2>3 DEF Exploring
  <2>5. Begins(c.path, f, k - 1)
    <3>1. \A j \in 1..(k - 1) : j \in 1..k
      BY <1>5
    <3> QED
      BY <1>5, <2>3, <3>1 DEF Begins
  <2>6. Listed(R, f, k - 1)
    BY <2>4, <2>5, ListedPrefix
  <2> QED
    BY <1>5, <2>2, <2>6
<1>7. Len(f) <= hops
  BY <1>1, <1>5
<1>8. Exploring(g, a, dir, hops, f, fr, R)
  BY <1>2, <1>4, <1>6, <1>7 DEF Exploring
<1> QED
  BY <1>8 DEF f, fr

\* Skipping a self-loop or a neighbour that is already a child loses nothing.
LEMMA ExploreSkip ==
    ASSUME NEW g, NEW a, NEW dir, NEW hops \in Nat, NEW p, NEW r, NEW R,
           Exploring(g, a, dir, hops, p, r, R), p # <<>>, Last(r) # <<>>,
           Head(Last(r)) = Last(p) \/ \E c \in R : c.path = Append(p, Head(Last(r)))
    PROVE  Exploring(g, a, dir, hops, p, Skipped(r), R)
<1> DEFINE k == Len(p)
           n == Head(Last(r))
           All == WalksFrom(g, a, dir, hops + 1)
<1>1. Stack(g, Nodes, dir, p, r)
  BY DEF Exploring
<1>2. Stack(g, Nodes, dir, p, Skipped(r))
  BY <1>1, StackSkip
<1>3. p \in Seq(Nodes) /\ k \in Nat \ {0}
  BY <1>1 DEF Stack
<1>4. ASSUME NEW w \in All, k < Len(w), Begins(p, w, k), w[k + 1] = n,
             ~Listed(R, w, k + 1)
      PROVE  FALSE
  <2>1. /\ w \in Seq(Nodes) /\ Len(w) \in Nat
        /\ \A i \in 1..(Len(w) - 1) : w[i] # w[i + 1]
    BY WalkFacts
  <2>2. k \in 1..(Len(w) - 1) /\ k \in 1..k
    BY <1>3, <1>4, <2>1
  <2>3. CASE n = Last(p)
    <3>1. Last(p) = p[k]
      BY DEF Last
    <3>2. w[k] = p[k]
      BY <1>4, <2>2 DEF Begins
    <3> QED
      BY <1>4, <2>1, <2>2, <2>3, <3>1, <3>2
  <2>4. CASE \E c \in R : c.path = Append(p, n)
    <3>1. PICK c \in R : c.path = Append(p, n)
      BY <2>4
    <3> DEFINE x == c.path
    <3>2. Len(x) = k + 1 /\ x[k + 1] = n /\ \A i \in 1..k : x[i] = p[i]
      BY <1>3, <3>1, AppendProperties
    <3>3. \A i \in 1..(k + 1) : i \in 1..k \/ i = k + 1
      BY <1>3
    <3>4. Begins(x, w, k + 1)
      BY <1>4, <3>2, <3>3 DEF Begins
    <3> QED
      BY <1>4, <3>2, <3>4 DEF Listed
  <2> QED
    BY <2>3, <2>4
<1>5. ASSUME NEW w \in All, WalkAhead(p, r, R, w) PROVE WalkAhead(p, Skipped(r), R, w)
  BY <1>1, <1>4, <1>5, WalkAheadSkip
<1> QED
  BY <1>2, <1>5 DEF Exploring

\* A new child of the last node is a walk.
LEMMA NewChild ==
    ASSUME NEW g, NEW a, NEW dir, NEW hops \in Nat, NEW p, NEW r, NEW R,
           Exploring(g, a, dir, hops, p, r, R), p # <<>>, Last(r) # <<>>,
           NEW n, n = Head(Last(r)), n # Last(p), NEW x, Pushed(Nodes, x, p, n)
    PROVE  x \in WalksFrom(g, a, dir, hops + 1)
<1> DEFINE k == Len(p)
<1>1. Stack(g, Nodes, dir, p, r) /\ k <= hops /\ p[1] = a
  BY DEF Exploring
<1>2. /\ p \in Seq(Nodes) /\ \A i, j \in 1..k : p[i] = p[j] => i = j
      /\ \A i \in 1..(k - 1) : EdgeBetween(g, p[i], p[i + 1], dir)
  BY <1>1 DEF Stack
<1>3. /\ Stack(g, Nodes, dir, p, Skipped(r)) /\ k \in Nat \ {0}
      /\ n \in Nodes /\ EdgeBetween(g, p[k], n, dir)
  BY <1>1, StackSkip
<1>4. x \in Seq(Nodes) /\ Len(x) = k + 1 /\ x[k + 1] = n /\ \A i \in 1..k : x[i] = p[i]
  BY DEF Pushed
<1>5. n # p[k]
  BY DEF Last
<1> HIDE DEF k
<1>6. ASSUME NEW i \in 1..k
      PROVE  x[i] # x[i + 1] /\ EdgeBetween(g, x[i], x[i + 1], dir)
  <2>1. CASE i = k
    BY <1>3, <1>4, <1>5, <2>1
  <2>2. CASE i # k
    <3>1. i \in 1..(k - 1) /\ i + 1 \in 1..k /\ i # i + 1
      BY <1>3, <2>2
    <3> QED
      BY <1>2, <1>4, <3>1
  <2> QED
    BY <2>1, <2>2
<1>7. Len(x) - 1 = k /\ Len(x) \in 1..(hops + 1) /\ x[1] = a /\ hops + 1 \in Nat
  <2>1. 1 \in 1..k
    BY <1>3
  <2> QED
    BY <1>1, <1>3, <1>4, <2>1
<1>8. \A i, j \in 1..k : x[i] = x[j] => i = j
  BY <1>2, <1>4
<1>9. x \in WalksFrom(g, a, dir, hops + 1)
  <2> DEFINE b == hops + 1
  <2>1. b \in Nat /\ x \in Seq(Nodes) /\ Len(x) \in 1..b /\ x[1] = a
    BY <1>4, <1>7
  <2>2. /\ \A i, j \in 1..(Len(x) - 1) : x[i] = x[j] => i = j
        /\ \A i \in 1..(Len(x) - 1) :
              x[i] # x[i + 1] /\ EdgeBetween(g, x[i], x[i + 1], dir)
    BY <1>6, <1>7, <1>8
  <2> HIDE DEF b
  <2>3. x \in WalksFrom(g, a, dir, b)
    BY <2>1, <2>2, WalkFacts
  <2> QED
    BY <2>3 DEF b
<1> QED
  BY <1>9

\* The walks that go on with a new child, and those that do not.
LEMMA AheadChild ==
    ASSUME NEW g, NEW a, NEW dir, NEW hops \in Nat, NEW p, NEW r, NEW R,
           Exploring(g, a, dir, hops, p, r, R), p # <<>>, Last(r) # <<>>,
           NEW x, Len(x) = Len(p) + 1, x[Len(p) + 1] = Head(Last(r)),
           \A i \in 1..Len(p) : x[i] = p[i],
           NEW y, y.path = x, NEW w, WalkAhead(p, r, R, w)
    PROVE  \/ WalkAhead(p, Skipped(r), R \cup {y}, w)
           \/ Len(p) < Len(w) /\ Begins(x, w, Len(x)) /\ ~Listed(R, w, Len(x))
<1> DEFINE n == Head(Last(r))
           k == Len(p)
           q == Skipped(r)
<1>1. Stack(g, Nodes, dir, p, r)
  BY DEF Exploring
<1>2. /\ k \in Nat \ {0} /\ \A i \in 1..(k - 1) : q[i] = r[i]
      /\ \A m : m \in ToSet(r[k]) <=> m = n \/ m \in ToSet(q[k])
  <2>1. /\ Stack(g, Nodes, dir, p, q) /\ k \in Nat \ {0}
        /\ p \in Seq(Nodes) /\ r \in Seq(Seq(Nodes)) /\ Len(q) = k /\ Len(r) = k
        /\ \A i \in 1..(k - 1) : q[i] = r[i]
        /\ \A m : m \in ToSet(r[k]) <=> m = n \/ m \in ToSet(q[k])
        /\ n \in Nodes /\ EdgeBetween(g, p[k], n, dir)
    BY <1>1, StackSkip
  <2> QED
    BY <2>1
<1>3. PICK i \in 1..k :
         /\ i < Len(w) /\ Begins(p, w, i) /\ w[i + 1] \in ToSet(r[i])
         /\ ~Listed(R, w, i + 1)
  BY DEF WalkAhead
<1> HIDE DEF n, q, k
<1>4. CASE i = k /\ w[i + 1] = n
  <2>1. \A j \in 1..(k + 1) : j \in 1..k \/ j = k + 1
    BY <1>2
  <2>2. Begins(x, w, k + 1)
    BY <1>3, <1>4, <2>1 DEF Begins, k, n
  <2> QED
    BY <1>3, <1>4, <2>2 DEF k
<1>5. CASE ~(i = k /\ w[i + 1] = n)
  <2>1. w[i + 1] \in ToSet(q[i])
    <3>1. CASE i = k
      BY <1>2, <1>3, <1>5, <3>1
    <3>2. CASE i # k
      <4>1. i \in 1..(k - 1)
        BY <1>2, <3>2
      <4> QED
        BY <1>2, <1>3, <4>1
    <3> QED
      BY <3>1, <3>2
  <2>2. ~Listed(R \cup {y}, w, i + 1)
    <3> SUFFICES ASSUME NEW c \in R \cup {y}, Len(c.path) = i + 1, Begins(c.path, w, i + 1)
                 PROVE  FALSE
      BY DEF Listed
    <3>1. c \notin R
      BY <1>3 DEF Listed
    <3>2. c.path = x
      BY <3>1
    <3>3. i = k
      BY <1>2, <3>2 DEF k
    <3>4. i + 1 \in 1..(i + 1)
      BY <1>2
    <3>5. x[i + 1] = w[i + 1]
      BY <3>2, <3>4 DEF Begins
    <3> QED
      BY <1>5, <3>3, <3>5 DEF k, n
  <2> QED
    BY <1>3, <2>1, <2>2 DEF WalkAhead, q, k
<1> QED
  BY <1>4, <1>5

\* Adding a new child, and descending to it unless it turns back or is at the
\* depth bound.
LEMMA ExploreChild ==
    ASSUME NEW g, NEW a, NEW dir, NEW hops \in Nat, NEW p, NEW r, NEW R,
           Exploring(g, a, dir, hops, p, r, R), p # <<>>, Last(r) # <<>>,
           NEW n, n = Head(Last(r)), NEW x \in WalksFrom(g, a, dir, hops + 1),
           Pushed(Nodes, x, p, n), NEW next, ToSet(next) = {m \in Nodes : EdgeBetween(g, n, m, dir)},
           NEW t, Pushed(Seq(Nodes), t, Skipped(r), next)
    PROVE  LET stop == (\E i \in 1..Len(p) : p[i] = n) \/ Len(p) >= hops
               RR == R \cup {Branch(x, hops)}
           IN /\ stop => Exploring(g, a, dir, hops, p, Skipped(r), RR)
              /\ ~stop => Exploring(g, a, dir, hops, x, t, RR)
<1> DEFINE k == Len(p)
           s == Skipped(r)
           y == Branch(x, hops)
           RR == R \cup {y}
           All == WalksFrom(g, a, dir, hops + 1)
           stop == (\E i \in 1..k : p[i] = n) \/ k >= hops
<1>1. Stack(g, Nodes, dir, p, r) /\ k <= hops /\ p[1] = a /\ Listed(R, p, k)
  BY DEF Exploring
<1>2. /\ Stack(g, Nodes, dir, p, s) /\ k \in Nat \ {0} /\ p \in Seq(Nodes) /\ Len(s) = k
      /\ n \in Nodes /\ EdgeBetween(g, p[k], n, dir)
  BY <1>1, StackSkip
<1>3. /\ x \in All /\ Len(x) = k + 1
      /\ x[k + 1] = n /\ \A i \in 1..k : x[i] = p[i]
  BY DEF Pushed
<1>0. hops + 1 \in Nat
  OBVIOUS
<1>4. y.path = x /\ y = Branch(y.path, hops)
  BY DEF Branch
<1> HIDE DEF s, y, k, All
<1>5. \A c : \A j : Listed(R, c, j) => Listed(RR, c, j)
  BY DEF Listed
<1>6. ASSUME NEW c \in RR
      PROVE  /\ c.path \in All /\ c = Branch(c.path, hops)
             /\ Len(c.path) > 1 => Listed(RR, c.path, Len(c.path) - 1)
  <2>1. CASE c \in R
    BY <1>5, <2>1 DEF Exploring, All
  <2>2. CASE c = y
    <3>1. Begins(p, x, k)
      BY <1>3 DEF Begins
    <3>2. Listed(RR, x, k)
      BY <1>1, <1>5, <3>1, ListedPrefix
    <3>3. Len(x) - 1 = k
      BY <1>2, <1>3
    <3> QED
      BY <1>3, <1>4, <2>2, <3>2, <3>3
  <2> QED
    BY <2>1, <2>2
<1>7. ASSUME NEW w \in All, Branch(w, hops) \notin RR
      PROVE  \/ WalkAhead(p, s, RR, w)
             \/ /\ k + 1 < Len(w) /\ Begins(x, w, k + 1) /\ ~Listed(R, w, k + 1)
  <2>1. WalkAhead(p, r, R, w)
    BY <1>7 DEF Exploring, All
  <2>2. \/ WalkAhead(p, s, RR, w)
        \/ k < Len(w) /\ Begins(x, w, k + 1) /\ ~Listed(R, w, k + 1)
    <3>1. Len(x) = Len(p) + 1 /\ x[Len(p) + 1] = Head(Last(r)) /\ \A i \in 1..Len(p) : x[i] = p[i]
      BY <1>3 DEF k
    <3>2. \/ WalkAhead(p, Skipped(r), R \cup {y}, w)
          \/ Len(p) < Len(w) /\ Begins(x, w, Len(x)) /\ ~Listed(R, w, Len(x))
      BY <1>4, <2>1, <3>1, AheadChild
    <3> QED
      BY <1>3, <3>2 DEF s, k
  <2>3. ASSUME Len(w) = k + 1, Begins(x, w, k + 1) PROVE FALSE
    <3>1. w \in Seq(Nodes) /\ x \in Seq(Nodes) /\ Len(w) = Len(x)
      <4>1. \A v \in All : v \in Seq(Nodes)
        BY <1>0, WalkFacts DEF All
      <4> QED
        BY <1>3, <2>3, <4>1
    <3>2. w = x
      <4>1. \A i \in 1..Len(w) : w[i] = x[i]
        BY <2>3 DEF Begins
      <4> QED
        BY <3>1, <4>1, SeqEqual
    <3> QED
      BY <1>7, <3>2 DEF y
  <2>4. Len(w) \in Nat
    BY WalkFacts DEF All
  <2> QED
    BY <1>2, <2>2, <2>3, <2>4
<1>8. ASSUME NEW w \in All, k + 1 < Len(w), Begins(x, w, k + 1)
      PROVE  ~stop /\ w[k + 2] \in ToSet(next)
  <2>1. /\ w \in Seq(Nodes) /\ Len(w) \in 1..(hops + 1)
        /\ \A i, j \in 1..(Len(w) - 1) : w[i] = w[j] => i = j
        /\ \A i \in 1..(Len(w) - 1) : EdgeBetween(g, w[i], w[i + 1], dir)
    BY WalkFacts DEF All
  <2>2. /\ k + 1 \in 1..(Len(w) - 1) /\ (k + 1) + 1 = k + 2 /\ k < hops
        /\ k + 2 \in 1..Len(w) /\ \A i \in 1..k : i \in 1..(Len(w) - 1) /\ i \in 1..(k + 1)
        /\ \A i \in 1..k : i # k + 1
    BY <1>2, <1>8, <2>1
  <2>3. w[k + 1] = n /\ \A i \in 1..k : w[i] = p[i]
    <3>1. k + 1 \in 1..(k + 1)
      BY <1>2
    <3> QED
      BY <1>3, <1>8, <2>2, <3>1 DEF Begins
  <2>4. \A i \in 1..k : p[i] # n
    BY <2>1, <2>2, <2>3
  <2>5. w[k + 2] \in Nodes /\ EdgeBetween(g, n, w[k + 2], dir)
    BY <2>1, <2>2, <2>3
  <2>6. ~(k >= hops)
    BY <1>2, <2>2
  <2> QED
    BY <2>4, <2>5, <2>6
<1>9. CASE stop
  <2>2. \A w \in All : Branch(w, hops) \in RR \/ WalkAhead(p, s, RR, w)
    BY <1>7, <1>8, <1>9
  <2> HIDE DEF RR
  <2>3. Exploring(g, a, dir, hops, p, s, RR)
    BY <1>1, <1>2, <1>5, <1>6, <2>2 DEF Exploring, All, k
  <2> QED
    BY <1>9, <2>3 DEF RR, y, s, k
<1>10. CASE ~stop
  <2>1. k < hops
    BY <1>1, <1>2, <1>10
  <2>2. /\ Stack(g, Nodes, dir, x, t) /\ t[k + 1] = next /\ \A i \in 1..k : t[i] = s[i]
    <3>1. \A i \in 1..Len(p) : p[i] # n
      BY <1>10 DEF k
    <3>2. \A m \in ToSet(next) : EdgeBetween(g, n, m, dir)
      OBVIOUS
    <3>3. EdgeBetween(g, p[Len(p)], n, dir)
      BY <1>2 DEF k
    <3>4. Pushed(Seq(Nodes), t, s, next)
      BY DEF s
    <3>5. Stack(g, Nodes, dir, x, t)
      BY <1>2, <3>1, <3>2, <3>3, <3>4, StackDescend
    <3> QED
      BY <1>2, <3>4, <3>5 DEF Pushed, k
  <2>3. Len(x) <= hops /\ x # <<>> /\ x[1] = a /\ Listed(RR, x, Len(x))
    <3>1. 1 \in 1..k
      BY <1>2
    <3>2. Begins(x, x, Len(x))
      BY DEF Begins
    <3>3. Listed(RR, x, Len(x))
      BY <1>4, <3>2 DEF Listed
    <3> QED
      BY <1>1, <1>2, <1>3, <2>1, <3>1, <3>3
  <2>4. ASSUME NEW w \in All, Branch(w, hops) \notin RR PROVE WalkAhead(x, t, RR, w)
    <3>1. CASE WalkAhead(p, s, RR, w)
      <4>1. PICK i \in 1..k :
               /\ i < Len(w) /\ Begins(p, w, i) /\ w[i + 1] \in ToSet(s[i])
               /\ ~Listed(RR, w, i + 1)
        BY <3>1 DEF WalkAhead, k
      <4>2. i \in 1..Len(x) /\ \A j \in 1..i : j \in 1..k
        BY <1>2, <1>3
      <4>3. Begins(x, w, i) /\ w[i + 1] \in ToSet(t[i])
        BY <1>3, <2>2, <4>1, <4>2 DEF Begins
      <4> QED
        BY <4>1, <4>2, <4>3 DEF WalkAhead
    <3>2. CASE k + 1 < Len(w) /\ Begins(x, w, k + 1) /\ ~Listed(R, w, k + 1)
      <4>1. w[k + 2] \in ToSet(next) /\ (k + 1) + 1 = k + 2 /\ k + 1 \in 1..Len(x)
        BY <1>2, <1>3, <1>8, <3>2
      <4>2. ~Listed(RR, w, k + 2)
        <5> SUFFICES ASSUME NEW c \in RR, Len(c.path) = k + 2, Begins(c.path, w, k + 2)
                     PROVE  FALSE
          BY DEF Listed
        <5>1. c # y
          BY <1>2, <1>3, <1>4
        <5>6. c \in R /\ Len(c.path) > 1
          BY <1>2, <5>1
        <5>2. Listed(R, c.path, (k + 2) - 1)
          BY <5>6 DEF Exploring
        <5>3. (k + 2) - 1 = k + 1 /\ \A j \in 1..(k + 1) : j \in 1..(k + 2)
          BY <1>2
        <5>4. Begins(c.path, w, k + 1)
          BY <5>3 DEF Begins
        <5>5. Listed(R, w, k + 1)
          BY <5>2, <5>3, <5>4, ListedPrefix
        <5> QED
          BY <3>2, <5>5
      <4> QED
        BY <2>2, <3>2, <4>1, <4>2 DEF WalkAhead
    <3> QED
      BY <1>7, <2>4, <3>1, <3>2
  <2> HIDE DEF RR
  <2>5. Exploring(g, a, dir, hops, x, t, RR)
    BY <1>6, <2>2, <2>3, <2>4 DEF Exploring, All
  <2> QED
    BY <1>10, <2>5 DEF RR, y, k
<1> QED
  BY <1>9, <1>10

\* Every step of the expansion keeps each walk listed or ahead.
LEMMA HierarchyKept ==
    ASSUME Given, HierarchyInv, Runs("hierarchy"), HierarchyStep
    PROVE  HierarchyInv'
<1> DEFINE a == query.start
           dir == query.dir
           hops == query.hops
           I(p, r, R) == Exploring(graph, a, dir, hops, p, r, R)
<1>1. I(path, rest, result) /\ hops \in Nat /\ dir \in {"out", "in", "both"}
  BY QueryFields DEF HierarchyInv, QueryTypes
<1>2. Hops(query) = hops
  BY DEF Hops, Runs
<1> SUFFICES graph' = graph /\ query' = query /\ I(path', rest', result')
  BY DEF HierarchyInv
<1>3. graph' = graph /\ query' = query /\ path # <<>>
  BY DEF HierarchyStep, Walking
<1> HIDE DEF a, dir, hops
<1>4. Stack(graph, Nodes, dir, path, rest)
  BY <1>1 DEF Exploring
<1>5. path \in Seq(Nodes) /\ DOMAIN path = 1..Len(path)
  BY <1>4 DEF Stack
<1> DEFINE n == Head(Last(rest))
           x == Append(path, n)
           next == Ends(graph, n, dir)
           stop == (\E i \in 1..Len(path) : path[i] = n) \/ Len(path) >= hops
<1>6. CASE Last(rest) = <<>> /\ Leave /\ UNCHANGED result
  <2>1. I(Front(path), Front(rest), result)
    BY <1>1, <1>3, <1>6, ExploreLeave
  <2> QED
    BY <1>3, <1>6, <2>1 DEF Leave
<1>7. CASE /\ Last(rest) # <<>> /\ Skip /\ UNCHANGED result
           /\ n = Last(path) \/ \E c \in result : c.path = x
  <2>1. I(path, Skipped(rest), result)
    BY <1>1, <1>3, <1>7, ExploreSkip
  <2>2. path' = path /\ rest' = Skipped(rest)
    BY <1>7 DEF Skip, Skipped
  <2> QED
    BY <1>3, <1>7, <2>1, <2>2
<1>8. CASE /\ Last(rest) # <<>>
           /\ ~(n = Last(path) \/ \E c \in result : c.path = x)
           /\ result' = result \cup {Child(n, BackEdge(n), ~BackEdge(n) /\ Len(path) >= hops)}
           /\ IF BackEdge(n) \/ Len(path) >= hops THEN Skip ELSE Descend(n, next)
  <2>1. BackEdge(n) <=> \E i \in 1..Len(path) : path[i] = n
    BY <1>5 DEF BackEdge, OnPath
  <2>2. IF stop THEN path' = path /\ rest' = Skipped(rest)
        ELSE path' = x /\ rest' = Append(Skipped(rest), next)
    BY <1>8, <2>1 DEF Skip, Descend, Skipped
  <2>3. Last(rest) # <<>> /\ n # Last(path)
    BY <1>8
  <2>4. /\ Stack(graph, Nodes, dir, path, Skipped(rest)) /\ Len(path) \in Nat \ {0}
        /\ path \in Seq(Nodes) /\ rest \in Seq(Seq(Nodes))
        /\ n \in Nodes
    BY <1>3, <1>4, <2>3, StackSkip
  <2>5. Skipped(rest) \in Seq(Seq(Nodes))
    BY <2>4 DEF Stack
  <2>6. next \in Seq(Nodes) /\ ToSet(next) = {m \in Nodes : EdgeBetween(graph, n, m, dir)}
    BY <1>1, EndsAre DEF Given
  <2> DEFINE t == Append(Skipped(rest), next)
  <2>7. Pushed(Nodes, x, path, n)
    BY <2>4, AppendPushed
  <2>8. Pushed(Seq(Nodes), t, Skipped(rest), next)
    BY <2>5, <2>6, AppendPushed
  <2> HIDE DEF x, t, next, n
  <2>12. n = Head(Last(rest))
    BY DEF n
  <2>9. /\ x \in WalksFrom(graph, a, dir, hops + 1) /\ Len(x) = Len(path) + 1
        /\ x[Len(path) + 1] = n /\ \A i \in 1..Len(path) : x[i] = path[i]
        /\ Turns(x) <=> \E i \in 1..Len(path) : path[i] = n
        /\ Len(x) = hops + 1 <=> Len(path) >= hops
    <3>1. Exploring(graph, a, dir, hops, path, rest, result) /\ hops \in Nat
      BY <1>1
    <3>2. x \in WalksFrom(graph, a, dir, hops + 1)
      BY <1>3, <2>3, <2>7, <2>12, <3>1, NewChild
    <3>5. /\ Len(x) = Len(path) + 1 /\ Len(x) - 1 = Len(path)
          /\ x[Len(path) + 1] = n /\ \A i \in 1..Len(path) : x[i] = path[i]
      BY <2>4, <2>7 DEF Pushed
    <3>3. Turns(x) <=> \E i \in 1..Len(path) : path[i] = n
      BY <3>5 DEF Turns
    <3>4. Len(x) = hops + 1 <=> Len(path) >= hops
      <4>1. Len(path) <= hops
        BY <1>1 DEF Exploring
      <4> QED
        BY <1>1, <2>4, <3>5, <4>1
    <3> QED
      BY <3>2, <3>3, <3>4, <3>5
  <2>10. result' = result \cup {Branch(x, hops)}
    <3>1. Child(n, BackEdge(n), ~BackEdge(n) /\ Len(path) >= hops)
            = [path |-> x, cyclic |-> BackEdge(n), truncated |-> ~BackEdge(n) /\ Len(path) >= hops]
      BY DEF Child, x
    <3>2. Turns(x) = BackEdge(n) /\ (Len(x) = hops + 1) = (Len(path) >= hops)
      BY <2>1, <2>9 DEF Turns, BackEdge, OnPath
    <3>3. Branch(x, hops) = [path |-> x, cyclic |-> BackEdge(n),
                             truncated |-> ~BackEdge(n) /\ Len(path) >= hops]
      BY <3>2 DEF Branch
    <3> QED
      BY <1>8, <3>1, <3>3
  <2>11. /\ stop => I(path, Skipped(rest), result \cup {Branch(x, hops)})
         /\ ~stop => I(x, t, result \cup {Branch(x, hops)})
    BY <1>1, <1>3, <2>3, <2>6, <2>7, <2>8, <2>9, ExploreChild DEF n
  <2> QED
    BY <1>3, <2>2, <2>10, <2>11 DEF t
<1> QED
  BY <1>2, <1>6, <1>7, <1>8 DEF HierarchyStep, NextNode, dir

\* No walk has its start outside the graph.
LEMMA NoWalks ==
    ASSUME NEW g, NEW a, a \notin Nodes, NEW dir, NEW b \in Nat
    PROVE  WalksFrom(g, a, dir, b) = {}
<1> SUFFICES ASSUME NEW w \in WalksFrom(g, a, dir, b) PROVE FALSE
  OBVIOUS
<1>1. w \in Seq(Nodes) /\ Len(w) \in 1..b /\ w[1] = a
  BY WalkFacts
<1>2. w[1] \in Nodes
  BY <1>1
<1> QED
  BY <1>1, <1>2

\* call_hierarchy before its first step: only the root is listed.
LEMMA HierarchyInit == Init => HierarchyInv /\ HierarchyExact
<1> SUFFICES ASSUME Init PROVE HierarchyInv /\ HierarchyExact
  OBVIOUS
<1> DEFINE a == query.start
           dir == query.dir
           hops == query.hops
           All == WalksFrom(graph, a, dir, hops + 1)
           root == <<a>>
           y == Branch(root, hops)
<1>1. Given /\ QueryTypes
  BY GivenInit, QueryFields
<1>2. hops \in Nat /\ hops + 1 \in Nat /\ dir \in {"out", "in", "both"}
  BY <1>1 DEF QueryTypes
<1>3. ASSUME Runs("hierarchy") PROVE HierarchyInv
  <2>1. a \in Nodes
    BY <1>3 DEF Init, Runs, Immediate
  <2>2. /\ result = {[path |-> <<a>>, cyclic |-> FALSE, truncated |-> hops = 0]}
        /\ path = IF hops > 0 THEN root ELSE <<>>
        /\ rest = IF hops > 0 THEN <<Ends(graph, a, dir)>> ELSE <<>>
    BY <1>3, <2>1 DEF Init, Runs, Expands
  <2> DEFINE next == Ends(graph, a, dir)
             t == <<next>>
  <2>3. next \in Seq(Nodes) /\ ToSet(next) = {m \in Nodes : EdgeBetween(graph, a, m, dir)}
    BY <1>1, <1>2, EndsAre DEF Given
  <2> HIDE DEF next
  <2>4. /\ root \in Seq(Nodes) /\ Len(root) = 1 /\ root[1] = a /\ 1..(Len(root) - 1) = {}
        /\ t \in Seq(Seq(Nodes)) /\ Len(t) = 1 /\ t[1] = next /\ \A i \in 1..1 : i = 1
    BY <2>1, <2>3
  <2> HIDE DEF root, t
  <2>5. y = [path |-> root, cyclic |-> FALSE, truncated |-> hops = 0]
    <3>1. ~Turns(root)
      BY <2>4 DEF Turns
    <3>2. Turns(root) = FALSE
      BY <3>1 DEF Turns
    <3>3. (~Turns(root) /\ Len(root) = hops + 1) = (hops = 0)
      BY <1>2, <2>4, <3>1
    <3> QED
      BY <3>2, <3>3 DEF Branch
  <2>6. result = {y} /\ y.path = root /\ y = Branch(y.path, hops)
    <3>1. y.path = root
      BY DEF Branch
    <3>2. result = {[path |-> root, cyclic |-> FALSE, truncated |-> hops = 0]}
      BY <2>2 DEF root
    <3> HIDE DEF y
    <3>3. result = {y}
      BY <2>5, <3>2
    <3> QED
      BY <3>1, <3>3 DEF y
  <2>7. root \in All
    <3> DEFINE b == hops + 1
    <3>1. b \in Nat /\ Len(root) \in 1..b
      BY <1>2, <2>4
    <3>2. /\ \A i, j \in 1..(Len(root) - 1) : root[i] = root[j] => i = j
          /\ \A i \in 1..(Len(root) - 1) :
                root[i] # root[i + 1] /\ EdgeBetween(graph, root[i], root[i + 1], dir)
      BY <2>4
    <3> HIDE DEF b, a, dir
    <3>3. root \in WalksFrom(graph, a, dir, b)
      BY <2>4, <3>1, <3>2, WalkFacts
    <3> QED
      BY <3>3 DEF b
  <2> HIDE DEF y, All
  <2>8. ASSUME NEW w \in All, Len(w) = 1 PROVE w = root
    <3>1. w \in Seq(Nodes) /\ w[1] = a
      BY <1>2, WalkFacts DEF All
    <3>2. Len(w) = Len(root) /\ \A i \in 1..Len(w) : w[i] = root[i]
      BY <2>4, <2>8, <3>1
    <3> QED
      BY <2>4, <3>1, <3>2, SeqEqual
  <2>9. ASSUME NEW w \in All PROVE Len(w) \in 1..(hops + 1)
    BY <1>2, WalkFacts DEF All
  <2>13. Len(y.path) = 1
    <3>1. Len(root) = 1
      BY <2>4
    <3> QED
      BY <2>6, <3>1
  <2>10. \A c \in {y} : /\ c.path \in All /\ c = Branch(c.path, hops)
                        /\ Len(c.path) > 1 => Listed({y}, c.path, Len(c.path) - 1)
    <3>1. ASSUME NEW c, c = y
          PROVE  /\ c.path \in All /\ c = Branch(c.path, hops)
                 /\ Len(c.path) = 1
      BY <2>6, <2>7, <2>13, <3>1
    <3>2. \A n : n = 1 => ~(n > 1)
      OBVIOUS
    <3>3. \A c \in {y} : c = y
      OBVIOUS
    <3> HIDE DEF hops
    <3> QED
      BY <3>1, <3>2, <3>3
  <2>11. CASE hops = 0
    <3>1. Stack(graph, Nodes, dir, <<>>, <<>>)
      <4>1. /\ <<>> \in Seq(Nodes) /\ <<>> \in Seq(Seq(Nodes)) /\ Len(<<>>) = 0
            /\ 1..0 = {} /\ 1..(0 - 1) = {}
        OBVIOUS
      <4> QED
        BY <4>1 DEF Stack
    <3>2. \A w \in All : Branch(w, hops) \in {y}
      <4>1. \A w \in All : Len(w) = 1
        BY <2>9, <2>11
      <4> QED
        BY <2>8, <4>1 DEF y
    <3>3. Exploring(graph, a, dir, hops, <<>>, <<>>, {y})
      BY <2>10, <2>11, <3>1, <3>2 DEF Exploring, All
    <3>4. path = <<>> /\ rest = <<>> /\ result = {y}
      BY <2>2, <2>6, <2>11
    <3> QED
      BY <3>3, <3>4 DEF HierarchyInv
  <2>12. CASE hops > 0
    <3>1. Stack(graph, Nodes, dir, root, t)
      BY <2>3, <2>4 DEF Stack
    <3>2. Len(root) <= hops /\ root[1] = a
      BY <1>2, <2>4, <2>12
    <3>3. Listed({y}, root, Len(root))
      BY <2>6 DEF Listed, Begins
    <3>4. ASSUME NEW w \in All, Branch(w, hops) \notin {y} PROVE WalkAhead(root, t, {y}, w)
      <4>1. Len(w) \in Nat /\ 1 < Len(w)
        <5>1. Len(w) # 1
          BY <2>8, <3>4 DEF y
        <5>2. Len(w) \in 1..(hops + 1)
          BY <2>9
        <5> HIDE DEF hops
        <5>3. \A n \in 1..(hops + 1) : n # 1 => n \in Nat /\ 1 < n
          BY <1>2
        <5> QED
          BY <5>1, <5>2, <5>3
      <4>2. /\ w \in Seq(Nodes) /\ w[1] = a
            /\ \A i \in 1..(Len(w) - 1) : EdgeBetween(graph, w[i], w[i + 1], dir)
        BY <1>2, WalkFacts DEF All
      <4>3. 1 \in 1..(Len(w) - 1) /\ 1 + 1 \in 1..Len(w)
        BY <4>1
      <4>4. w[1 + 1] \in ToSet(t[1])
        BY <2>3, <2>4, <4>2, <4>3
      <4>5. ~Listed({y}, w, 1 + 1)
        <5>1. Len(y.path) # 1 + 1
          BY <2>13
        <5> QED
          BY <5>1 DEF Listed
      <4>6. Begins(root, w, 1)
        BY <2>4, <4>2 DEF Begins
      <4> QED
        BY <2>4, <4>1, <4>4, <4>5, <4>6 DEF WalkAhead
    <3>5. Exploring(graph, a, dir, hops, root, t, {y})
      BY <2>10, <3>1, <3>2, <3>3, <3>4 DEF Exploring, All
    <3>6. path = root /\ rest = t /\ result = {y}
      BY <2>2, <2>6, <2>12 DEF t, next
    <3> QED
      BY <3>5, <3>6 DEF HierarchyInv
  <2> QED
    BY <1>2, <2>11, <2>12
<1>4. ASSUME Answers("hierarchy") PROVE HierarchyExact
  <2>1. result = {} /\ a \notin Nodes
    BY <1>4 DEF Init, Answers, Immediate, Answer, Empty
  <2>2. All = {}
    BY <1>2, <2>1, NoWalks
  <2> QED
    BY <2>1, <2>2 DEF HierarchyExact
<1> QED
  BY <1>3, <1>4 DEF HierarchyInv, HierarchyExact

\* When the stack is empty, exactly the walks are listed.
LEMMA HierarchyListed ==
    ASSUME Given, HierarchyInv, HierarchyDone
    PROVE  HierarchyExact'
<1> DEFINE a == query.start
           dir == query.dir
           hops == query.hops
           All == WalksFrom(graph, a, dir, hops + 1)
<1>1. /\ Runs("hierarchy") /\ path = <<>> /\ result' = result
      /\ graph' = graph /\ query' = query
  BY DEF HierarchyDone
<1>2. Exploring(graph, a, dir, hops, <<>>, rest, result)
  BY <1>1 DEF HierarchyInv
<1> HIDE DEF All
<1>3. \A w \in All : Branch(w, hops) \in result
  <2>1. \A w : ~WalkAhead(<<>>, rest, result, w)
    BY DEF WalkAhead
  <2> QED
    BY <1>2, <2>1 DEF Exploring, All
<1>4. \A c \in result : c.path \in All /\ c = Branch(c.path, hops)
  BY <1>2 DEF Exploring, All
<1>5. result = {Branch(w, hops) : w \in All}
  BY <1>3, <1>4
<1> QED
  BY <1>1, <1>5 DEF HierarchyExact, Branch, All

-----------------------------------------------------------------------------
DepthFirstInv == Given /\ CyclesInv /\ HierarchyInv /\ PathInUse
                   /\ CyclesExact /\ HierarchyExact

\* The invariant of the depth-first walks holds at first.
LEMMA DepthFirstInit == Init => DepthFirstInv
<1>1. Init => PathInUse
  BY DEF Init, PathInUse, Expands, Runs, Immediate
<1> QED
  BY <1>1, GivenInit, CyclesInit, HierarchyInit DEF DepthFirstInv

\* Every step keeps it.
LEMMA DepthFirstNext == DepthFirstInv /\ [Next]_vars => DepthFirstInv'
<1> SUFFICES ASSUME DepthFirstInv, [Next]_vars PROVE DepthFirstInv'
  OBVIOUS
<1>1. CASE UNCHANGED vars
  BY <1>1 DEF DepthFirstInv, vars, Given, CyclesInv, HierarchyInv, PathInUse, CyclesExact,
     HierarchyExact, Runs, Answers
<1>2. CASE pc # "done" /\ Next
  <2>1. Given /\ CyclesInv /\ HierarchyInv /\ PathInUse /\ pc = "run"
    BY <1>2 DEF DepthFirstInv, Given
  <2>2. Given' /\ graph' = graph /\ query' = query /\ KindStep
    BY <1>2, <2>1, Frame
  <2>3. CASE Runs("cycles")
    <3>1. CyclesInv' /\ CyclesExact'
      <4>1. CASE CycleStart \/ CycleStep
        <5>1. CyclesInv'
          BY <2>1, <2>3, <4>1, CyclesKept
        <5>2. pc' = "run"
          BY <2>1, <4>1 DEF CycleStart, CycleStep
        <5> QED
          BY <5>1, <5>2 DEF CyclesExact, Answers
      <4>2. CASE CyclesDone
        <5>1. CyclesExact'
          BY <2>1, <4>2, CyclesSorted
        <5>2. pc' = "done"
          BY <4>2 DEF CyclesDone
        <5> QED
          BY <5>1, <5>2 DEF CyclesInv, Runs
      <4> QED
        BY <2>2, <2>3, <4>1, <4>2 DEF KindStep
    <3>2. HierarchyInv' /\ HierarchyExact'
      BY <2>2, <2>3 DEF HierarchyInv, HierarchyExact, Runs, Answers
    <3>3. PathInUse'
      <4>1. CASE CycleStart \/ CycleStep
        <5>1. pc' = pc
          BY <4>1 DEF CycleStart, CycleStep
        <5> QED
          BY <2>2, <2>3, <5>1 DEF PathInUse, Runs
      <4>2. CASE CyclesDone
        BY <4>2 DEF CyclesDone, PathInUse, walk
      <4> QED
        BY <2>2, <2>3, <4>1, <4>2 DEF KindStep
    <3> QED
      BY <2>2, <3>1, <3>2, <3>3 DEF DepthFirstInv
  <2>4. CASE Runs("hierarchy")
    <3>1. HierarchyInv' /\ HierarchyExact'
      <4>1. CASE HierarchyStep
        <5>1. HierarchyInv'
          BY <2>1, <2>4, <4>1, HierarchyKept
        <5>2. pc' = "run"
          BY <2>1, <4>1 DEF HierarchyStep
        <5> QED
          BY <5>1, <5>2 DEF HierarchyExact, Answers
      <4>2. CASE HierarchyDone
        <5>1. HierarchyExact'
          BY <2>1, <4>2, HierarchyListed
        <5>2. pc' = "done"
          BY <4>2 DEF HierarchyDone
        <5> QED
          BY <5>1, <5>2 DEF HierarchyInv, Runs
      <4> QED
        BY <2>2, <2>4, <4>1, <4>2 DEF KindStep
    <3>2. CyclesInv' /\ CyclesExact'
      BY <2>2, <2>4 DEF CyclesInv, CyclesExact, Runs, Answers
    <3>3. PathInUse'
      <4>1. CASE HierarchyStep
        <5>1. pc' = pc
          BY <4>1 DEF HierarchyStep
        <5> QED
          BY <2>2, <2>4, <5>1 DEF PathInUse, Runs
      <4>2. CASE HierarchyDone
        BY <4>2 DEF HierarchyDone, PathInUse, walk
      <4> QED
        BY <2>2, <2>4, <4>1, <4>2 DEF KindStep
    <3> QED
      BY <2>2, <3>1, <3>2, <3>3 DEF DepthFirstInv
  <2>5. CASE ~Runs("cycles") /\ ~Runs("hierarchy")
    <3>1. CyclesInv' /\ CyclesExact' /\ HierarchyInv' /\ HierarchyExact'
      BY <2>1, <2>2, <2>5
         DEF CyclesInv, CyclesExact, HierarchyInv, HierarchyExact, Runs, Answers
    <3>2. path = <<>>
      BY <2>1, <2>5 DEF PathInUse
    <3>3. path' = path
      <4>1. query.kind \notin {"cycles", "hierarchy"}
        BY <2>1, <2>5 DEF Runs
      <4> QED
        BY <1>2, <4>1 DEF Next, ReachStep, ReachDone, PathStep, TraceStep, TreeStep, WalkDone,
           ClusterStep, ClusterDone, SubgraphStep, SubgraphDone, CycleStart, CycleStep,
           CyclesDone, HierarchyStep, HierarchyDone, Answered, walk, vars, Runs, Walking, Done
    <3> QED
      BY <2>2, <3>1, <3>2, <3>3 DEF DepthFirstInv, PathInUse
  <2> QED
    BY <2>3, <2>4, <2>5
<1>3. CASE pc = "done" /\ Next
  <2>1. UNCHANGED vars
    BY <1>3, Frame DEF DepthFirstInv, KindStep
  <2> QED
    BY <1>1, <2>1
<1> QED
  BY <1>1, <1>2, <1>3

\* cycles and call_hierarchy: for every graph and every query, the walk visits no
\* node twice, cycles returns the smallest simple cycles of its scope, each
\* once and from its smallest id, and call_hierarchy the tree of all walks
\* within its depth.
THEOREM DepthFirstCorrect == Spec => []DepthFirstExact
<1>1. DepthFirstInv => DepthFirstExact
  <2> SUFFICES ASSUME DepthFirstInv PROVE IsInjective(path)
    BY DEF DepthFirstInv, DepthFirstExact
  <2>1. CASE path = <<>>
    BY <2>1 DEF IsInjective
  <2>2. CASE path # <<>>
    <3>1. \/ Stack(graph, ToSet(Scope), "out", path, rest)
          \/ Stack(graph, Nodes, query.dir, path, rest)
      BY <2>2 DEF DepthFirstInv, PathInUse, CyclesInv, HierarchyInv, Searching, Exploring
    <3>2. DOMAIN path = 1..Len(path) /\ \A i, j \in 1..Len(path) : path[i] = path[j] => i = j
      BY <3>1 DEF Stack
    <3> QED
      BY <3>2 DEF IsInjective
  <2> QED
    BY <2>1, <2>2
<1> QED
  BY <1>1, DepthFirstInit, DepthFirstNext, PTL DEF Spec

-----------------------------------------------------------------------------
(* The breadth-first walks that mark a node when they queue it.            *)

(* The head of the queue is replaced by new entries at its end, one level  *)
(* deeper.  An entry at the bound is just dropped.                         *)
Requeued(q, new, q2) ==
    /\ q2 \in Seq(QueueEntry) /\ Len(q2) = (Len(q) - 1) + Len(new)
    /\ \A i \in 1..(Len(q) - 1) : q2[i] = q[i + 1]
    /\ \A i \in 1..Len(new) : q2[(Len(q) - 1) + i] = Row(new[i], q[1].depth + 1)

(* The new entries are marked as well.                                     *)
Expanded(q, s, new, q2, s2) ==
    /\ DOMAIN s2 = DOMAIN s \cup ToSet(new)
    /\ \A m \in DOMAIN s : s2[m] = s[m]
    /\ \A m \in ToSet(new) : m \notin DOMAIN s => s2[m] = q[1].depth + 1
    /\ Requeued(q, new, q2)

\* Where an entry of the new queue comes from.
LEMMA RequeuedEntry ==
    ASSUME NEW q \in Seq(QueueEntry), q # <<>>, NEW new \in Seq(Nodes), NEW q2,
           Requeued(q, new, q2), NEW i \in 1..Len(q2)
    PROVE  \/ i \in 1..(Len(q) - 1) /\ q2[i] = q[i + 1] /\ i + 1 \in 1..Len(q)
           \/ /\ i > Len(q) - 1 /\ i - (Len(q) - 1) \in 1..Len(new)
              /\ q2[i].node = new[i - (Len(q) - 1)] /\ q2[i].depth = q[1].depth + 1
<1> DEFINE l == Len(q) - 1
           k == Len(new)
<1>1. l \in Nat /\ k \in Nat /\ Len(q2) = l + k
  BY DEF Requeued
<1>2. CASE i \in 1..l
  BY <1>1, <1>2 DEF Requeued
<1>3. CASE i \notin 1..l
  <2>1. i > l /\ i - l \in 1..k /\ l + (i - l) = i
    BY <1>1, <1>3
  <2>2. q2[l + (i - l)] = Row(new[i - l], q[1].depth + 1)
    BY <2>1 DEF Requeued
  <2>3. q2[i].node = new[i - l] /\ q2[i].depth = q[1].depth + 1
    BY <2>1, <2>2 DEF Row
  <2> QED
    BY <2>1, <2>3
<1> QED
  BY <1>2, <1>3

\* What is queued afterwards.
LEMMA RequeuedQueued ==
    ASSUME NEW q \in Seq(QueueEntry), q # <<>>, NEW new \in Seq(Nodes), NEW q2,
           Requeued(q, new, q2)
    PROVE  /\ \A n \in ToSet(new) : Queued(q2, n)
           /\ \A n : Queued(q, n) => n = q[1].node \/ Queued(q2, n)
<1> DEFINE l == Len(q) - 1
<1>1. l \in Nat /\ Len(new) \in Nat /\ Len(q2) = l + Len(new)
  BY DEF Requeued
<1>2. ASSUME NEW n \in ToSet(new) PROVE Queued(q2, n)
  <2>1. PICK i \in 1..Len(new) : new[i] = n
    BY ToSetOfSeq
  <2>2. l + i \in 1..Len(q2)
    BY <1>1
  <2>3. q2[l + i] = Row(new[i], q[1].depth + 1)
    BY DEF Requeued
  <2>4. q2[l + i].node = n
    BY <2>1, <2>3 DEF Row
  <2> QED
    BY <2>2, <2>4 DEF Queued
<1>3. ASSUME NEW n, Queued(q, n), n # q[1].node PROVE Queued(q2, n)
  <2>1. PICK i \in 1..Len(q) : q[i].node = n
    BY <1>3 DEF Queued
  <2>2. i # 1
    BY <1>3, <2>1
  <2>3. i - 1 \in 1..l /\ i - 1 \in 1..Len(q2) /\ (i - 1) + 1 = i
    BY <1>1, <2>2
  <2>4. q2[i - 1] = q[(i - 1) + 1]
    BY <2>3 DEF Requeued
  <2>5. q2[i - 1].node = n
    BY <2>1, <2>3, <2>4
  <2> QED
    BY <2>3, <2>5 DEF Queued
<1> QED
  BY <1>2, <1>3

\* An entry of the queue has a node and a depth.
LEMMA EntryFields ==
    ASSUME NEW q \in Seq(QueueEntry), NEW i \in 1..Len(q)
    PROVE  q[i].node \in Nodes /\ q[i].depth \in Nat /\ q[i] = Row(q[i].node, q[i].depth)
<1>1. q[i] \in QueueEntry
  OBVIOUS
<1> QED
  BY <1>1 DEF QueueEntry, Row

\* The depths in the queue are those of its head and the next.
LEMMA LayeredHead ==
    ASSUME NEW q \in Seq(QueueEntry), q # <<>>, Layered(q)
    PROVE  /\ 1 \in 1..Len(q) /\ q[1].node \in Nodes /\ q[1].depth \in Nat
           /\ \A i \in 1..Len(q) : q[i].depth \in Nat /\ q[1].depth <= q[i].depth
                                      /\ q[i].depth <= q[1].depth + 1
<1>1. 1 \in 1..Len(q)
  OBVIOUS
<1>2. \A i \in 1..Len(q) : q[i].node \in Nodes /\ q[i].depth \in Nat
  BY EntryFields
<1>3. ASSUME NEW i \in 1..Len(q) PROVE q[1].depth <= q[i].depth /\ q[i].depth <= q[1].depth + 1
  <2>1. CASE i = 1
    BY <1>1, <1>2, <2>1
  <2>2. CASE i # 1
    <3>1. 1 < i
      BY <2>2
    <3> QED
      BY <1>1, <3>1 DEF Layered
  <2> QED
    BY <2>1, <2>2
<1> QED
  BY <1>1, <1>2, <1>3

\* The new queue is a stretch of two depths again.
LEMMA RequeuedLayered ==
    ASSUME NEW q \in Seq(QueueEntry), q # <<>>, Layered(q), NEW new \in Seq(Nodes),
           NEW q2, Requeued(q, new, q2)
    PROVE  Layered(q2)
<1> DEFINE d == q[1].depth
           l == Len(q) - 1
<1>1. /\ d \in Nat /\ l \in Nat /\ 1 \in 1..Len(q)
      /\ \A i \in 1..Len(q) : q[i].depth \in Nat /\ d <= q[i].depth /\ q[i].depth <= d + 1
  BY LayeredHead
<1> HIDE DEF d, l
<1>2. \A i \in 1..Len(q2) :
         \/ i \in 1..l /\ q2[i] = q[i + 1] /\ i + 1 \in 1..Len(q)
         \/ i > l /\ q2[i].depth = d + 1
  BY RequeuedEntry DEF d, l
<1> SUFFICES ASSUME NEW i \in 1..Len(q2), NEW j \in 1..Len(q2), i < j
             PROVE  q2[i].depth <= q2[j].depth /\ q2[j].depth <= q2[i].depth + 1
  BY DEF Layered
<1>3. CASE i \in 1..l /\ q2[i] = q[i + 1] /\ i + 1 \in 1..Len(q)
  <2>1. CASE j \in 1..l /\ q2[j] = q[j + 1] /\ j + 1 \in 1..Len(q)
    <3>1. i + 1 < j + 1
      OBVIOUS
    <3> QED
      BY <1>3, <2>1, <3>1 DEF Layered
  <2>2. CASE q2[j].depth = d + 1
    <3>1. q[i + 1].depth \in Nat /\ d <= q[i + 1].depth /\ q[i + 1].depth <= d + 1
      BY <1>1, <1>3
    <3> QED
      BY <1>1, <1>3, <2>2, <3>1
  <2> QED
    BY <1>2, <2>1, <2>2
<1>4. CASE i > l /\ q2[i].depth = d + 1
  <2>1. j \notin 1..l
    BY <1>1, <1>4
  <2>2. q2[j].depth = d + 1
    BY <1>2, <2>1
  <2> QED
    BY <1>1, <1>4, <2>2
<1> QED
  BY <1>2, <1>3, <1>4

\* A part of the nodes is finite, and a larger part has no fewer nodes.
LEMMA NodeCounts ==
    ASSUME NEW S, NEW T, S \subseteq T, T \subseteq Nodes
    PROVE  /\ IsFiniteSet(S) /\ IsFiniteSet(T) /\ Cardinality(S) \in Nat
           /\ Cardinality(T) \in Nat /\ Cardinality(S) <= Cardinality(T)
           /\ Cardinality(S) = Cardinality(T) => S = T
<1>1. IsFiniteSet(T)
  BY GraphAssumption, FS_Subset
<1>2. IsFiniteSet(S) /\ Cardinality(S) <= Cardinality(T)
      /\ (Cardinality(S) = Cardinality(T) => S = T)
  BY <1>1, FS_Subset
<1> QED
  BY <1>1, <1>2, FS_CardinalityType

\* A neighbour of a node in a ball is in the next one.
LEMMA BallOneMore ==
    ASSUME NEW g, NEW a, NEW dir, NEW S, NEW d \in Nat, NEW h \in Ball(g, a, dir, S, d),
           NEW m \in S, EdgeBetween(g, h, m, dir)
    PROVE  m \in Ball(g, a, dir, S, d + 1)
<1>1. Ball(g, a, dir, S, d + 1) = Grow(g, dir, S, Ball(g, a, dir, S, d))
  BY BallStep
<1> QED
  BY <1>1 DEF Grow

\* A node at distance d is in the balls from radius d on.
LEMMA SphereInBall ==
    ASSUME NEW g, NEW a, NEW dir, NEW d \in Nat, NEW n \in Sphere(g, a, dir, d), NEW k \in Nat
    PROVE  n \in Ball(g, a, dir, Nodes, k) <=> d <= k
<1>1. /\ n \in Ball(g, a, dir, Nodes, d)
      /\ \A j \in 0..(d - 1) : n \notin Ball(g, a, dir, Nodes, j)
  BY SphereIs
<1>2. ASSUME d <= k PROVE n \in Ball(g, a, dir, Nodes, k)
  <2>1. d \in 0..k
    BY <1>2
  <2>2. Ball(g, a, dir, Nodes, d) \subseteq Ball(g, a, dir, Nodes, k)
    BY <2>1, BallGrows
  <2> QED
    BY <1>1, <2>2
<1>3. ASSUME ~(d <= k) PROVE n \notin Ball(g, a, dir, Nodes, k)
  <2>1. k \in 0..(d - 1)
    BY <1>3
  <2> QED
    BY <1>1, <2>1
<1> QED
  BY <1>2, <1>3

\* While the budget is not spent, everything as near as the head of the queue is
\* marked; when the queue is empty, everything within the bound.
LEMMA MarkedBall ==
    ASSUME NEW g, NEW a, NEW dir, NEW hops \in Nat, NEW cap, NEW q, NEW s,
           Marked(g, a, dir, hops, cap, q, s), Cardinality(DOMAIN s) < cap,
           NEW d \in Nat, d <= hops, q # <<>> => q[1].depth = d
    PROVE  \A k \in 0..d : Ball(g, a, dir, Nodes, k) \subseteq DOMAIN s
<1> DEFINE D == DOMAIN s
           B(k) == Ball(g, a, dir, Nodes, k)
<1>1. a \in D /\ q \in Seq(QueueEntry) /\ Layered(q)
  BY DEF Marked
<1>2. \A i \in 1..Len(q) : q[i].depth \in Nat /\ d <= q[i].depth
  <2>1. CASE q = <<>>
    BY <2>1
  <2>2. CASE q # <<>>
    BY <1>1, <2>2, LayeredHead
  <2> QED
    BY <2>1, <2>2
<1>3. ASSUME NEW k \in 0..(d - 1), NEW c \in D \cap B(k), NEW m \in Nodes,
             EdgeBetween(g, c, m, dir)
      PROVE  m \in D
  <2>1. s[c] \in Nat /\ c \in Sphere(g, a, dir, s[c])
    BY DEF Marked
  <2>2. k \in Nat /\ k < d
    OBVIOUS
  <2>3. s[c] <= k
    BY <2>1, <2>2, SphereInBall
  <2>4. s[c] < hops /\ s[c] < d
    BY <2>1, <2>2, <2>3
  <2>5. ~Queued(q, c)
    <3> SUFFICES ASSUME NEW i \in 1..Len(q), q[i].node = c PROVE FALSE
      BY DEF Queued
    <3>1. s[c] = q[i].depth
      BY DEF Marked
    <3> QED
      BY <1>2, <2>1, <2>4, <3>1
  <2> QED
    BY <1>3, <2>4, <2>5 DEF Marked
<1> HIDE DEF D
<1>4. \A k \in 0..d : B(k) \subseteq D
  BY <1>1, <1>3, BallWithin
<1> QED
  BY <1>4 DEF D

\* When the queue is empty and the budget not spent, what is marked is the ball
\* around the start.
LEMMA MarkedEnd ==
    ASSUME NEW g, NEW a, NEW dir, NEW hops \in Nat, NEW cap, NEW s,
           Marked(g, a, dir, hops, cap, <<>>, s), Cardinality(DOMAIN s) < cap
    PROVE  DOMAIN s = Ball(g, a, dir, Nodes, hops)
<1>1. hops <= hops /\ hops \in 0..hops
  OBVIOUS
<1>2. \A k \in 0..hops : Ball(g, a, dir, Nodes, k) \subseteq DOMAIN s
  BY <1>1, MarkedBall
<1>3. ASSUME NEW m \in DOMAIN s PROVE m \in Ball(g, a, dir, Nodes, hops)
  <2>1. s[m] \in Nat /\ s[m] <= hops /\ m \in Sphere(g, a, dir, s[m])
    BY DEF Marked
  <2> QED
    BY <2>1, SphereInBall
<1> QED
  BY <1>1, <1>2, <1>3

\* A step of the walk keeps what is marked exact.
LEMMA MarkedStep ==
    ASSUME NEW g, NEW a, NEW dir, NEW hops \in Nat, NEW cap \in Nat, NEW q, NEW s,
           Marked(g, a, dir, hops, cap, q, s), q # <<>>,
           NEW new \in Seq(Nodes), NEW q2, NEW s2, Expanded(q, s, new, q2, s2),
           \A m \in ToSet(new) : m \notin DOMAIN s /\ EdgeBetween(g, q[1].node, m, dir)
                                   /\ q[1].depth < hops /\ Cardinality(DOMAIN s) < cap,
           Cardinality(DOMAIN s2) <= cap,
           Cardinality(DOMAIN s2) < cap /\ q[1].depth < hops =>
              \A m \in Nodes : EdgeBetween(g, q[1].node, m, dir) => m \in DOMAIN s2
    PROVE  Marked(g, a, dir, hops, cap, q2, s2)
<1> DEFINE D == DOMAIN s
           E == DOMAIN s2
           h == q[1].node
           d == q[1].depth
           N == ToSet(new)
           B(k) == Ball(g, a, dir, Nodes, k)
<1>1. q \in Seq(QueueEntry) /\ Layered(q) /\ D \subseteq Nodes /\ a \in D
  BY DEF Marked
<1>2. 1 \in 1..Len(q) /\ h \in Nodes /\ d \in Nat
  BY <1>1, LayeredHead
<1>3. h \in D /\ s[h] = d
  BY <1>2 DEF Marked
<1>4. d <= hops /\ h \in Sphere(g, a, dir, d) /\ h \in Ball(g, a, dir, D, d)
  BY <1>3 DEF Marked
<1>5. N \subseteq Nodes /\ E = D \cup N /\ E \subseteq Nodes
  BY <1>1, ToSetOfSeq DEF Expanded
<1>6. /\ \A m \in D : s2[m] = s[m]
      /\ \A m \in N : s2[m] = d + 1
  BY DEF Expanded
<1>7. Cardinality(D) \in Nat /\ Cardinality(E) \in Nat /\ Cardinality(D) <= Cardinality(E)
  BY <1>5, NodeCounts
<1>18. Requeued(q, new, q2)
  BY DEF Expanded
<1>8. q2 \in Seq(QueueEntry) /\ Layered(q2)
  <2>1. q2 \in Seq(QueueEntry)
    BY <1>18 DEF Requeued
  <2>2. Layered(q2)
    BY <1>1, <1>18, RequeuedLayered
  <2> QED
    BY <2>1, <2>2
<1> HIDE DEF D, E, N, h, d
<1>9. ASSUME N # {} PROVE d < hops /\ \A k \in 0..d : B(k) \subseteq D
  <2>1. d < hops /\ Cardinality(DOMAIN s) < cap
    BY <1>9 DEF N, d
  <2>2. \A k \in 0..d : B(k) \subseteq DOMAIN s
    BY <1>2, <1>4, <2>1, MarkedBall DEF d
  <2> QED
    BY <2>1, <2>2 DEF D
<1>10. ASSUME NEW m \in N
       PROVE  /\ s2[m] \in Nat /\ s2[m] <= hops /\ m \in Sphere(g, a, dir, s2[m])
              /\ m \in Ball(g, a, dir, E, s2[m])
              /\ \A k \in 0..(s2[m] - 1) : B(k) \subseteq E
  <2>1. d < hops /\ \A k \in 0..d : B(k) \subseteq D
    BY <1>9
  <2>2. s2[m] = d + 1 /\ d + 1 \in Nat /\ (d + 1) - 1 = d /\ d + 1 <= hops
    BY <1>2, <1>6, <2>1
  <2>3. m \notin D /\ EdgeBetween(g, h, m, dir) /\ m \in Nodes /\ m \in E
    BY <1>5 DEF D, N, h
  <2>4. m \in B(d + 1)
    <3>1. h \in B(d)
      BY <1>2, <1>4, SphereInBall
    <3> QED
      BY <1>2, <2>3, <3>1, BallOneMore
  <2>5. m \in Sphere(g, a, dir, d + 1)
    <3>1. \A j \in 0..((d + 1) - 1) : m \notin B(j)
      BY <2>1, <2>2, <2>3
    <3> QED
      BY <2>2, <2>4, <3>1, SphereIs
  <2>6. m \in Ball(g, a, dir, E, d + 1)
    <3>1. h \in Ball(g, a, dir, E, d)
      BY <1>2, <1>4, <1>5, BallOfPart
    <3> QED
      BY <1>2, <2>3, <3>1, BallOneMore
  <2>7. \A k \in 0..((d + 1) - 1) : B(k) \subseteq E
    BY <1>5, <2>1, <2>2
  <2> QED
    BY <2>2, <2>5, <2>6, <2>7
<1>11. ASSUME NEW m \in D
       PROVE  /\ s2[m] \in Nat /\ s2[m] <= hops /\ m \in Sphere(g, a, dir, s2[m])
              /\ m \in Ball(g, a, dir, E, s2[m])
              /\ \A k \in 0..(s2[m] - 1) : B(k) \subseteq E
  <2>1. /\ s[m] \in Nat /\ s[m] <= hops /\ m \in Sphere(g, a, dir, s[m])
        /\ m \in Ball(g, a, dir, D, s[m])
        /\ \A k \in 0..(s[m] - 1) : B(k) \subseteq D
    BY DEF Marked, D
  <2>2. m \in Ball(g, a, dir, E, s[m])
    BY <1>5, <2>1, BallOfPart
  <2>3. \A k \in 0..(s[m] - 1) : B(k) \subseteq E
    BY <1>5, <2>1
  <2> QED
    BY <1>6, <2>1, <2>2, <2>3
<1>12. ASSUME NEW i \in 1..Len(q2) PROVE q2[i].node \in E /\ s2[q2[i].node] = q2[i].depth
  <2>1. \/ i \in 1..(Len(q) - 1) /\ q2[i] = q[i + 1] /\ i + 1 \in 1..Len(q)
        \/ /\ i > Len(q) - 1 /\ i - (Len(q) - 1) \in 1..Len(new)
           /\ q2[i].node = new[i - (Len(q) - 1)] /\ q2[i].depth = q[1].depth + 1
    BY <1>1, <1>18, RequeuedEntry
  <2>2. CASE q2[i] = q[i + 1] /\ i + 1 \in 1..Len(q)
    <3>1. q[i + 1].node \in D /\ s[q[i + 1].node] = q[i + 1].depth
      BY <2>2 DEF Marked, D
    <3> QED
      BY <1>5, <1>6, <2>2, <3>1
  <2>3. CASE /\ i - (Len(q) - 1) \in 1..Len(new)
             /\ q2[i].node = new[i - (Len(q) - 1)] /\ q2[i].depth = q[1].depth + 1
    <3>1. q2[i].node \in N
      BY <2>3, ToSetOfSeq DEF N
    <3> QED
      BY <1>5, <1>6, <2>3, <3>1 DEF d
  <2> QED
    BY <2>1, <2>2, <2>3
<1>13. ASSUME Cardinality(E) < cap, NEW n \in E, ~Queued(q2, n), s2[n] < hops,
              NEW m \in Nodes, EdgeBetween(g, n, m, dir)
       PROVE  m \in E
  <2>1. n \notin N /\ (Queued(q, n) => n = h)
    BY <1>1, <1>13, <1>18, RequeuedQueued DEF N, h
  <2>2. n \in D /\ s2[n] = s[n] /\ Cardinality(D) < cap
    BY <1>5, <1>6, <1>7, <1>13, <2>1
  <2>3. CASE n = h
    BY <1>3, <1>13, <2>2, <2>3 DEF E, h, d
  <2>4. CASE n # h
    <3>1. m \in D
      BY <1>13, <2>1, <2>2, <2>4 DEF Marked, D
    <3> QED
      BY <1>5, <3>1
  <2> QED
    BY <2>3, <2>4
<1>14. a \in E
  BY <1>1, <1>5
<1>15. \A m \in E :
         /\ s2[m] \in Nat /\ s2[m] <= hops /\ m \in Sphere(g, a, dir, s2[m])
         /\ m \in Ball(g, a, dir, E, s2[m])
         /\ \A k \in 0..(s2[m] - 1) : B(k) \subseteq E
  BY <1>5, <1>10, <1>11
<1> QED
  BY <1>5, <1>8, <1>12, <1>13, <1>14, <1>15 DEF Marked, E

-----------------------------------------------------------------------------
(* One run over the neighbours of the head of the queue.                   *)

\* What is taken is new, nothing twice, and all there is unless it spends the
\* budget.
LEMMA TakenFacts ==
    ASSUME NEW next \in Seq(Nodes), DOMAIN seen \subseteq Nodes, NEW cap \in Nat,
           Cardinality(DOMAIN seen) <= cap
    PROVE  LET new == Taken(next, cap)
               E == DOMAIN seen \cup ToSet(new)
           IN /\ new \in Seq(Nodes)
              /\ \A i, j \in 1..Len(new) : new[i] = new[j] => i = j
              /\ \A m \in ToSet(new) : /\ m \in ToSet(next) /\ m \notin DOMAIN seen
                                       /\ Cardinality(DOMAIN seen) < cap
              /\ Cardinality(E) <= cap
              /\ Cardinality(E) < cap => ToSet(next) \subseteq E
<1> DEFINE D == DOMAIN seen
           I == {i \in DOMAIN next : next[i] \notin D /\ \A j \in 1..(i - 1) : next[j] # next[i]}
           f == Pick(next, I)
           r == cap - Cardinality(D)
           new == Prefix(f, r)
           E == D \cup ToSet(new)
<1>1. Taken(next, cap) = new
  BY DEF Taken, Fresh
<1>2. IsFiniteSet(D) /\ Cardinality(D) \in Nat /\ r \in Nat
  BY NodeCounts
<1>3. DOMAIN next = 1..Len(next) /\ Len(next) \in Nat /\ I \in SUBSET (1..Len(next))
  OBVIOUS
<1>4. \A i \in I : next[i] \notin D
  OBVIOUS
<1>5. \A i, j \in I : next[i] = next[j] => i = j
  <2> SUFFICES ASSUME NEW i \in I, NEW j \in I, next[i] = next[j], i < j PROVE FALSE
    BY <1>3
  <2>1. i \in 1..(j - 1)
    BY <1>3
  <2> QED
    BY <2>1
<1>6. \A m \in ToSet(next) \ D : \E i \in I : next[i] = m
  <2> SUFFICES ASSUME NEW m \in ToSet(next) \ D PROVE \E i \in I : next[i] = m
    OBVIOUS
  <2> DEFINE J == {i \in 1..Len(next) : next[i] = m}
  <2>1. J \in SUBSET Nat /\ J # {}
    BY ToSetOfSeq
  <2>2. PICK i \in J : \A j \in J : i <= j
    BY <2>1, LeastNat
  <2>3. \A j \in 1..(i - 1) : next[j] # next[i]
    BY <1>3, <2>2
  <2> QED
    BY <1>3, <2>2, <2>3
<1> HIDE DEF I, D
<1>7. /\ f \in Seq(Nodes) /\ Len(f) \in Nat
      /\ \A i \in I : \E k \in 1..Len(f) : f[k] = next[i]
      /\ \A k \in 1..Len(f) : \E i \in I : f[k] = next[i]
      /\ \A k, l \in 1..Len(f) : f[k] = f[l] => k = l
  <2>1. /\ f \in Seq(Nodes)
        /\ \A i \in I : \E k \in 1..Len(f) : f[k] = next[i]
        /\ \A k \in 1..Len(f) : \E i \in I : f[k] = next[i]
        /\ (\A i, j \in I : next[i] = next[j] => i = j) =>
             \A k, l \in 1..Len(f) : f[k] = f[l] => k = l
    BY <1>3, PickValues
  <2> HIDE DEF f
  <2> QED
    BY <1>5, <2>1
<1> HIDE DEF f, r
<1>8. /\ new \in Seq(Nodes) /\ Len(new) = Least(Len(f), r) /\ Len(new) \in Nat
      /\ \A i \in 1..Len(new) : new[i] = f[i]
  BY <1>2, <1>7, PrefixValues
<1> HIDE DEF new
<1>9. Len(new) <= Len(f) /\ Len(new) <= r /\ (Len(new) < r => Len(new) = Len(f))
      /\ \A i \in 1..Len(new) : i \in 1..Len(f)
  BY <1>2, <1>7, <1>8 DEF Least
<1>10. \A i, j \in 1..Len(new) : new[i] = new[j] => i = j
  BY <1>7, <1>8, <1>9
<1>11. \A x : x \in ToSet(new) <=> \E i \in 1..Len(new) : new[i] = x
  BY <1>8, ToSetOfSeq
<1>12. \A x : x \in ToSet(next) <=> \E i \in 1..Len(next) : next[i] = x
  BY ToSetOfSeq
<1>13. ASSUME NEW m \in ToSet(new) PROVE m \in ToSet(next) /\ m \notin D /\ Cardinality(D) < cap
  <2>1. PICK k \in 1..Len(new) : new[k] = m
    BY <1>11
  <2>2. PICK i \in I : next[i] = m
    BY <1>7, <1>8, <1>9, <2>1
  <2>3. m \in ToSet(next) /\ m \notin D
    BY <1>3, <1>4, <1>12, <2>2
  <2>4. 1 <= Len(new)
    BY <1>8
  <2>5. Cardinality(D) < cap
    BY <1>2, <1>8, <1>9, <2>4 DEF r
  <2> QED
    BY <2>3, <2>5
<1>14. Cardinality(E) = Cardinality(D) + Len(new)
  <2>1. IsFiniteSet(ToSet(new)) /\ Cardinality(ToSet(new)) = Len(new)
    BY <1>8, <1>10, InjectiveCount
  <2>2. D \cap ToSet(new) = {}
    BY <1>13
  <2>3. Cardinality({}) = 0
    BY FS_EmptySet
  <2>4. Cardinality(E) = Cardinality(D) + Cardinality(ToSet(new)) - Cardinality(D \cap ToSet(new))
    BY <1>2, <2>1, FS_Union
  <2>5. Cardinality(D \cap ToSet(new)) = 0
    BY <2>2, <2>3
  <2> HIDE DEF E
  <2> QED
    BY <1>2, <1>8, <2>1, <2>4, <2>5
<1>15. Cardinality(E) <= cap
  BY <1>2, <1>8, <1>9, <1>14 DEF r
<1>16. ASSUME Cardinality(E) < cap, NEW m \in ToSet(next) PROVE m \in E
  <2>1. Len(new) = Len(f)
    BY <1>2, <1>8, <1>9, <1>14, <1>16 DEF r
  <2>2. CASE m \in D
    BY <2>2
  <2>3. CASE m \notin D
    <3>1. PICK i \in I : next[i] = m
      BY <1>6, <2>3
    <3>2. PICK k \in 1..Len(f) : f[k] = m
      BY <1>7, <3>1
    <3> QED
      BY <1>8, <1>11, <2>1, <3>2
  <2> QED
    BY <2>2, <2>3
<1> QED
  BY <1>1, <1>8, <1>10, <1>13, <1>15, <1>16 DEF D

\* The values of two sequences after each other.
LEMMA Joined ==
    ASSUME NEW S, NEW s \in Seq(S), NEW t \in Seq(S)
    PROVE  /\ s \o t \in Seq(S) /\ Len(s \o t) = Len(s) + Len(t)
           /\ \A i \in 1..Len(s) : (s \o t)[i] = s[i]
           /\ \A i \in 1..Len(t) : (s \o t)[Len(s) + i] = t[i]
<1>1. Len(s) \in Nat /\ Len(t) \in Nat
  OBVIOUS
<1>2. /\ s \o t \in Seq(S) /\ Len(s \o t) = Len(s) + Len(t)
      /\ \A i \in 1..(Len(s) + Len(t)) :
            (s \o t)[i] = IF i <= Len(s) THEN s[i] ELSE t[i - Len(s)]
  BY ConcatProperties
<1> DEFINE u == s \o t
<1> HIDE DEF u
<1>3. ASSUME NEW i \in 1..Len(s) PROVE u[i] = s[i]
  BY <1>1, <1>2 DEF u
<1>4. ASSUME NEW i \in 1..Len(t) PROVE u[Len(s) + i] = t[i]
  <2> DEFINE j == Len(s) + i
  <2>1. j \in 1..(Len(s) + Len(t)) /\ ~(j <= Len(s)) /\ j - Len(s) = i
    BY <1>1
  <2> HIDE DEF j
  <2>2. u[j] = t[i]
    BY <1>2, <2>1 DEF u
  <2> QED
    BY <2>2 DEF j
<1> QED
  BY <1>2, <1>3, <1>4 DEF u

\* Pushing new entries to the back after the head was taken off.
LEMMA RowsQueued ==
    ASSUME NEW q \in Seq(QueueEntry), q # <<>>, NEW new \in Seq(Nodes)
    PROVE  Requeued(q, new, Tail(q) \o [i \in DOMAIN new |-> Row(new[i], Head(q).depth + 1)])
<1> DEFINE h == Head(q)
           row == [i \in DOMAIN new |-> Row(new[i], h.depth + 1)]
           tail == Tail(q)
<1>1. h = q[1] /\ h.depth \in Nat
  <2>1. h = q[1] /\ 1 \in 1..Len(q)
    OBVIOUS
  <2> QED
    BY <2>1, EntryFields
<1>2. /\ tail \in Seq(QueueEntry) /\ Len(tail) = Len(q) - 1 /\ Len(tail) \in Nat
      /\ \A i \in 1..(Len(q) - 1) : tail[i] = q[i + 1]
  BY HeadTailProperties
<1> HIDE DEF h, tail
<1>3. DOMAIN new = 1..Len(new) /\ Len(new) \in Nat /\ \A i \in 1..Len(new) : new[i] \in Nodes
  OBVIOUS
<1>4. \A i \in 1..Len(new) : row[i] = Row(new[i], h.depth + 1) /\ row[i] \in QueueEntry
  BY <1>1, <1>3 DEF Row, QueueEntry
<1>5. row \in [1..Len(new) -> QueueEntry]
  BY <1>3, <1>4
<1>6. row \in Seq(QueueEntry) /\ Len(row) = Len(new)
  BY <1>3, <1>5
<1> HIDE DEF row
<1> DEFINE q2 == tail \o row
<1>7. /\ q2 \in Seq(QueueEntry) /\ Len(q2) = Len(tail) + Len(row)
      /\ \A i \in 1..Len(tail) : q2[i] = tail[i]
      /\ \A i \in 1..Len(row) : q2[Len(tail) + i] = row[i]
  <2>1. tail \in Seq(QueueEntry) /\ row \in Seq(QueueEntry)
    BY <1>2, <1>6
  <2> QED
    BY ONLY <2>1, Joined
<1> HIDE DEF q2
<1>8. ASSUME NEW i \in 1..(Len(q) - 1) PROVE q2[i] = q[i + 1]
  BY <1>2, <1>7
<1>9. ASSUME NEW i \in 1..Len(new) PROVE q2[(Len(q) - 1) + i] = Row(new[i], q[1].depth + 1)
  BY <1>1, <1>2, <1>4, <1>6, <1>7
<1>10. q2 \in Seq(QueueEntry) /\ Len(q2) = (Len(q) - 1) + Len(new)
  BY <1>2, <1>6, <1>7
<1>11. Requeued(q, new, q2)
  BY <1>8, <1>9, <1>10 DEF Requeued
<1> QED
  BY <1>11 DEF q2, row, h, tail

\* Discover expands the head of the queue by what is taken.
LEMMA Discovered ==
    ASSUME NEW next \in Seq(Nodes), NEW cap \in Nat, DOMAIN seen \subseteq Nodes,
           Cardinality(DOMAIN seen) <= cap, queue \in Seq(QueueEntry), queue # <<>>,
           Discover(next, cap)
    PROVE  Expanded(queue, seen, Taken(next, cap), queue', seen')
<1> DEFINE new == Taken(next, cap)
           h == Head(queue)
           q2 == Tail(queue) \o [i \in DOMAIN new |-> Row(new[i], h.depth + 1)]
           all == DOMAIN seen \cup ToSet(new)
<1>1. new \in Seq(Nodes)
  BY TakenFacts
<1>2. /\ queue' = q2
      /\ seen' = [m \in all |-> IF m \in DOMAIN seen THEN seen[m] ELSE h.depth + 1]
  BY DEF Discover, PushBack
<1> HIDE DEF new
<1>3. Requeued(queue, new, q2)
  BY <1>1, RowsQueued
<1>4. h = queue[1]
  OBVIOUS
<1> HIDE DEF q2, h
<1>5. /\ DOMAIN seen' = DOMAIN seen \cup ToSet(new)
      /\ \A m \in DOMAIN seen : seen'[m] = seen[m]
      /\ \A m \in ToSet(new) : m \notin DOMAIN seen => seen'[m] = queue[1].depth + 1
  BY <1>2, <1>4
<1>6. Expanded(queue, seen, new, queue', seen')
  BY <1>2, <1>3, <1>5 DEF Expanded
<1> QED
  BY <1>6 DEF new

\* Dropping the head adds nothing.
LEMMA Dropped ==
    ASSUME queue \in Seq(QueueEntry), queue # <<>>, Drop
    PROVE  Expanded(queue, seen, <<>>, queue', seen')
<1> DEFINE tail == Tail(queue)
<1>1. /\ tail \in Seq(QueueEntry) /\ Len(tail) = Len(queue) - 1
      /\ \A i \in 1..(Len(queue) - 1) : tail[i] = queue[i + 1]
  BY HeadTailProperties
<1>2. queue' = tail /\ seen' = seen
  BY DEF Drop
<1> HIDE DEF tail
<1>3. ToSet(<<>>) = {} /\ Len(<<>>) = 0 /\ 1..0 = {}
  BY DEF ToSet
<1>4. Len(queue) - 1 + 0 = Len(queue) - 1
  OBVIOUS
<1>5. Expanded(queue, seen, <<>>, tail, seen)
  BY <1>1, <1>3, <1>4 DEF Expanded, Requeued
<1> QED
  BY <1>2, <1>5

(* The neighbours of n, but perhaps for n itself.                          *)
AllNext(g, n, dir, next) ==
    /\ next \in Seq(Nodes)
    /\ \A m \in ToSet(next) : EdgeBetween(g, n, m, dir)
    /\ \A m \in Nodes : EdgeBetween(g, n, m, dir) => m \in ToSet(next) \/ m = n

\* The neighbourhood of the head of the queue.
LEMMA NeighbourhoodIs ==
    ASSUME Given
    PROVE  AllNext(graph, Head(queue).node, Way(query), Neighbourhood)
<1>1. Way(query) \in {"out", "in", "both"} /\ graph \in Seq(EdgeSet)
  BY QueryFields DEF QueryTypes, Given
<1> DEFINE n == Head(queue).node
           e == Ends(graph, n, Way(query))
<1>2. e \in Seq(Nodes) /\ ToSet(e) = {m \in Nodes : EdgeBetween(graph, n, m, Way(query))}
  BY <1>1, EndsAre
<1> HIDE DEF e, n
<1>3. AllNext(graph, n, Way(query), e)
  BY <1>2 DEF AllNext
<1> QED
  BY <1>3 DEF Neighbourhood, e, n

(* The two ways a walk goes on from the head of its queue.                 *)
GoOn(next) == IF AtBound THEN Drop ELSE Discover(next, Budget(query))

\* A step of a walk that marks early keeps what is marked exact.
LEMMA MarkingStep ==
    ASSUME Given, Marking, queue # <<>>, NEW next, GoOn(next),
           AllNext(graph, Head(queue).node, Way(query), next),
           graph' = graph, query' = query
    PROVE  Marking'
<1> DEFINE a == query.start
           dir == Way(query)
           hops == Hops(query)
           cap == Budget(query)
           h == queue[1].node
<1>1. hops \in Nat /\ cap \in Nat
  BY QueryFields DEF QueryTypes
<1>2. Marked(graph, a, dir, hops, cap, queue, seen)
  BY DEF Marking
<1>3. /\ queue \in Seq(QueueEntry) /\ Layered(queue) /\ DOMAIN seen \subseteq Nodes
      /\ Cardinality(DOMAIN seen) <= cap
  BY <1>2 DEF Marked
<1>4. Head(queue) = queue[1] /\ 1 \in 1..Len(queue)
  BY <1>3
<1>5. queue[1].depth \in Nat /\ h \in DOMAIN seen
  BY <1>2, <1>3, <1>4, EntryFields DEF Marked
<1> SUFFICES Marked(graph, a, dir, hops, cap, queue', seen')
  BY DEF Marking
<1>6. CASE AtBound
  <2>1. Expanded(queue, seen, <<>>, queue', seen')
    BY <1>3, <1>6, Dropped DEF GoOn
  <2>2. <<>> \in Seq(Nodes) /\ ToSet(<<>>) = {}
    BY DEF ToSet
  <2>4. DOMAIN seen' = DOMAIN seen
    BY <2>1, <2>2 DEF Expanded
  <2>3. ~(queue[1].depth < hops)
    BY <1>1, <1>4, <1>5, <1>6 DEF AtBound
  <2> HIDE DEF a, dir, hops, cap
  <2> QED
    BY <1>1, <1>2, <1>3, <2>1, <2>2, <2>3, <2>4, MarkedStep
<1>7. CASE ~AtBound
  <2> DEFINE new == Taken(next, cap)
             E == DOMAIN seen \cup ToSet(new)
  <2>1. next \in Seq(Nodes)
    BY DEF AllNext
  <2>2. Expanded(queue, seen, new, queue', seen')
    BY <1>1, <1>3, <1>7, <2>1, Discovered DEF GoOn
  <2>3. /\ new \in Seq(Nodes)
        /\ \A m \in ToSet(new) : m \in ToSet(next) /\ m \notin DOMAIN seen
                                   /\ Cardinality(DOMAIN seen) < cap
        /\ Cardinality(E) <= cap
        /\ Cardinality(E) < cap => ToSet(next) \subseteq E
    BY <1>1, <1>3, <2>1, TakenFacts
  <2>4. E = DOMAIN seen'
    BY <2>2 DEF Expanded
  <2> HIDE DEF new, E
  <2>5. queue[1].depth < hops
    BY <1>1, <1>4, <1>5, <1>7 DEF AtBound
  <2>6. \A m \in ToSet(new) : m \notin DOMAIN seen /\ EdgeBetween(graph, h, m, dir)
                                /\ queue[1].depth < hops /\ Cardinality(DOMAIN seen) < cap
    BY <1>4, <2>3, <2>5 DEF AllNext
  <2>7. Cardinality(DOMAIN seen') <= cap
    BY <2>3, <2>4
  <2>8. ASSUME Cardinality(DOMAIN seen') < cap, NEW m \in Nodes, EdgeBetween(graph, h, m, dir)
        PROVE  m \in DOMAIN seen'
    <3>1. m \in ToSet(next) \/ m = h
      BY <1>4, <2>8 DEF AllNext
    <3>2. h \in E
      BY <1>5 DEF E
    <3> QED
      BY <2>3, <2>4, <2>8, <3>1, <3>2
  <2> HIDE DEF a, dir, hops, cap
  <2> QED
    BY <1>1, <1>2, <2>2, <2>3, <2>6, <2>7, <2>8, MarkedStep
<1> QED
  BY <1>6, <1>7
-----------------------------------------------------------------------------
(* The walks that mark early: how they begin and what they end with.       *)

\* A walk begins with its start marked and queued.
LEMMA MarkedInit ==
    ASSUME NEW g, NEW a \in Nodes, NEW dir, NEW hops \in Nat, NEW cap \in Nat \ {0},
           NEW q, NEW s, q = <<Row(a, 0)>>, s = [n \in {a} |-> 0]
    PROVE  Marked(g, a, dir, hops, cap, q, s)
<1>1. /\ q \in Seq(QueueEntry) /\ Len(q) = 1 /\ q[1].node = a /\ q[1].depth = 0
      /\ \A i \in 1..Len(q) : i = 1
  BY DEF Row, QueueEntry
<1>2. DOMAIN s = {a} /\ s[a] = 0 /\ \A k \in 0..(0 - 1) : FALSE
  OBVIOUS
<1>3. Layered(q)
  BY <1>1 DEF Layered
<1>4. a \in Ball(g, a, dir, Nodes, 0) /\ a \in Ball(g, a, dir, {a}, 0)
  BY BallStep
<1>5. a \in Sphere(g, a, dir, 0)
  BY <1>4 DEF Sphere
<1>6. Cardinality({a}) = 1 /\ 1 <= cap
  <2>1. Cardinality({a}) = 1
    BY FS_Singleton, Zenon
  <2> QED
    BY <2>1
<1>7. Queued(q, a)
  BY <1>1 DEF Queued
<1>8. \A m \in DOMAIN s :
         /\ s[m] \in Nat /\ s[m] <= hops /\ m \in Sphere(g, a, dir, s[m])
         /\ m \in Ball(g, a, dir, DOMAIN s, s[m])
         /\ \A k \in 0..(s[m] - 1) : Ball(g, a, dir, Nodes, k) \subseteq DOMAIN s
  BY <1>2, <1>4, <1>5
<1>9. \A i \in 1..Len(q) : q[i].node \in DOMAIN s /\ s[q[i].node] = q[i].depth
  BY <1>1, <1>2
<1> QED
  BY <1>1, <1>2, <1>3, <1>6, <1>7, <1>8, <1>9 DEF Marked

\* The same of a query that has just been asked.
LEMMA MarkingInit ==
    ASSUME Init, pc = "run", query.kind \in {"reach", "path", "subgraph", "tree"}
    PROVE  Marking
<1>1. Given
  BY GivenInit
<1>2. Hops(query) \in Nat /\ Budget(query) \in Nat \ {0}
  BY <1>1, QueryFields DEF QueryTypes
<1>3. query.start \in Nodes
  BY DEF Init, Immediate
<1>4. queue = <<Row(query.start, 0)>>
  BY <1>3 DEF Init
<1>5. seen = [n \in {query.start} |-> 0]
  <2>1. {query.start} \cap Nodes = {query.start}
    BY <1>3
  <2>2. seen = [n \in {query.start} \cap Nodes |-> 0]
    BY DEF Init
  <2> QED
    BY <2>1, <2>2
<1> QED
  BY <1>2, <1>3, <1>4, <1>5, MarkedInit DEF Marking

\* A budget above the number of nodes is never spent.
LEMMA BudgetToSpare ==
    ASSUME Given, Marking, query.kind \in {"reach", "path", "tree"}
    PROVE  Cardinality(DOMAIN seen) < Budget(query)
<1>1. DOMAIN seen \subseteq Nodes
  BY DEF Marking, Marked
<1>2. Cardinality(DOMAIN seen) \in Nat /\ Cardinality(Nodes) \in Nat
      /\ Cardinality(DOMAIN seen) <= Cardinality(Nodes)
  BY <1>1, NodeCounts
<1>3. Budget(query) = Cardinality(Nodes) + 1
  BY DEF Budget
<1> QED
  BY <1>2, <1>3

\* At the end the marked nodes with their depths are the nodes within the bound
\* with their distances.
LEMMA MarkedDistances ==
    ASSUME NEW g, NEW a \in Nodes, NEW dir, NEW hops \in Nat, NEW cap, NEW s,
           Marked(g, a, dir, hops, cap, <<>>, s), Cardinality(DOMAIN s) < cap
    PROVE  \A r : r \in Distances(g, a, dir, hops) <=> \E n \in DOMAIN s : r = Row(n, s[n])
<1>1. DOMAIN s = Ball(g, a, dir, Nodes, hops)
  BY MarkedEnd
<1>2. \A m \in DOMAIN s : s[m] \in Nat /\ s[m] \in 0..hops /\ m \in Sphere(g, a, dir, s[m])
  BY DEF Marked
<1>3. ASSUME NEW r, r \in Distances(g, a, dir, hops)
      PROVE  \E n \in DOMAIN s : r = Row(n, s[n])
  <2>1. PICK k \in 0..hops : \E n \in Sphere(g, a, dir, k) : r = Row(n, k)
    BY <1>3, DistancesAre
  <2>2. PICK n \in Sphere(g, a, dir, k) : r = Row(n, k)
    BY <2>1
  <2>3. k \in Nat /\ k <= hops
    OBVIOUS
  <2>4. n \in DOMAIN s
    BY <1>1, <2>3, SphereInBall
  <2>5. s[n] = k
    BY <1>2, <2>3, <2>4, SphereIs
  <2> QED
    BY <2>2, <2>4, <2>5
<1>4. ASSUME NEW r, NEW n \in DOMAIN s, r = Row(n, s[n])
      PROVE  r \in Distances(g, a, dir, hops)
  <2>1. \E k \in 0..hops : \E m \in Sphere(g, a, dir, k) : r = Row(m, k)
    BY <1>2, <1>4
  <2> QED
    BY <2>1, DistancesAre
<1> QED
  BY <1>3, <1>4

-----------------------------------------------------------------------------
(* reachable_within.                                                       *)

\* Nearest first is an order on rows, and a result is its beginning.
LEMMA RowsSorted ==
    ASSUME NEW R, IsFiniteSet(R), NEW n \in Nat,
           \A r \in R : r.depth \in Nat /\ r.node \in Nodes /\ r = Row(r.node, r.depth)
    PROVE  LET first == Prefix(Enumerate([r \in R |-> {a \in R : Nearer(a, r)}]), n)
           IN /\ first \in Seq(R) /\ Len(first) = Least(Cardinality(R), n)
              /\ \A i, j \in 1..Len(first) : i < j => Nearer(first[i], first[j])
              /\ \A x \in R \ ToSet(first) : \A i \in 1..Len(first) : Nearer(first[i], x)
<1> DEFINE before == [r \in R |-> {a \in R : Nearer(a, r)}]
           first == Prefix(Enumerate(before), n)
<1>1. /\ \A x \in R : ~Nearer(x, x)
      /\ \A x, y, z \in R : Nearer(x, y) /\ Nearer(y, z) => Nearer(x, z)
      /\ \A x, y \in R : x = y \/ Nearer(x, y) \/ Nearer(y, x)
  BY NearerOrder
<1>2. \A x, y \in R : x \in before[y] <=> Nearer(x, y)
  OBVIOUS
<1>3. before = [x \in R |-> before[x]] /\ \A x \in R : before[x] \subseteq R
  OBVIOUS
<1> HIDE DEF before
<1>4. /\ \A x \in R : before[x] \subseteq R /\ x \notin before[x]
      /\ \A x, y, z \in R : x \in before[y] /\ y \in before[z] => x \in before[z]
      /\ \A x, y \in R : x = y \/ x \in before[y] \/ y \in before[x]
  BY <1>1, <1>2, <1>3
<1>5. DOMAIN before = R /\ StrictOrder(before)
  BY <1>3, <1>4, OrderedBy
<1>6. /\ first \in Seq(R) /\ Len(first) = Least(Cardinality(R), n) /\ Len(first) \in Nat
      /\ \A i, j \in 1..Len(first) : i < j => first[i] \in before[first[j]]
      /\ \A x \in R \ ToSet(first) : \A i \in 1..Len(first) : first[i] \in before[x]
  BY <1>5, FirstOf
<1> HIDE DEF first
<1>7. \A i \in 1..Len(first) : first[i] \in R
  BY <1>6
<1>8. /\ \A i, j \in 1..Len(first) : i < j => Nearer(first[i], first[j])
      /\ \A x \in R \ ToSet(first) : \A i \in 1..Len(first) : Nearer(first[i], x)
  BY <1>2, <1>6, <1>7
<1> QED
  BY <1>6, <1>8 DEF before, first

\* reachable_within returns the nearest of the nodes within its bound.
LEMMA ReachSorted ==
    ASSUME Given, ReachInv, ReachDone
    PROVE  ReachExact'
<1> DEFINE a == query.start
           hops == Hops(query)
           rows == {Row(n, seen[n]) : n \in DOMAIN seen \ {a}}
           all == {r \in Distances(graph, a, query.dir, hops) : r.node # a}
           first == Prefix(Enumerate([r \in rows |-> {b \in rows : Nearer(b, r)}]), Limit(query))
<1>1. Runs("reach") /\ queue = <<>> /\ graph' = graph /\ query' = query /\ result' = first
  BY DEF ReachDone, Done
<1>2. hops \in Nat /\ Limit(query) \in Nat
  BY QueryFields DEF QueryTypes
<1>3. query.kind = "reach" /\ Way(query) = query.dir /\ a \in Nodes
  BY <1>1 DEF Runs, Way, Given, Immediate
<1>4. Marking
  BY <1>1 DEF ReachInv
<1>5. Cardinality(DOMAIN seen) < Budget(query)
  BY <1>3, <1>4, BudgetToSpare
<1>6. Marked(graph, a, query.dir, hops, Budget(query), <<>>, seen)
  BY <1>1, <1>3, <1>4 DEF Marking
<1>7. DOMAIN seen \subseteq Nodes /\ \A n \in DOMAIN seen : seen[n] \in Nat
  BY <1>6 DEF Marked
<1>8. \A r : r \in Distances(graph, a, query.dir, hops) <=> \E n \in DOMAIN seen : r = Row(n, seen[n])
  BY <1>2, <1>3, <1>5, <1>6, MarkedDistances
<1>9. \A n, d : Row(n, d).node = n /\ Row(n, d).depth = d
  BY DEF Row
<1>10. rows = all
  <2>1. ASSUME NEW r \in rows PROVE r \in all
    BY <1>8, <1>9
  <2>2. ASSUME NEW r \in all PROVE r \in rows
    BY <1>8, <1>9
  <2> QED
    BY <2>1, <2>2
<1>11. IsFiniteSet(rows)
  <2>1. IsFiniteSet(DOMAIN seen \ {a})
    BY <1>7, NodeCounts
  <2> DEFINE D == DOMAIN seen \ {a}
             f == [n \in D |-> Row(n, seen[n])]
  <2>2. /\ f \in [D -> rows] /\ \A r \in rows : \E n \in D : f[n] = r
    OBVIOUS
  <2> HIDE DEF f, D, rows
  <2>3. f \in Surjection(D, rows)
    BY <2>2 DEF Surjection
  <2> QED
    BY <2>1, <2>3, FS_Surjection DEF D
<1>12. \A r \in rows : r.depth \in Nat /\ r.node \in Nodes /\ r = Row(r.node, r.depth)
  BY <1>7, <1>9
<1> HIDE DEF rows
<1>13. /\ first \in Seq(rows) /\ Len(first) = Least(Cardinality(rows), Limit(query))
       /\ \A i, j \in 1..Len(first) : i < j => Nearer(first[i], first[j])
       /\ \A x \in rows \ ToSet(first) : \A i \in 1..Len(first) : Nearer(first[i], x)
  BY <1>2, <1>11, <1>12, RowsSorted
<1> HIDE DEF first
<1>14. ToSet(first) \subseteq rows /\ DOMAIN first = 1..Len(first)
  BY <1>13, ToSetOfSeq
<1> HIDE DEF all
<1>15. /\ ToSet(first) \subseteq all /\ Len(first) = Least(Cardinality(all), Limit(query))
       /\ \A i, j \in DOMAIN first : i < j => Nearer(first[i], first[j])
       /\ \A r \in all \ ToSet(first), i \in DOMAIN first : Nearer(first[i], r)
  BY <1>10, <1>13, <1>14
<1>16. hops = Least(query.hops, MAX_REACH_HOPS) /\ Limit(query) = Least(query.limit, MAX_REACH_RESULTS)
  BY <1>3 DEF Hops, Limit
<1> QED
  BY <1>1, <1>15, <1>16 DEF ReachExact, all

\* There are finitely many nodes within a distance.
LEMMA DistancesFinite ==
    ASSUME NEW g, NEW a \in Nodes, NEW dir, NEW hops \in Nat,
           NEW R \in SUBSET Distances(g, a, dir, hops)
    PROVE  IsFiniteSet(R) /\ Cardinality(R) \in Nat
<1>1. ASSUME NEW r \in R
      PROVE  \E k \in Nat : r.node \in Sphere(g, a, dir, k) /\ r = Row(r.node, k) /\ r.node \in Nodes
  <2>1. PICK k \in 0..hops : \E n \in Sphere(g, a, dir, k) : r = Row(n, k)
    BY <1>1, DistancesAre
  <2>2. PICK n \in Sphere(g, a, dir, k) : r = Row(n, k)
    BY <2>1
  <2>3. k \in Nat /\ r.node = n
    BY <2>2 DEF Row
  <2>4. n \in Nodes
    <3>1. n \in Ball(g, a, dir, Nodes, k)
      BY <2>3, SphereInBall
    <3>2. Ball(g, a, dir, Nodes, k) \subseteq Nodes \cup {a}
      BY <2>3, BallGrows
    <3> QED
      BY <3>1, <3>2
  <2> QED
    BY <2>2, <2>3, <2>4
<1>2. ASSUME NEW r \in R, NEW t \in R, r.node = t.node PROVE r = t
  <2>1. PICK k \in Nat : r.node \in Sphere(g, a, dir, k) /\ r = Row(r.node, k)
    BY <1>1
  <2>2. PICK j \in Nat : t.node \in Sphere(g, a, dir, j) /\ t = Row(t.node, j)
    BY <1>1
  <2>3. j = k
    BY <1>2, <2>1, <2>2, SphereIs
  <2> QED
    BY <1>2, <2>1, <2>2, <2>3
<1> DEFINE f == [r \in R |-> r.node]
<1>3. f \in [R -> Nodes] /\ \A r, t \in R : f[r] = f[t] => r = t
  BY <1>1, <1>2
<1> HIDE DEF f
<1>4. f \in Injection(R, Nodes)
  BY <1>3 DEF Injection, IsInjective
<1>5. IsFiniteSet(R)
  BY <1>4, GraphAssumption, FS_Injection
<1> QED
  BY <1>5, FS_CardinalityType

\* reachable_within before its first step, and when it needs none.
LEMMA ReachInit == Init => ReachInv /\ ReachExact
<1> SUFFICES ASSUME Init PROVE ReachInv /\ ReachExact
  OBVIOUS
<1>1. Given /\ QueryTypes
  BY GivenInit, QueryFields
<1>2. ReachInv
  BY MarkingInit DEF ReachInv, Runs
<1>3. ASSUME Answers("reach") PROVE ReachExact
  <2> DEFINE a == query.start
             size == Least(query.limit, MAX_REACH_RESULTS)
             hops == Least(query.hops, MAX_REACH_HOPS)
             all == {r \in Distances(graph, a, query.dir, hops) : r.node # a}
  <2>1. Immediate(query) /\ query.kind = "reach"
    BY <1>3 DEF Init, Answers
  <2>2. result = <<>>
    BY <2>1 DEF Init, Answer, Empty
  <2>3. /\ MAX_REACH_HOPS \in Nat \ {0} /\ MAX_REACH_RESULTS \in Nat \ {0}
        /\ query.hops \in Nat /\ query.limit \in Nat
    BY <1>1, GraphAssumption DEF QueryTypes
  <2>4. hops \in Nat /\ size \in Nat /\ (query.hops = 0 => hops = 0) /\ (query.limit = 0 => size = 0)
    BY <2>3 DEF Least
  <2>5. a \notin Nodes \/ query.hops = 0 \/ query.limit = 0
    BY <2>1 DEF Immediate
  <2> HIDE DEF hops, size
  <2>6. Least(Cardinality(all), size) = 0
    <3>1. CASE a \notin Nodes \/ hops = 0
      <4>1. all = {}
        <5>1. CASE a \notin Nodes
          BY <5>1 DEF Distances
        <5>2. CASE a \in Nodes /\ hops = 0
          <6> SUFFICES ASSUME NEW r \in all PROVE FALSE
            OBVIOUS
          <6>1. \E k \in 0..hops : \E n \in Sphere(graph, a, query.dir, k) : r = Row(n, k)
            BY <2>4, <5>2, DistancesAre
          <6>2. PICK n \in Sphere(graph, a, query.dir, 0) : r = Row(n, 0)
            BY <5>2, <6>1
          <6>3. n \in {a}
            BY <6>2, BallStep DEF Sphere
          <6> QED
            BY <6>2, <6>3 DEF Row
        <5> QED
          BY <3>1, <5>1, <5>2
      <4>2. Cardinality(all) = 0
        BY <4>1, FS_EmptySet
      <4> HIDE DEF all
      <4> QED
        BY <2>4, <4>2 DEF Least
    <3>2. CASE a \in Nodes /\ hops # 0
      <4>1. size = 0
        BY <2>4, <2>5, <3>2
      <4>2. all \subseteq Distances(graph, a, query.dir, hops)
        OBVIOUS
      <4> HIDE DEF all
      <4>3. Cardinality(all) \in Nat
        BY <2>4, <3>2, <4>2, DistancesFinite
      <4> QED
        BY <4>1, <4>3 DEF Least
    <3> QED
      BY <3>1, <3>2
  <2>7. ToSet(result) = {} /\ DOMAIN result = {} /\ Len(result) = 0
    BY <2>2 DEF ToSet
  <2> QED
    BY <2>6, <2>7 DEF ReachExact, hops, size
<1>4. ReachExact
  BY <1>3 DEF ReachExact
<1> QED
  BY <1>2, <1>4

-----------------------------------------------------------------------------
(* path_query.                                                             *)

\* A node that is taken from the head of the queue has the head before it.
LEMMA PrecededStep ==
    ASSUME NEW g, NEW a, NEW dir, NEW s, NEW p, Preceded(g, a, dir, s, p), a \in DOMAIN s,
           NEW h \in DOMAIN s, NEW N, NEW s2, NEW p2,
           \A m \in N : m \notin DOMAIN s /\ EdgeBetween(g, h, m, dir) /\ s2[m] = s[h] + 1,
           DOMAIN s2 = DOMAIN s \cup N, \A m \in DOMAIN s : s2[m] = s[m],
           DOMAIN p2 = DOMAIN p \cup N, \A m \in DOMAIN p : p2[m] = p[m],
           \A m \in N : m \notin DOMAIN p => p2[m] = h
    PROVE  Preceded(g, a, dir, s2, p2)
<1>1. DOMAIN p2 = DOMAIN s2 \ {a}
  BY DEF Preceded
<1>2. ASSUME NEW m \in DOMAIN p2
      PROVE  p2[m] \in DOMAIN s2 /\ s2[m] = s2[p2[m]] + 1 /\ EdgeBetween(g, p2[m], m, dir)
  <2>1. CASE m \in DOMAIN p
    <3>1. p2[m] = p[m] /\ p[m] \in DOMAIN s /\ m \in DOMAIN s
      BY <2>1 DEF Preceded
    <3> QED
      BY <2>1, <3>1 DEF Preceded
  <2>2. CASE m \notin DOMAIN p
    <3>1. p2[m] = h /\ m \in N
      BY <2>2
    <3> QED
      BY <3>1
  <2> QED
    BY <2>1, <2>2
<1> QED
  BY <1>1, <1>2 DEF Preceded

Extend(from, p, c) == IF c[1] = from \/ c[1] \notin DOMAIN p THEN c ELSE <<p[c[1]]>> \o c
IsChain(from, p, n, f) == f = [k \in Nat |-> IF k = 0 THEN <<n>> ELSE Extend(from, p, f[k - 1])]

\* The definition of Back, unfolded.
LEMMA BackIs ==
    ASSUME NEW from, NEW p, NEW n, NEW k
    PROVE  Back(from, p, n, k) = (CHOOSE f : IsChain(from, p, n, f))[k]
BY DEF Back, IsChain, Extend

\* A sequence with one more value in front.
LEMMA Prepended ==
    ASSUME NEW S, NEW x \in S, NEW c \in Seq(S)
    PROVE  /\ <<x>> \o c \in Seq(S) /\ Len(<<x>> \o c) = Len(c) + 1
           /\ (<<x>> \o c)[1] = x
           /\ \A i \in 1..Len(c) : (<<x>> \o c)[i + 1] = c[i]
<1> DEFINE o == <<x>>
<1>1. o \in Seq(S) /\ Len(o) = 1 /\ o[1] = x
  OBVIOUS
<1> HIDE DEF o
<1>2. /\ o \o c \in Seq(S) /\ Len(o \o c) = Len(o) + Len(c)
      /\ \A i \in 1..Len(o) : (o \o c)[i] = o[i]
      /\ \A i \in 1..Len(c) : (o \o c)[Len(o) + i] = c[i]
  <2>1. o \in Seq(S) /\ c \in Seq(S)
    BY <1>1
  <2> QED
    BY ONLY <2>1, Joined
<1> DEFINE u == o \o c
<1> HIDE DEF u
<1>3. Len(c) \in Nat
  OBVIOUS
<1>4. u \in Seq(S) /\ Len(u) = Len(c) + 1 /\ u[1] = x /\ \A i \in 1..Len(c) : u[i + 1] = c[i]
  BY <1>1, <1>2, <1>3 DEF u
<1> QED
  BY <1>4 DEF u, o

\* Back follows the predecessors one by one.
LEMMA BackStep ==
    ASSUME NEW S, NEW from, NEW p, \A m \in DOMAIN p : p[m] \in S, NEW n \in S
    PROVE  /\ Back(from, p, n, 0) = <<n>>
           /\ \A k \in Nat : Back(from, p, n, k + 1) = Extend(from, p, Back(from, p, n, k))
<1> DEFINE X == Seq(S) \ {<<>>}
           F == [c \in X |-> Extend(from, p, c)]
           b == CHOOSE f : IsChain(from, p, n, f)
<1>1. PICK f : Iteration(F, <<n>>, f)
  <2> HIDE DEF F
  <2> QED
    BY Iterates
<1>2. f = [i \in Nat |-> f[i]] /\ f[0] = <<n>> /\ \A i \in Nat : f[i + 1] = F[f[i]]
  <2> HIDE DEF F
  <2> QED
    BY <1>1 DEF Iteration
<1>3. ASSUME NEW c \in X PROVE Extend(from, p, c) \in X
  <2>1. CASE c[1] = from \/ c[1] \notin DOMAIN p
    BY <2>1 DEF Extend
  <2>2. CASE ~(c[1] = from \/ c[1] \notin DOMAIN p)
    <3> DEFINE y == p[c[1]]
    <3>1. y \in S /\ c \in Seq(S)
      BY <2>2
    <3>2. Extend(from, p, c) = <<y>> \o c
      BY <2>2 DEF Extend
    <3> HIDE DEF y
    <3>3. <<y>> \o c \in Seq(S) /\ Len(<<y>> \o c) = Len(c) + 1
      BY <3>1, Prepended
    <3> DEFINE u == <<y>> \o c
    <3> HIDE DEF u
    <3>4. u \in X
      <4>1. u \in Seq(S) /\ Len(u) = Len(c) + 1 /\ Len(c) \in Nat
        BY <3>1, <3>3 DEF u
      <4>2. Len(u) # 0
        BY <4>1
      <4> QED
        BY <4>1, <4>2
    <3> QED
      BY <3>2, <3>4 DEF u
  <2> QED
    BY <2>1, <2>2
<1>4. \A c \in X : F[c] = Extend(from, p, c)
  OBVIOUS
<1> HIDE DEF F
<1>5. \A i \in Nat : f[i] \in X
  <2> DEFINE T == {i \in Nat : f[i] \in X}
  <2>1. 0 \in T
    <3>1. <<n>> \in X
      OBVIOUS
    <3> HIDE DEF X
    <3> QED
      BY <1>2, <3>1
  <2> HIDE DEF X
  <2>2. ASSUME NEW i \in Nat, i \in T PROVE i + 1 \in T
    <3>1. f[i] \in X
      BY <2>2
    <3>2. f[i + 1] = Extend(from, p, f[i])
      BY <1>2, <1>4, <3>1
    <3>3. f[i + 1] \in X
      BY <1>3, <3>1, <3>2
    <3> QED
      BY <3>3
  <2>3. \A i \in Nat : i \in T
    <3> HIDE DEF T
    <3> QED
      BY <2>1, <2>2, NatInSet
  <2> QED
    BY <2>3
<1> HIDE DEF X
<1>6. IsChain(from, p, n, f)
  <2>1. \A i \in Nat : i # 0 => f[i] = Extend(from, p, f[i - 1])
    <3> SUFFICES ASSUME NEW i \in Nat, i # 0 PROVE f[i] = Extend(from, p, f[i - 1])
      OBVIOUS
    <3>1. i - 1 \in Nat /\ (i - 1) + 1 = i
      OBVIOUS
    <3> QED
      BY <1>2, <1>4, <1>5, <3>1
  <2>2. f[0] = <<n>> /\ f = [i \in Nat |-> f[i]]
    BY <1>2
  <2> QED
    BY <2>1, <2>2 DEF IsChain
<1>7. IsChain(from, p, n, b)
  BY <1>6
<1> HIDE DEF b
<1>8. b[0] = <<n>> /\ \A k \in Nat : b[k + 1] = Extend(from, p, b[k])
  <2>1. b[0] = <<n>> /\ \A i \in Nat : i # 0 => b[i] = Extend(from, p, b[i - 1])
    BY <1>7 DEF IsChain
  <2>2. \A k \in Nat : k + 1 \in Nat /\ k + 1 # 0 /\ (k + 1) - 1 = k
    OBVIOUS
  <2> QED
    BY <2>1, <2>2
<1>9. \A k : Back(from, p, n, k) = b[k]
  BY BackIs DEF b
<1> QED
  BY <1>8, <1>9

(* A way of k edges to n, from a node that is k nearer.                    *)
ChainTo(g, dir, s, n, c, k) ==
    /\ c \in Seq(DOMAIN s) /\ Len(c) = k + 1 /\ c[k + 1] = n /\ s[c[1]] = s[n] - k
    /\ \A i \in 1..k : EdgeBetween(g, c[i], c[i + 1], dir)

\* One more node in front of it.
LEMMA ChainLonger ==
    ASSUME NEW g, NEW dir, NEW s, NEW n \in DOMAIN s, \A m \in DOMAIN s : s[m] \in Nat,
           NEW c, NEW k \in Nat, ChainTo(g, dir, s, n, c, k),
           NEW x \in DOMAIN s, s[c[1]] = s[x] + 1, EdgeBetween(g, x, c[1], dir)
    PROVE  ChainTo(g, dir, s, n, <<x>> \o c, k + 1)
<1> DEFINE u == <<x>> \o c
<1>1. c \in Seq(DOMAIN s) /\ Len(c) = k + 1
  BY DEF ChainTo
<1>2. /\ u \in Seq(DOMAIN s) /\ Len(u) = Len(c) + 1 /\ u[1] = x
      /\ \A i \in 1..Len(c) : u[i + 1] = c[i]
  <2>1. c \in Seq(DOMAIN s)
    BY <1>1
  <2> QED
    BY ONLY <2>1, x \in DOMAIN s, Prepended
<1> HIDE DEF u
<1>3. Len(u) = (k + 1) + 1
  BY <1>1, <1>2
<1>4. u[(k + 1) + 1] = n
  BY <1>1, <1>2 DEF ChainTo
<1>5. s[u[1]] = s[n] - (k + 1)
  <2>1. s[x] \in Nat /\ s[n] \in Nat /\ s[x] + 1 = s[n] - k
    BY DEF ChainTo
  <2>2. s[x] = s[n] - (k + 1)
    BY <2>1
  <2> QED
    BY <1>2, <2>2
<1>6. ASSUME NEW i \in 1..(k + 1) PROVE EdgeBetween(g, u[i], u[i + 1], dir)
  <2>1. u[i + 1] = c[i]
    BY <1>1, <1>2
  <2>2. CASE i = 1
    BY <1>2, <2>1, <2>2
  <2>3. CASE i # 1
    <3>1. i - 1 \in 1..k /\ i - 1 \in 1..Len(c) /\ (i - 1) + 1 = i
      BY <1>1, <2>3
    <3>2. u[i] = c[i - 1]
      BY <1>2, <3>1
    <3>3. EdgeBetween(g, c[i - 1], c[(i - 1) + 1], dir)
      BY <3>1 DEF ChainTo
    <3> QED
      BY <2>1, <3>1, <3>2, <3>3
  <2> QED
    BY <2>2, <2>3
<1>7. ChainTo(g, dir, s, n, u, k + 1)
  BY <1>2, <1>3, <1>4, <1>5, <1>6 DEF ChainTo
<1> QED
  BY <1>7 DEF u

\* Back from a marked node ends at the start, over as many edges as it is away.
LEMMA BackPath ==
    ASSUME NEW g, NEW a, NEW dir, NEW s, NEW p, Preceded(g, a, dir, s, p),
           a \in DOMAIN s, s[a] = 0, \A m \in DOMAIN s : s[m] \in Nat,
           NEW n \in DOMAIN s, NEW bound \in Nat, s[n] <= bound
    PROVE  LET c == Back(a, p, n, bound)
           IN ChainTo(g, dir, s, n, c, s[n]) /\ c[1] = a
<1> DEFINE d == s[n]
           B(k) == Back(a, p, n, k)
           T == {k \in Nat : ChainTo(g, dir, s, n, B(k), Least(k, d))}
<1>1. d \in Nat
  OBVIOUS
<1>2. B(0) = <<n>> /\ \A k \in Nat : B(k + 1) = Extend(a, p, B(k))
  <2>1. \A m \in DOMAIN p : p[m] \in DOMAIN s
    BY DEF Preceded
  <2> QED
    BY <2>1, BackStep
<1> HIDE DEF B
<1>3. ASSUME NEW m \in DOMAIN s PROVE (s[m] = 0 => m = a) /\ (s[m] # 0 => m # a /\ m \in DOMAIN p)
  BY <1>3 DEF Preceded
<1>4. 0 \in T
  <2>1. Least(0, d) = 0
    BY <1>1 DEF Least
  <2> DEFINE o == <<n>>
  <2>2. o \in Seq(DOMAIN s) /\ Len(o) = 0 + 1 /\ o[0 + 1] = n /\ o[1] = n /\ 1..0 = {}
    OBVIOUS
  <2> HIDE DEF o
  <2>3. ChainTo(g, dir, s, n, o, 0)
    BY <1>1, <2>2 DEF ChainTo
  <2> QED
    BY <1>2, <2>1, <2>3 DEF o
<1>5. ASSUME NEW k \in Nat, k \in T PROVE k + 1 \in T
  <2> DEFINE c == B(k)
  <2>1. ChainTo(g, dir, s, n, c, Least(k, d)) /\ B(k + 1) = Extend(a, p, c)
    BY <1>2, <1>5
  <2> HIDE DEF c
  <2>2. c[1] \in DOMAIN s /\ s[c[1]] = d - Least(k, d)
    <3>1. Least(k, d) \in Nat
      BY <1>1 DEF Least
    <3> QED
      BY <2>1, <3>1 DEF ChainTo
  <2>3. CASE k < d
    <3>1. Least(k, d) = k /\ Least(k + 1, d) = k + 1
      BY <1>1, <2>3 DEF Least
    <3>2. s[c[1]] # 0
      BY <1>1, <2>2, <2>3, <3>1
    <3>3. c[1] # a /\ c[1] \in DOMAIN p
      BY <1>3, <2>2, <3>2
    <3> DEFINE x == p[c[1]]
    <3>4. x \in DOMAIN s /\ s[c[1]] = s[x] + 1 /\ EdgeBetween(g, x, c[1], dir)
      BY <3>3 DEF Preceded
    <3>5. B(k + 1) = <<x>> \o c
      BY <2>1, <3>3 DEF Extend
    <3> HIDE DEF x
    <3>6. ChainTo(g, dir, s, n, <<x>> \o c, k + 1)
      BY <2>1, <3>1, <3>4, ChainLonger
    <3>7. ChainTo(g, dir, s, n, B(k + 1), Least(k + 1, d))
      BY <3>1, <3>5, <3>6, Zenon
    <3>8. k + 1 \in Nat
      OBVIOUS
    <3> QED
      BY <3>7, <3>8
  <2>4. CASE ~(k < d)
    <3>1. Least(k, d) = d /\ Least(k + 1, d) = d
      BY <1>1, <2>4 DEF Least
    <3>2. c[1] = a
      BY <1>1, <1>3, <2>2, <3>1
    <3>3. B(k + 1) = c
      BY <2>1, <3>2 DEF Extend
    <3> QED
      BY <2>1, <3>1, <3>3
  <2> QED
    BY <2>3, <2>4
<1>6. bound \in T
  <2> HIDE DEF T
  <2>1. \A k \in Nat : k \in T
    BY <1>4, <1>5, NatInSet
  <2> QED
    BY <2>1
<1>7. ChainTo(g, dir, s, n, B(bound), d)
  <2>1. Least(bound, d) = d
    BY <1>1 DEF Least
  <2> QED
    BY <1>6, <2>1
<1>8. B(bound)[1] = a
  <2>1. B(bound)[1] \in DOMAIN s /\ s[B(bound)[1]] = 0
    BY <1>1, <1>7 DEF ChainTo
  <2> QED
    BY <1>3, <2>1
<1> QED
  BY <1>7, <1>8 DEF B

\* A step of path_query keeps the predecessors.
LEMMA PathPreceded ==
    ASSUME Given, Marking, queue # <<>>, NEW next, GoOn(next),
           AllNext(graph, Head(queue).node, Way(query), next),
           Preceded(graph, query.start, Way(query), seen, pred)
    PROVE  Preceded(graph, query.start, Way(query), seen', pred')
<1>1. CASE AtBound
  BY <1>1 DEF GoOn, Drop
<1>2. CASE ~AtBound
  <2> DEFINE a == query.start
             dir == Way(query)
             cap == Budget(query)
             h == Head(queue).node
             new == Taken(next, cap)
  <2>1. cap \in Nat
    BY QueryFields DEF QueryTypes
  <2>2. /\ queue \in Seq(QueueEntry) /\ DOMAIN seen \subseteq Nodes /\ a \in DOMAIN seen
        /\ Cardinality(DOMAIN seen) <= cap
        /\ \A i \in 1..Len(queue) : queue[i].node \in DOMAIN seen
                                      /\ seen[queue[i].node] = queue[i].depth
    BY DEF Marking, Marked
  <2>3. Head(queue) = queue[1] /\ 1 \in 1..Len(queue)
    BY <2>2
  <2>4. h \in DOMAIN seen /\ seen[h] = queue[1].depth
    BY <2>2, <2>3
  <2>5. next \in Seq(Nodes) /\ \A m \in ToSet(next) : EdgeBetween(graph, h, m, dir)
    BY DEF AllNext
  <2>6. Discover(next, cap)
    BY <1>2 DEF GoOn
  <2>7. Expanded(queue, seen, new, queue', seen')
    BY <2>1, <2>2, <2>5, <2>6, Discovered
  <2>8. \A m \in ToSet(new) : m \in ToSet(next) /\ m \notin DOMAIN seen
    BY <2>1, <2>2, <2>5, TakenFacts
  <2>9. pred' = [m \in DOMAIN pred \cup ToSet(new) |-> IF m \in DOMAIN pred THEN pred[m] ELSE h]
    BY <2>6 DEF Discover
  <2> HIDE DEF new, h, cap, dir, a
  <2> DEFINE N == ToSet(new)
  <2> HIDE DEF N
  <2>10. /\ \A m \in N : m \notin DOMAIN seen /\ EdgeBetween(graph, h, m, dir)
                           /\ seen'[m] = seen[h] + 1
         /\ DOMAIN seen' = DOMAIN seen \cup N /\ \A m \in DOMAIN seen : seen'[m] = seen[m]
    BY <2>4, <2>5, <2>7, <2>8 DEF Expanded, N
  <2>11. /\ DOMAIN pred' = DOMAIN pred \cup N /\ \A m \in DOMAIN pred : pred'[m] = pred[m]
         /\ \A m \in N : m \notin DOMAIN pred => pred'[m] = h
    BY <2>9 DEF N
  <2>12. Preceded(graph, a, dir, seen, pred) /\ a \in DOMAIN seen
    BY <2>2 DEF a, dir
  <2>13. Preceded(graph, a, dir, seen', pred')
    BY <2>4, <2>10, <2>11, <2>12, PrecededStep
  <2> QED
    BY <2>13 DEF a, dir
<1> QED
  BY <1>1, <1>2

\* The start is at depth 0.
LEMMA StartDepth ==
    ASSUME NEW g, NEW a, NEW dir, NEW hops, NEW cap, NEW q, NEW s,
           Marked(g, a, dir, hops, cap, q, s)
    PROVE  a \in DOMAIN s /\ s[a] = 0
<1>1. a \in DOMAIN s /\ s[a] \in Nat /\ a \in Sphere(g, a, dir, s[a])
  BY DEF Marked
<1>2. a \in Ball(g, a, dir, Nodes, 0)
  BY BallStep
<1>3. s[a] <= 0
  BY <1>1, <1>2, SphereInBall
<1> QED
  BY <1>1, <1>3

\* path_query ends with the goal found: the way back is a shortest path.
LEMMA PathFound ==
    ASSUME NEW g, NEW a, NEW dir, NEW hops \in Nat, NEW cap, NEW q, NEW s, NEW p,
           Marked(g, a, dir, hops, cap, q, s), Preceded(g, a, dir, s, p), NEW n \in DOMAIN s
    PROVE  LET c == Back(a, p, n, hops)
           IN /\ a \in Nodes /\ n \in Nodes /\ n \in Ball(g, a, dir, Nodes, hops)
              /\ c \in Seq(Nodes) /\ c # <<>> /\ c[1] = a /\ Last(c) = n
              /\ n \in Sphere(g, a, dir, Len(c) - 1)
              /\ \A i \in 1..(Len(c) - 1) : EdgeBetween(g, c[i], c[i + 1], dir)
<1> DEFINE c == Back(a, p, n, hops)
           d == s[n]
<1>1. /\ DOMAIN s \subseteq Nodes
      /\ \A m \in DOMAIN s : s[m] \in Nat /\ s[m] <= hops /\ m \in Sphere(g, a, dir, s[m])
  BY DEF Marked
<1>2. a \in DOMAIN s /\ s[a] = 0
  BY StartDepth
<1>3. ChainTo(g, dir, s, n, c, d) /\ c[1] = a
  BY <1>1, <1>2, BackPath
<1>4. d \in Nat /\ d <= hops /\ n \in Sphere(g, a, dir, d)
  BY <1>1
<1> HIDE DEF c, d
<1>5. c \in Seq(DOMAIN s) /\ Len(c) = d + 1 /\ c[d + 1] = n
      /\ \A i \in 1..d : EdgeBetween(g, c[i], c[i + 1], dir)
  BY <1>3 DEF ChainTo, d
<1>6. Len(c) - 1 = d /\ c # <<>>
  BY <1>4, <1>5
<1>7. Last(c) = n
  BY <1>5 DEF Last
<1>8. n \in Ball(g, a, dir, Nodes, hops)
  BY <1>4, SphereInBall
<1>9. c \in Seq(Nodes)
  <2>1. DOMAIN c = 1..Len(c) /\ Len(c) \in Nat /\ \A i \in 1..Len(c) : c[i] \in Nodes
    BY <1>1, <1>5
  <2>2. c = [i \in 1..Len(c) |-> c[i]]
    BY <1>5
  <2>3. c \in [1..Len(c) -> Nodes]
    BY <2>1, <2>2
  <2> QED
    BY <2>1, <2>3
<1>10. a \in Nodes /\ n \in Nodes
  BY <1>1, <1>2
<1>11. n \in Sphere(g, a, dir, Len(c) - 1)
  BY <1>4, <1>6
<1>12. \A i \in 1..(Len(c) - 1) : EdgeBetween(g, c[i], c[i + 1], dir)
  BY <1>5, <1>6
<1> QED
  BY <1>3, <1>6, <1>7, <1>8, <1>9, <1>10, <1>11, <1>12 DEF c

\* A step of path_query.
LEMMA PathKept ==
    ASSUME Given, PathInv, PathStep
    PROVE  PathInv' /\ PathShortest'
<1>1. /\ Runs("path") /\ queue # <<>> /\ graph' = graph /\ query' = query
      /\ GoOn(Neighbourhood)
      /\ IF query.goal \in DOMAIN seen'
         THEN pc' = "done" /\ result' = Back(query.start, pred', query.goal, Hops(query))
         ELSE pc' = pc /\ result' = result
  BY DEF PathStep, GoOn
<1>2. /\ Marking /\ Preceded(graph, query.start, Way(query), seen, pred) /\ result = None
  BY <1>1 DEF PathInv
<1>3. AllNext(graph, Head(queue).node, Way(query), Neighbourhood)
  BY NeighbourhoodIs
<1> DEFINE next == Neighbourhood
<1> HIDE DEF next
<1>4. /\ GoOn(next) /\ AllNext(graph, Head(queue).node, Way(query), next)
  BY <1>1, <1>3 DEF next
<1>5. Marking'
  BY <1>1, <1>2, <1>4, MarkingStep
<1>6. Preceded(graph, query.start, Way(query), seen', pred')
  BY <1>1, <1>2, <1>4, PathPreceded
<1>7. query.kind = "path" /\ pc = "run" /\ Way(query) = query.dir
      /\ Hops(query) = Least(query.hops, MAX_REACH_HOPS)
  BY <1>1 DEF Runs, Way, Hops
<1>8. CASE query.goal \in DOMAIN seen'
  <2> DEFINE a == query.start
             n == query.goal
             hops == Hops(query)
             c == Back(a, pred', n, hops)
  <2>1. pc' = "done" /\ result' = c
    BY <1>1, <1>8
  <2>2. hops \in Nat
    BY QueryFields DEF QueryTypes
  <2>3. Marked(graph, a, Way(query), hops, Budget(query), queue', seen')
    BY <1>1, <1>5 DEF Marking
  <2>4. /\ a \in Nodes /\ n \in Nodes /\ n \in Ball(graph, a, Way(query), Nodes, hops)
        /\ c \in Seq(Nodes) /\ c # <<>> /\ c[1] = a /\ Last(c) = n
        /\ n \in Sphere(graph, a, Way(query), Len(c) - 1)
        /\ \A i \in 1..(Len(c) - 1) : EdgeBetween(graph, c[i], c[i + 1], Way(query))
    BY <1>6, <1>8, <2>2, <2>3, PathFound
  <2>5. PathInv'
    BY <2>1 DEF PathInv, Runs
  <2> HIDE DEF c
  <2>6. PathShortest'
    BY <1>1, <1>7, <2>1, <2>4 DEF PathShortest
  <2> QED
    BY <2>5, <2>6
<1>9. CASE query.goal \notin DOMAIN seen'
  <2>1. pc' = "run" /\ result' = None
    BY <1>1, <1>2, <1>7, <1>9
  <2>2. PathInv'
    BY <1>1, <1>5, <1>6, <1>9, <2>1 DEF PathInv
  <2>3. PathShortest'
    BY <2>1 DEF PathShortest, Answers
  <2> QED
    BY <2>2, <2>3
<1> QED
  BY <1>8, <1>9

\* path_query ends with an empty queue: the goal is out of reach.
LEMMA PathMissed ==
    ASSUME Given, PathInv, Runs("path"), WalkDone
    PROVE  PathShortest'
<1>1. queue = <<>> /\ graph' = graph /\ query' = query /\ result' = result
  BY DEF WalkDone, Done
<1>2. Marking /\ query.goal \notin DOMAIN seen /\ result = None
  BY DEF PathInv
<1>3. query.kind = "path" /\ Way(query) = query.dir
      /\ Hops(query) = Least(query.hops, MAX_REACH_HOPS)
  BY DEF Runs, Way, Hops
<1>4. Cardinality(DOMAIN seen) < Budget(query)
  BY <1>2, <1>3, BudgetToSpare
<1>5. Hops(query) \in Nat
  BY QueryFields DEF QueryTypes
<1>6. Marked(graph, query.start, query.dir, Hops(query), Budget(query), <<>>, seen)
  BY <1>1, <1>2, <1>3 DEF Marking
<1>7. DOMAIN seen = Ball(graph, query.start, query.dir, Nodes, Hops(query))
  BY <1>4, <1>5, <1>6, MarkedEnd
<1> QED
  BY <1>1, <1>2, <1>3, <1>7 DEF PathShortest

\* path_query before its first step, and when it needs none.
LEMMA PathInit == Init => PathInv /\ PathShortest
<1> SUFFICES ASSUME Init PROVE PathInv /\ PathShortest
  OBVIOUS
<1> DEFINE a == query.start
           n == query.goal
           dir == query.dir
           hops == Least(query.hops, MAX_REACH_HOPS)
<1>1. Given /\ QueryTypes
  BY GivenInit, QueryFields
<1>2. ASSUME Runs("path") PROVE PathInv
  <2>1. Marking
    BY <1>2, MarkingInit DEF Runs
  <2>2. /\ a \in Nodes /\ n # a /\ pred = <<>> /\ result = None
        /\ seen = [m \in {a} \cap Nodes |-> 0]
    BY <1>2 DEF Init, Runs, Immediate, Empty
  <2>3. DOMAIN pred = {} /\ DOMAIN seen = {a}
    BY <2>2
  <2>4. Preceded(graph, a, Way(query), seen, pred)
    BY <2>3 DEF Preceded
  <2> QED
    BY <2>1, <2>2, <2>3, <2>4 DEF PathInv
<1>3. ASSUME Answers("path") PROVE PathShortest
  <2>1. Immediate(query) /\ query.kind = "path"
    BY <1>3 DEF Init, Answers
  <2>2. result = IF a = n /\ a \in Nodes THEN <<a>> ELSE None
    BY <2>1 DEF Init, Answer, Empty
  <2>3. hops \in Nat /\ (query.hops = 0 => hops = 0)
    BY <1>1, GraphAssumption DEF QueryTypes, Least
  <2>4. a \notin Nodes \/ n \notin Nodes \/ a = n \/ query.hops = 0
    BY <2>1 DEF Immediate
  <2> HIDE DEF hops
  <2>5. CASE a = n /\ a \in Nodes
    <3> DEFINE c == <<a>>
    <3>1. /\ c \in Seq(Nodes) /\ c # <<>> /\ c[1] = a /\ Len(c) - 1 = 0 /\ Last(c) = a
          /\ 1..(Len(c) - 1) = {}
      BY <2>5 DEF Last
    <3>2. a \in Ball(graph, a, dir, Nodes, hops)
      BY <2>3, BallGrows
    <3>3. a \in Ball(graph, a, dir, Nodes, 0)
      BY BallStep
    <3>4. a \in Sphere(graph, a, dir, 0)
      BY <3>3 DEF Sphere
    <3>5. result = c
      BY <2>2, <2>5
    <3> HIDE DEF c
    <3>6. a \in Sphere(graph, a, dir, Len(c) - 1)
      BY <3>1, <3>4
    <3> QED
      BY <2>5, <3>1, <3>2, <3>5, <3>6 DEF PathShortest, hops
  <2>6. CASE ~(a = n /\ a \in Nodes)
    <3>1. result = None
      BY <2>2, <2>6
    <3>2. ~({a, n} \subseteq Nodes /\ n \in Ball(graph, a, dir, Nodes, hops))
      <4>1. CASE a \in Nodes /\ n \in Nodes
        <5>1. hops = 0 /\ a # n
          BY <2>3, <2>4, <2>6, <4>1
        <5>2. Ball(graph, a, dir, Nodes, 0) = {a}
          BY BallStep
        <5> QED
          BY <5>1, <5>2
      <4> QED
        BY <4>1
    <3> QED
      BY <3>1, <3>2 DEF PathShortest, hops
  <2> QED
    BY <2>5, <2>6
<1>4. PathInv
  BY <1>2 DEF PathInv
<1>5. PathShortest
  BY <1>3 DEF PathShortest
<1> QED
  BY <1>4, <1>5

\* A step of reachable_within.
LEMMA ReachKept ==
    ASSUME Given, ReachInv, ReachStep
    PROVE  ReachInv'
<1>1. Runs("reach") /\ queue # <<>> /\ graph' = graph /\ query' = query /\ GoOn(Neighbourhood)
  BY DEF ReachStep, GoOn
<1>2. Marking
  BY <1>1 DEF ReachInv
<1>3. AllNext(graph, Head(queue).node, Way(query), Neighbourhood)
  BY NeighbourhoodIs
<1> DEFINE next == Neighbourhood
<1> HIDE DEF next
<1>4. /\ GoOn(next) /\ AllNext(graph, Head(queue).node, Way(query), next)
  BY <1>1, <1>3 DEF next
<1>5. Marking'
  BY <1>1, <1>2, <1>4, MarkingStep
<1> QED
  BY <1>5 DEF ReachInv

-----------------------------------------------------------------------------
(* call_tree.                                                              *)

\* A sequence over a part is a sequence over the whole.
LEMMA SeqOfPart ==
    ASSUME NEW S, NEW T, T \subseteq S, NEW s \in Seq(T)
    PROVE  s \in Seq(S)
<1>1. DOMAIN s = 1..Len(s) /\ Len(s) \in Nat /\ \A i \in 1..Len(s) : s[i] \in S
  OBVIOUS
<1>2. s = [i \in 1..Len(s) |-> s[i]]
  OBVIOUS
<1>3. s \in [1..Len(s) -> S]
  BY <1>1, <1>2
<1> QED
  BY <1>1, <1>3

(* The rows after the head of the queue was expanded.                      *)
Placed(q, r, next, new, r2) ==
    /\ r2 \in Seq(TreeRowSet) /\ Len(r2) = Len(r) + Len(new)
    /\ \A i \in 1..Len(r) :
         /\ r2[i].node = r[i].node /\ r2[i].depth = r[i].depth
         /\ r[i].node = q[1].node => r2[i].children = next
         /\ r[i].node # q[1].node => r2[i].children = r[i].children
    /\ \A i \in 1..Len(new) :
         /\ r2[Len(r) + i].node = new[i] /\ r2[Len(r) + i].depth = q[1].depth + 1
         /\ r2[Len(r) + i].children = <<>>

\* A row is an old one or one of those placed now.
LEMMA PlacedRow ==
    ASSUME NEW q, NEW r \in Seq(TreeRowSet), NEW next, NEW new \in Seq(Nodes), NEW r2,
           Placed(q, r, next, new, r2), NEW i \in 1..Len(r2)
    PROVE  \/ i \in 1..Len(r)
           \/ /\ i > Len(r) /\ i - Len(r) \in 1..Len(new) /\ r2[i].node = new[i - Len(r)]
              /\ r2[i].depth = q[1].depth + 1 /\ r2[i].children = <<>>
<1>1. Len(r) \in Nat /\ Len(new) \in Nat /\ Len(r2) = Len(r) + Len(new)
  BY DEF Placed
<1>2. CASE i <= Len(r)
  BY <1>1, <1>2
<1>3. CASE i > Len(r)
  <2> DEFINE j == i - Len(r)
  <2>1. j \in 1..Len(new) /\ Len(r) + j = i
    BY <1>1, <1>3
  <2>2. r2[Len(r) + j].node = new[j] /\ r2[Len(r) + j].depth = q[1].depth + 1
        /\ r2[Len(r) + j].children = <<>>
    BY <2>1 DEF Placed
  <2> QED
    BY <1>3, <2>1, <2>2
<1> QED
  BY <1>1, <1>2, <1>3

\* Every marked node has one row, and every expanded one its neighbours.
LEMMA TreeRowsStep ==
    ASSUME NEW g, NEW dir, NEW hops \in Nat, NEW q \in Seq(QueueEntry), q # <<>>, NEW s,
           NEW r, TreeRows(g, dir, hops, q, s, r), \A m \in DOMAIN s : s[m] \in Nat,
           q[1].node \in DOMAIN s, s[q[1].node] = q[1].depth, q[1].depth < hops,
           NEW new \in Seq(Nodes), \A i, j \in 1..Len(new) : new[i] = new[j] => i = j,
           \A m \in ToSet(new) : m \notin DOMAIN s,
           NEW q2, NEW s2, Expanded(q, s, new, q2, s2), NEW next,
           ToSet(next) = {m \in Nodes \ {q[1].node} : EdgeBetween(g, q[1].node, m, dir)},
           NEW r2, Placed(q, r, next, new, r2)
    PROVE  TreeRows(g, dir, hops, q2, s2, r2)
<1> DEFINE h == q[1].node
           N(n) == {m \in Nodes \ {n} : EdgeBetween(g, n, m, dir)}
<1>1. /\ r \in Seq(TreeRowSet) /\ r2 \in Seq(TreeRowSet) /\ Len(r) \in Nat /\ Len(new) \in Nat
      /\ Len(r2) = Len(r) + Len(new)
  <2>1. r \in Seq(TreeRowSet)
    BY DEF TreeRows
  <2>2. r2 \in Seq(TreeRowSet) /\ Len(r2) = Len(r) + Len(new)
    BY DEF Placed
  <2> QED
    BY <2>1, <2>2
<1>2. /\ DOMAIN s2 = DOMAIN s \cup ToSet(new) /\ \A m \in DOMAIN s : s2[m] = s[m]
      /\ \A m \in ToSet(new) : s2[m] = q[1].depth + 1
  BY DEF Expanded
<1>3. /\ \A n \in ToSet(new) : Queued(q2, n)
      /\ \A n : Queued(q, n) => n = h \/ Queued(q2, n)
  <2>1. Requeued(q, new, q2)
    BY DEF Expanded
  <2> QED
    BY <2>1, RequeuedQueued
<1>4. \A x : x \in ToSet(new) <=> \E i \in 1..Len(new) : new[i] = x
  BY ToSetOfSeq
<1>5. ASSUME NEW i \in 1..Len(r)
      PROVE  /\ r2[i].node = r[i].node /\ r2[i].depth = r[i].depth
             /\ r[i].node = h => r2[i].children = next
             /\ r[i].node # h => r2[i].children = r[i].children
             /\ r[i].node \in DOMAIN s /\ r[i].depth = s[r[i].node]
             /\ r[i].depth = hops => ToSet(r[i].children) = {}
             /\ r[i].depth < hops /\ ~Queued(q, r[i].node) =>
                  ToSet(r[i].children) = N(r[i].node)
  BY DEF Placed, TreeRows
<1>6. ToSet(next) = N(h) /\ ToSet(<<>>) = {}
  BY DEF ToSet
<1> HIDE DEF N, h
<1>7. ASSUME NEW i \in 1..Len(r2)
      PROVE  /\ r2[i].node \in DOMAIN s2 /\ r2[i].depth = s2[r2[i].node]
             /\ r2[i].depth = hops => ToSet(r2[i].children) = {}
             /\ r2[i].depth < hops /\ ~Queued(q2, r2[i].node) =>
                  ToSet(r2[i].children) = N(r2[i].node)
  <2>1. CASE i \in 1..Len(r)
    <3>1. r2[i].node \in DOMAIN s2 /\ r2[i].depth = s2[r2[i].node]
      BY <1>2, <1>5, <2>1
    <3>2. CASE r[i].node = h
      <4>1. r2[i].depth = q[1].depth /\ q[1].depth # hops
        <5>1. q[1].depth \in Nat
          BY DEF h
        <5> QED
          BY <1>5, <2>1, <3>2, <5>1 DEF h
      <4>2. r2[i].depth # hops
        BY <4>1
      <4>3. ToSet(r2[i].children) = N(r2[i].node)
        BY <1>5, <1>6, <2>1, <3>2
      <4> QED
        BY <3>1, <4>2, <4>3
    <3>3. CASE r[i].node # h
      BY <1>3, <1>5, <2>1, <3>1, <3>3
    <3> QED
      BY <3>2, <3>3
  <2>2. CASE i \notin 1..Len(r)
    <3>1. /\ i - Len(r) \in 1..Len(new) /\ r2[i].node = new[i - Len(r)]
          /\ r2[i].depth = q[1].depth + 1 /\ r2[i].children = <<>>
      BY <1>1, <2>2, PlacedRow
    <3>2. r2[i].node \in ToSet(new)
      BY <1>4, <3>1
    <3> QED
      BY <1>2, <1>3, <1>6, <3>1, <3>2
  <2> QED
    BY <2>1, <2>2
<1>8. ASSUME NEW m \in DOMAIN s2 PROVE \E i \in 1..Len(r2) : r2[i].node = m
  <2>1. CASE m \in DOMAIN s
    <3>1. PICK i \in 1..Len(r) : r[i].node = m
      BY <2>1 DEF TreeRows
    <3>2. i \in 1..Len(r2) /\ r2[i].node = m
      BY <1>1, <1>5, <3>1
    <3> QED
      BY <3>2
  <2>2. CASE m \in ToSet(new)
    <3>1. PICK i \in 1..Len(new) : new[i] = m
      BY <1>4, <2>2
    <3>2. Len(r) + i \in 1..Len(r2) /\ r2[Len(r) + i].node = m
      BY <1>1, <3>1 DEF Placed
    <3> QED
      BY <3>2
  <2> QED
    BY <1>2, <2>1, <2>2
<1>9. ASSUME NEW i \in 1..Len(r2), NEW j \in 1..Len(r2), r2[i].node = r2[j].node
      PROVE  i = j
  <2>1. CASE i \in 1..Len(r) /\ j \in 1..Len(r)
    <3>1. r[i].node = r[j].node
      BY <1>5, <1>9, <2>1
    <3> QED
      BY <2>1, <3>1 DEF TreeRows
  <2>2. \A k \in 1..Len(r) : r2[k].node \in DOMAIN s
    BY <1>5
  <2>3. \A k \in 1..Len(r2) : k \notin 1..Len(r) =>
           k - Len(r) \in 1..Len(new) /\ r2[k].node = new[k - Len(r)] /\ r2[k].node \in ToSet(new)
    <3> SUFFICES ASSUME NEW k \in 1..Len(r2), k \notin 1..Len(r)
                 PROVE  k - Len(r) \in 1..Len(new) /\ r2[k].node = new[k - Len(r)]
                          /\ r2[k].node \in ToSet(new)
      OBVIOUS
    <3>1. \/ k \in 1..Len(r)
          \/ /\ k > Len(r) /\ k - Len(r) \in 1..Len(new) /\ r2[k].node = new[k - Len(r)]
             /\ r2[k].depth = q[1].depth + 1 /\ r2[k].children = <<>>
      BY <1>1, PlacedRow
    <3> QED
      BY <1>4, <3>1
  <2>4. CASE i \notin 1..Len(r) /\ j \notin 1..Len(r)
    <3>1. i - Len(r) = j - Len(r)
      BY <1>9, <2>3, <2>4
    <3> QED
      BY <1>1, <3>1
  <2>5. CASE ~(i \in 1..Len(r) <=> j \in 1..Len(r))
    BY <1>9, <2>2, <2>3, <2>5
  <2> QED
    BY <2>1, <2>4, <2>5
<1> QED
  BY <1>1, <1>7, <1>8, <1>9 DEF TreeRows, N

\* Dropping the head, at the bound, keeps the rows.
LEMMA TreeRowsDrop ==
    ASSUME NEW g, NEW dir, NEW hops \in Nat, NEW q \in Seq(QueueEntry), q # <<>>, NEW s,
           NEW r, TreeRows(g, dir, hops, q, s, r), \A m \in DOMAIN s : s[m] \in Nat,
           s[q[1].node] = q[1].depth, ~(q[1].depth < hops),
           NEW q2, Expanded(q, s, <<>>, q2, s)
    PROVE  TreeRows(g, dir, hops, q2, s, r)
<1>1. <<>> \in Seq(Nodes)
  OBVIOUS
<1>2. \A n : Queued(q, n) => n = q[1].node \/ Queued(q2, n)
  <2>1. Requeued(q, <<>>, q2)
    BY DEF Expanded
  <2> QED
    BY <1>1, <2>1, RequeuedQueued
<1>3. ASSUME NEW i \in 1..Len(r), r[i].depth < hops, ~Queued(q2, r[i].node)
      PROVE  ~Queued(q, r[i].node)
  <2>1. r[i].depth = s[r[i].node]
    BY DEF TreeRows
  <2>2. r[i].node # q[1].node
    BY <1>3, <2>1
  <2> QED
    BY <1>2, <1>3, <2>2
<1> QED
  BY <1>3 DEF TreeRows

\* A function on 1..n is a sequence of length n.
LEMMA SeqFrom ==
    ASSUME NEW S, NEW n \in Nat, NEW u \in [1..n -> S]
    PROVE  u \in Seq(S) /\ Len(u) = n
OBVIOUS

\* The rows TreeStep makes.
LEMMA TreePlaced ==
    ASSUME NEW q \in Seq(QueueEntry), q # <<>>, NEW r \in Seq(TreeRowSet),
           NEW next \in Seq(Nodes), NEW new \in Seq(Nodes), NEW r2,
           r2 = [i \in DOMAIN r |-> IF r[i].node = q[1].node THEN TreeRow(q[1], next) ELSE r[i]]
                \o [i \in DOMAIN new |-> TreeRow(Row(new[i], q[1].depth + 1), <<>>)],
           \A i \in 1..Len(r) : r[i].node = q[1].node => r[i].depth = q[1].depth
    PROVE  Placed(q, r, next, new, r2)
<1> DEFINE u == [i \in DOMAIN r |-> IF r[i].node = q[1].node THEN TreeRow(q[1], next) ELSE r[i]]
           v == [i \in DOMAIN new |-> TreeRow(Row(new[i], q[1].depth + 1), <<>>)]
<1>1. q[1].node \in Nodes /\ q[1].depth \in Nat /\ q[1].depth + 1 \in Nat
  <2>1. 1 \in 1..Len(q)
    OBVIOUS
  <2> QED
    BY <2>1, EntryFields
<1>2. /\ DOMAIN r = 1..Len(r) /\ Len(r) \in Nat /\ \A i \in 1..Len(r) : r[i] \in TreeRowSet
      /\ DOMAIN new = 1..Len(new) /\ Len(new) \in Nat /\ \A i \in 1..Len(new) : new[i] \in Nodes
  OBVIOUS
<1>3. \A x, c : TreeRow(x, c).node = x.node /\ TreeRow(x, c).depth = x.depth
                  /\ TreeRow(x, c).children = c
  BY DEF TreeRow
<1>4. \A n, d : Row(n, d).node = n /\ Row(n, d).depth = d
  BY DEF Row
<1>5. TreeRow(q[1], next) \in TreeRowSet
  BY <1>1 DEF TreeRow, TreeRowSet
<1>6. ASSUME NEW n \in Nodes PROVE TreeRow(Row(n, q[1].depth + 1), <<>>) \in TreeRowSet
  <2>1. <<>> \in Seq(Nodes)
    OBVIOUS
  <2> QED
    BY <1>1, <1>4, <2>1 DEF TreeRow, TreeRowSet
<1>7. u \in Seq(TreeRowSet) /\ Len(u) = Len(r)
  <2>1. u \in [1..Len(r) -> TreeRowSet]
    BY <1>2, <1>5
  <2> HIDE DEF u
  <2> QED
    BY ONLY <1>2, <2>1, SeqFrom
<1>8. v \in Seq(TreeRowSet) /\ Len(v) = Len(new)
  <2>1. v \in [1..Len(new) -> TreeRowSet]
    BY <1>2, <1>6
  <2> HIDE DEF v
  <2> QED
    BY ONLY <1>2, <2>1, SeqFrom
<1>14. \A i \in 1..Len(r) : r[i].node = q[1].node => r[i].depth = q[1].depth
  OBVIOUS
<1>9. ASSUME NEW i \in 1..Len(r)
      PROVE  /\ u[i].node = r[i].node /\ u[i].depth = r[i].depth
             /\ r[i].node = q[1].node => u[i].children = next
             /\ r[i].node # q[1].node => u[i].children = r[i].children
  <2>1. CASE r[i].node = q[1].node
    <3>1. u[i] = TreeRow(q[1], next)
      BY <1>2, <2>1
    <3> HIDE DEF u
    <3> QED
      BY ONLY <1>3, <1>14, <2>1, <3>1, i \in 1..Len(r)
  <2>2. CASE r[i].node # q[1].node
    <3>1. u[i] = r[i]
      BY <1>2, <2>2
    <3> HIDE DEF u
    <3> QED
      BY <2>2, <3>1
  <2> QED
    BY <2>1, <2>2
<1>10. ASSUME NEW i \in 1..Len(new)
       PROVE  v[i].node = new[i] /\ v[i].depth = q[1].depth + 1 /\ v[i].children = <<>>
  <2>1. v[i] = TreeRow(Row(new[i], q[1].depth + 1), <<>>)
    BY <1>2
  <2> HIDE DEF v
  <2> QED
    BY ONLY <1>3, <1>4, <2>1
<1>11. r2 = u \o v
  OBVIOUS
<1> HIDE DEF u, v
<1>12. /\ u \o v \in Seq(TreeRowSet) /\ Len(u \o v) = Len(u) + Len(v)
       /\ \A i \in 1..Len(u) : (u \o v)[i] = u[i]
       /\ \A i \in 1..Len(v) : (u \o v)[Len(u) + i] = v[i]
  <2>1. u \in Seq(TreeRowSet) /\ v \in Seq(TreeRowSet)
    BY <1>7, <1>8
  <2> QED
    BY ONLY <2>1, Joined
<1>13. /\ r2 \in Seq(TreeRowSet) /\ Len(r2) = Len(r) + Len(new)
       /\ \A i \in 1..Len(r) : r2[i] = u[i]
       /\ \A i \in 1..Len(new) : r2[Len(r) + i] = v[i]
  BY ONLY <1>7, <1>8, <1>11, <1>12
<1> QED
  BY ONLY <1>9, <1>10, <1>13 DEF Placed

\* A step of call_tree.
LEMMA TreeKept ==
    ASSUME Given, TreeInv, TreeStep
    PROVE  TreeInv'
<1> DEFINE dir == Way(query)
           hops == Hops(query)
           cap == Budget(query)
           h == Head(queue).node
           next == Keep(Neighbourhood, Nodes \ {h})
           new == Taken(next, cap)
<1>1. Runs("tree") /\ queue # <<>> /\ graph' = graph /\ query' = query
  BY DEF TreeStep
<1>2. Marking /\ TreeRows(graph, dir, hops, queue, seen, result)
  BY <1>1 DEF TreeInv
<1>3. hops \in Nat /\ cap \in Nat
  BY QueryFields DEF QueryTypes
<1>4. /\ queue \in Seq(QueueEntry) /\ DOMAIN seen \subseteq Nodes
      /\ Cardinality(DOMAIN seen) <= cap /\ \A m \in DOMAIN seen : seen[m] \in Nat
      /\ \A i \in 1..Len(queue) : queue[i].node \in DOMAIN seen
                                    /\ seen[queue[i].node] = queue[i].depth
  BY <1>2 DEF Marking, Marked
<1>5. Head(queue) = queue[1] /\ 1 \in 1..Len(queue)
  BY <1>1, <1>4
<1>6. h \in DOMAIN seen /\ seen[h] = queue[1].depth /\ h = queue[1].node /\ queue[1].depth \in Nat
  BY <1>4, <1>5
<1>7. AllNext(graph, h, dir, Neighbourhood)
  BY NeighbourhoodIs
<1>8. /\ next \in Seq(Nodes)
      /\ ToSet(next) = {m \in Nodes \ {h} : EdgeBetween(graph, h, m, dir)}
  <2> DEFINE b == Neighbourhood
             K == Nodes \ {h}
  <2>1. b \in Seq(Nodes)
    BY <1>7 DEF AllNext
  <2> HIDE DEF b, K
  <2>2. Keep(b, K) \in Seq(Nodes \cap K) /\ ToSet(Keep(b, K)) = ToSet(b) \cap K
    BY <2>1, KeepValues
  <2>3. Nodes \cap K \subseteq Nodes
    OBVIOUS
  <2>4. Keep(b, K) \in Seq(Nodes)
    BY <2>2, <2>3, SeqOfPart
  <2>5. ToSet(b) \cap K = {m \in Nodes \ {h} : EdgeBetween(graph, h, m, dir)}
    BY <1>7 DEF AllNext, b, K
  <2> QED
    BY <2>2, <2>4, <2>5 DEF b, K
<1>9. AllNext(graph, h, dir, next)
  <2> HIDE DEF next, h, dir
  <2> QED
    BY <1>8 DEF AllNext
<1>10. GoOn(next)
  BY DEF TreeStep, GoOn
<1> DEFINE x == next
<1> HIDE DEF x
<1>11. Marking'
  <2>1. GoOn(x) /\ AllNext(graph, Head(queue).node, Way(query), x)
    BY <1>9, <1>10 DEF x
  <2> QED
    BY <1>1, <1>2, <2>1, MarkingStep
<1>12. CASE AtBound
  <2>1. Drop /\ result' = result
    BY <1>12 DEF TreeStep
  <2>2. Expanded(queue, seen, <<>>, queue', seen)
    <3>1. Expanded(queue, seen, <<>>, queue', seen')
      BY <1>1, <1>4, <2>1, Dropped
    <3>2. seen' = seen
      BY <2>1 DEF Drop
    <3> QED
      BY <3>1, <3>2
  <2>3. ~(queue[1].depth < hops)
    BY <1>3, <1>5, <1>6, <1>12 DEF AtBound
  <2>4. TreeRows(graph, dir, hops, queue', seen, result)
    <3> HIDE DEF dir, hops
    <3> QED
      BY <1>1, <1>2, <1>3, <1>4, <1>6, <2>2, <2>3, TreeRowsDrop
  <2>5. seen' = seen
    BY <2>1 DEF Drop
  <2> QED
    BY <1>1, <1>11, <2>1, <2>4, <2>5 DEF TreeInv
<1>13. CASE ~AtBound
  <2>1. Discover(next, cap)
    BY <1>10, <1>13 DEF GoOn
  <2>2. queue[1].depth < hops
    BY <1>3, <1>5, <1>6, <1>13 DEF AtBound
  <2>3. result' = [i \in DOMAIN result |->
                     IF result[i].node = queue[1].node THEN TreeRow(queue[1], next) ELSE result[i]]
                  \o [i \in DOMAIN new |-> TreeRow(Row(new[i], queue[1].depth + 1), <<>>)]
    BY <1>5, <1>13 DEF TreeStep
  <2> HIDE DEF next
  <2>4. Expanded(queue, seen, new, queue', seen')
    BY <1>1, <1>3, <1>4, <1>8, <2>1, Discovered
  <2>5. /\ new \in Seq(Nodes) /\ \A i, j \in 1..Len(new) : new[i] = new[j] => i = j
        /\ \A m \in ToSet(new) : m \notin DOMAIN seen
    BY <1>3, <1>4, <1>8, TakenFacts
  <2>6. /\ result \in Seq(TreeRowSet)
        /\ \A i \in 1..Len(result) : result[i].node = queue[1].node =>
                                       result[i].depth = queue[1].depth
    BY <1>2, <1>6 DEF TreeRows
  <2> HIDE DEF new
  <2>7. Placed(queue, result, next, new, result')
    BY <1>1, <1>4, <1>8, <2>3, <2>5, <2>6, TreePlaced
  <2>8. TreeRows(graph, dir, hops, queue', seen', result')
    <3>1. ToSet(next) = {m \in Nodes \ {queue[1].node} : EdgeBetween(graph, queue[1].node, m, dir)}
      BY <1>6, <1>8
    <3>2. queue[1].node \in DOMAIN seen /\ seen[queue[1].node] = queue[1].depth
      BY <1>6
    <3> HIDE DEF dir, hops, h
    <3> QED
      BY <1>1, <1>2, <1>3, <1>4, <2>2, <2>4, <2>5, <2>7, <3>1, <3>2, TreeRowsStep
  <2> QED
    BY <1>1, <1>11, <2>8 DEF TreeInv
<1> QED
  BY <1>12, <1>13

\* call_tree is complete when its queue is empty.
LEMMA TreeDone ==
    ASSUME Given, TreeInv, Runs("tree"), WalkDone
    PROVE  TreeSpans'
<1> DEFINE a == query.start
           dir == query.dir
           hops == query.hops
           D == Distances(graph, a, dir, hops)
<1>1. queue = <<>> /\ graph' = graph /\ query' = query /\ result' = result
  BY DEF WalkDone, Done
<1>2. query.kind = "tree" /\ Way(query) = dir /\ Hops(query) = hops /\ a \in Nodes
  BY DEF Runs, Way, Hops, Given, Immediate
<1>3. Marking /\ TreeRows(graph, dir, hops, <<>>, seen, result)
  BY <1>1, <1>2 DEF TreeInv
<1>4. Cardinality(DOMAIN seen) < Budget(query)
  BY <1>2, <1>3, BudgetToSpare
<1>5. hops \in Nat
  BY QueryFields DEF QueryTypes
<1>6. Marked(graph, a, dir, hops, Budget(query), <<>>, seen)
  BY <1>1, <1>2, <1>3 DEF Marking
<1>7. \A r : r \in D <=> \E n \in DOMAIN seen : r = Row(n, seen[n])
  <2>1. /\ a \in Nodes /\ hops \in Nat /\ Cardinality(DOMAIN seen) < Budget(query)
        /\ Marked(graph, a, dir, hops, Budget(query), <<>>, seen)
    BY <1>2, <1>4, <1>5, <1>6
  <2> HIDE DEF a, dir, hops
  <2> QED
    BY ONLY <2>1, MarkedDistances DEF D
<1>8. \A n \in DOMAIN seen : seen[n] \in Nat /\ seen[n] <= hops
  BY <1>6 DEF Marked
<1> HIDE DEF a, dir, hops, D
<1>9. /\ result \in Seq(TreeRowSet) /\ DOMAIN result = 1..Len(result)
      /\ \A i \in 1..Len(result) : result[i].node \in DOMAIN seen
                                     /\ result[i].depth = seen[result[i].node]
      /\ \A m \in DOMAIN seen : \E i \in 1..Len(result) : result[i].node = m
      /\ \A i, j \in 1..Len(result) : result[i].node = result[j].node => i = j
  BY <1>3 DEF TreeRows
<1>10. {Row(result[i].node, result[i].depth) : i \in DOMAIN result} = D
  <2>1. ASSUME NEW i \in DOMAIN result PROVE Row(result[i].node, result[i].depth) \in D
    BY <1>7, <1>9
  <2>2. ASSUME NEW r \in D PROVE \E i \in DOMAIN result : r = Row(result[i].node, result[i].depth)
    <3>1. PICK n \in DOMAIN seen : r = Row(n, seen[n])
      BY <1>7
    <3>2. PICK i \in 1..Len(result) : result[i].node = n
      BY <1>9
    <3> QED
      BY <1>9, <3>1, <3>2
  <2> QED
    BY <2>1, <2>2
<1>11. ASSUME NEW i \in DOMAIN result
       PROVE  ToSet(result[i].children) =
                IF result[i].depth = hops THEN {}
                ELSE {m \in Nodes \ {result[i].node} : EdgeBetween(graph, result[i].node, m, dir)}
  <2>1. i \in 1..Len(result) /\ result[i].depth \in Nat /\ result[i].depth <= hops
    BY <1>8, <1>9
  <2>2. ~Queued(<<>>, result[i].node)
    BY DEF Queued
  <2>3. CASE result[i].depth = hops
    BY <1>3, <2>1, <2>3 DEF TreeRows
  <2>4. CASE result[i].depth # hops
    <3>1. result[i].depth < hops
      BY <1>5, <2>1, <2>4
    <3> QED
      BY <1>3, <2>1, <2>2, <2>4, <3>1 DEF TreeRows
  <2> QED
    BY <2>3, <2>4
<1>12. \A i, j \in DOMAIN result : i # j => result[i].node # result[j].node
  BY <1>9
<1> QED
  BY ONLY <1>1, <1>10, <1>11, <1>12 DEF TreeSpans, D, a, dir, hops

\* call_tree before its first step, and when it needs none.
LEMMA TreeInit == Init => TreeInv /\ TreeSpans
<1> SUFFICES ASSUME Init PROVE TreeInv /\ TreeSpans
  OBVIOUS
<1>1. Given /\ QueryTypes
  BY GivenInit, QueryFields
<1>2. ASSUME Runs("tree") PROVE TreeInv
  <2> DEFINE a == query.start
             row == TreeRow(Row(a, 0), <<>>)
             r == <<row>>
  <2>1. Marking
    BY <1>2, MarkingInit DEF Runs
  <2>2. a \in Nodes /\ seen = [m \in {a} \cap Nodes |-> 0] /\ queue = <<Row(a, 0)>> /\ result = r
    BY <1>2 DEF Init, Runs, Immediate
  <2>3. DOMAIN seen = {a} /\ seen[a] = 0 /\ Queued(queue, a)
    BY <2>2 DEF Queued, Row
  <2>4. row.node = a /\ row.depth = 0 /\ row.children = <<>> /\ row \in TreeRowSet
    BY <2>2 DEF Row, TreeRow, TreeRowSet
  <2> HIDE DEF row
  <2>5. r \in Seq(TreeRowSet) /\ Len(r) = 1 /\ r[1] = row /\ \A i \in 1..Len(r) : i = 1
    BY <2>4
  <2> HIDE DEF r
  <2>6. ToSet(<<>>) = {}
    BY DEF ToSet
  <2>7. TreeRows(graph, Way(query), Hops(query), queue, seen, r)
    BY <2>3, <2>4, <2>5, <2>6 DEF TreeRows
  <2> QED
    BY <2>1, <2>2, <2>7 DEF TreeInv
<1>3. ASSUME Answers("tree") PROVE TreeSpans
  <2>1. Immediate(query) /\ query.kind = "tree"
    BY <1>3 DEF Init, Answers
  <2>2. query.start \notin Nodes /\ result = <<>>
    BY <2>1 DEF Init, Immediate, Answer, Empty
  <2>3. DOMAIN result = {} /\ Distances(graph, query.start, query.dir, query.hops) = {}
    BY <2>2 DEF Distances
  <2> QED
    BY <2>3 DEF TreeSpans
<1>4. TreeInv
  BY <1>2 DEF TreeInv
<1>5. TreeSpans
  BY <1>3 DEF TreeSpans
<1> QED
  BY <1>4, <1>5

-----------------------------------------------------------------------------
(* trace_path.                                                             *)

\* Where the entries of the old queue are in the new one, and where what was added.
LEMMA RequeuedAt ==
    ASSUME NEW q \in Seq(QueueEntry), q # <<>>, NEW new \in Seq(Nodes), NEW q2,
           Requeued(q, new, q2)
    PROVE  /\ \A i \in 1..Len(q) : i = 1 \/ \E k \in 1..Len(q2) : q2[k] = q[i]
           /\ \A i \in 1..Len(new) :
                \E k \in 1..Len(q2) : q2[k].node = new[i] /\ q2[k].depth = q[1].depth + 1
<1> DEFINE l == Len(q) - 1
<1>1. l \in Nat /\ Len(new) \in Nat /\ Len(q2) = l + Len(new)
  BY DEF Requeued
<1>2. ASSUME NEW i \in 1..Len(q), i # 1 PROVE \E k \in 1..Len(q2) : q2[k] = q[i]
  <2>1. i - 1 \in 1..l /\ i - 1 \in 1..Len(q2) /\ (i - 1) + 1 = i
    BY <1>1, <1>2
  <2>2. q2[i - 1] = q[(i - 1) + 1]
    BY <2>1 DEF Requeued
  <2> QED
    BY <2>1, <2>2
<1>3. ASSUME NEW i \in 1..Len(new)
      PROVE  \E k \in 1..Len(q2) : q2[k].node = new[i] /\ q2[k].depth = q[1].depth + 1
  <2>1. l + i \in 1..Len(q2)
    BY <1>1
  <2>2. q2[l + i] = Row(new[i], q[1].depth + 1)
    BY DEF Requeued
  <2>3. q2[l + i].node = new[i] /\ q2[l + i].depth = q[1].depth + 1
    BY <2>2 DEF Row
  <2> QED
    BY <2>1, <2>3
<1> QED
  BY <1>2, <1>3

\* Every node nearer than the head of the queue is marked.
LEMMA TracedBall ==
    ASSUME NEW g, NEW a, NEW dir, NEW hops \in Nat, NEW q, NEW s, NEW r,
           Traced(g, a, dir, hops, q, s, r), q # <<>>
    PROVE  \A k \in 0..(q[1].depth - 1) : Ball(g, a, dir, Nodes, k) \subseteq DOMAIN s
<1> DEFINE d == q[1].depth
<1>1. q \in Seq(QueueEntry) /\ Layered(q)
  BY DEF Traced
<1>2. /\ 1 \in 1..Len(q) /\ d \in Nat
      /\ \A i \in 1..Len(q) : q[i].depth \in Nat /\ d <= q[i].depth
  BY <1>1, LayeredHead
<1>3. d <= hops
  BY <1>2 DEF Traced
<1> HIDE DEF d
<1>4. CASE d = 0
  BY <1>4 DEF d
<1>5. CASE d # 0
  <2>1. d - 1 \in Nat
    BY <1>2, <1>5
  <2>2. a \in DOMAIN s
    <3>1. ASSUME NEW i \in 1..Len(q), q[i] = Row(a, 0) PROVE FALSE
      <4>1. q[i].depth = 0
        BY <3>1 DEF Row
      <4> QED
        BY <1>2, <1>5, <4>1
    <3> QED
      BY <3>1 DEF Traced
  <2>3. ASSUME NEW k \in 0..((d - 1) - 1), NEW c \in DOMAIN s \cap Ball(g, a, dir, Nodes, k),
               NEW m \in Nodes, EdgeBetween(g, c, m, dir)
        PROVE  m \in DOMAIN s
    <3>1. k \in Nat /\ k + 1 < d
      BY <1>2, <2>1
    <3>2. s[c] \in Nat /\ c \in Sphere(g, a, dir, s[c])
      BY DEF Traced
    <3>3. s[c] <= k
      BY <3>1, <3>2, SphereInBall
    <3>4. s[c] < hops
      BY <1>2, <1>3, <3>1, <3>2, <3>3
    <3>5. m \in DOMAIN s \/ \E i \in 1..Len(q) : q[i].node = m /\ q[i].depth <= s[c] + 1
      BY <2>3, <3>4 DEF Traced
    <3>6. ASSUME NEW i \in 1..Len(q), q[i].depth <= s[c] + 1 PROVE FALSE
      BY <1>2, <3>1, <3>2, <3>3, <3>6
    <3> QED
      BY <3>5, <3>6
  <2>4. \A k \in 0..(d - 1) : Ball(g, a, dir, Nodes, k) \subseteq DOMAIN s
    <3> DEFINE K == DOMAIN s
               e == d - 1
    <3>1. e \in Nat /\ a \in K
      BY <2>1, <2>2
    <3>2. \A k \in 0..(e - 1) : \A c \in K \cap Ball(g, a, dir, Nodes, k) : \A m \in Nodes :
             EdgeBetween(g, c, m, dir) => m \in K
      BY <2>3
    <3> HIDE DEF K, e
    <3>3. \A k \in 0..e : Ball(g, a, dir, Nodes, k) \subseteq K
      BY <3>1, <3>2, BallWithin
    <3> QED
      BY <3>3 DEF K, e
  <2> QED
    BY <2>4 DEF d
<1> QED
  BY <1>4, <1>5

\* With the queue empty every node within the bound is marked.
LEMMA TracedEnd ==
    ASSUME NEW g, NEW a, NEW dir, NEW hops \in Nat, NEW s, NEW r,
           Traced(g, a, dir, hops, <<>>, s, r)
    PROVE  DOMAIN s = Ball(g, a, dir, Nodes, hops)
<1> DEFINE K == DOMAIN s
<1>1. /\ \A m \in K : s[m] \in Nat /\ s[m] <= hops /\ m \in Sphere(g, a, dir, s[m])
      /\ a \in K
      /\ \A n \in K : s[n] < hops => \A m \in Nodes : EdgeBetween(g, n, m, dir) => m \in K
  BY DEF Traced
<1> HIDE DEF K
<1>2. ASSUME NEW k \in 0..(hops - 1), NEW c \in K \cap Ball(g, a, dir, Nodes, k),
             NEW m \in Nodes, EdgeBetween(g, c, m, dir)
      PROVE  m \in K
  <2>1. k \in Nat /\ k < hops /\ s[c] \in Nat /\ c \in Sphere(g, a, dir, s[c])
    BY <1>1
  <2>2. s[c] <= k
    BY <2>1, SphereInBall
  <2>3. s[c] < hops
    BY <2>1, <2>2
  <2> QED
    BY <1>1, <1>2, <2>3
<1>3. \A k \in 0..hops : Ball(g, a, dir, Nodes, k) \subseteq K
  BY <1>1, <1>2, BallWithin
<1>4. ASSUME NEW m \in K PROVE m \in Ball(g, a, dir, Nodes, hops)
  BY <1>1, SphereInBall
<1>5. hops \in 0..hops
  OBVIOUS
<1>6. K = Ball(g, a, dir, Nodes, hops)
  BY <1>3, <1>4, <1>5
<1> QED
  BY <1>6 DEF K

\* An entry whose node is marked already is dropped.
LEMMA TracedSkip ==
    ASSUME NEW g, NEW a, NEW dir, NEW hops \in Nat, NEW q, NEW s, NEW r,
           Traced(g, a, dir, hops, q, s, r), q # <<>>, q[1].node \in DOMAIN s,
           NEW q2, Requeued(q, <<>>, q2)
    PROVE  Traced(g, a, dir, hops, q2, s, r)
<1> DEFINE none == <<>>
<1>1. q \in Seq(QueueEntry) /\ Layered(q) /\ q # <<>>
  BY DEF Traced
<1>9. none \in Seq(Nodes) /\ Requeued(q, none, q2)
  OBVIOUS
<1>10. Len(none) = 0
  OBVIOUS
<1> HIDE DEF none
<1>2. q2 \in Seq(QueueEntry) /\ Layered(q2)
  <2>1. q2 \in Seq(QueueEntry)
    BY DEF Requeued
  <2>2. Layered(q2)
    BY ONLY <1>1, <1>9, RequeuedLayered
  <2> QED
    BY <2>1, <2>2
<1>3. ASSUME NEW k \in 1..Len(q2) PROVE \E i \in 1..Len(q) : q2[k] = q[i]
  <2>1. \/ k \in 1..(Len(q) - 1) /\ q2[k] = q[k + 1] /\ k + 1 \in 1..Len(q)
        \/ /\ k > Len(q) - 1 /\ k - (Len(q) - 1) \in 1..Len(none)
           /\ q2[k].node = none[k - (Len(q) - 1)] /\ q2[k].depth = q[1].depth + 1
    BY ONLY <1>1, <1>9, RequeuedEntry, k \in 1..Len(q2)
  <2>2. 1..Len(none) = {}
    BY <1>10
  <2> QED
    BY <2>1, <2>2
<1>4. \A i \in 1..Len(q) : i = 1 \/ \E k \in 1..Len(q2) : q2[k] = q[i]
  BY ONLY <1>1, <1>9, RequeuedAt
<1>5. a \in DOMAIN s \/ \E i \in 1..Len(q2) : q2[i] = Row(a, 0)
  <2>1. CASE a \notin DOMAIN s
    <3>1. PICK i \in 1..Len(q) : q[i] = Row(a, 0)
      BY <2>1 DEF Traced
    <3>2. q[i].node = a
      BY <3>1 DEF Row
    <3>3. i # 1
      BY <2>1, <3>2
    <3> QED
      BY <1>4, <3>1, <3>3
  <2> QED
    BY <2>1
<1>6. ASSUME NEW n \in DOMAIN s, s[n] < hops, NEW m \in Nodes, EdgeBetween(g, n, m, dir),
             m \notin DOMAIN s
      PROVE  \E i \in 1..Len(q2) : q2[i].node = m /\ q2[i].depth <= s[n] + 1
  <2>1. PICK i \in 1..Len(q) : q[i].node = m /\ q[i].depth <= s[n] + 1
    BY <1>6 DEF Traced
  <2>2. i # 1
    BY <1>6, <2>1
  <2>3. PICK k \in 1..Len(q2) : q2[k] = q[i]
    BY <1>4, <2>2
  <2> QED
    BY <2>1, <2>3
<1>7. \A i \in 1..Len(q2) : q2[i].depth <= hops /\ q2[i].node \in Ball(g, a, dir, Nodes, q2[i].depth)
  BY <1>3 DEF Traced
<1>8. \A i \in 1..Len(r), k \in 1..Len(q2) : r[i].depth <= q2[k].depth
  BY <1>3 DEF Traced
<1> QED
  BY <1>2, <1>5, <1>6, <1>7, <1>8 DEF Traced

(* The head of the queue is marked and listed, and its neighbours that are *)
(* not marked are queued.                                                  *)
ListedHead(g, dir, hops, q, s, r, new, q2, s2, r2) ==
    /\ q[1].node \notin DOMAIN s /\ new \in Seq(Nodes) /\ Requeued(q, new, q2)
    /\ \A m \in ToSet(new) : EdgeBetween(g, q[1].node, m, dir) /\ q[1].depth < hops
    /\ q[1].depth < hops => \A m \in Nodes : EdgeBetween(g, q[1].node, m, dir) =>
         m \in DOMAIN s \/ m = q[1].node \/ m \in ToSet(new)
    /\ DOMAIN s2 = DOMAIN s \cup {q[1].node} /\ s2[q[1].node] = q[1].depth
    /\ \A m \in DOMAIN s : s2[m] = s[m]
    /\ r2 \in Seq(QueueEntry) /\ Len(r2) = Len(r) + 1 /\ r2[Len(r) + 1] = q[1]
    /\ \A i \in 1..Len(r) : r2[i] = r[i]

\* Marking the head of the queue: it is at its distance.
LEMMA TracedMark ==
    ASSUME NEW g, NEW a, NEW dir, NEW hops \in Nat, NEW q, NEW s, NEW r,
           Traced(g, a, dir, hops, q, s, r), q # <<>>, NEW new, NEW q2, NEW s2, NEW r2,
           ListedHead(g, dir, hops, q, s, r, new, q2, s2, r2)
    PROVE  Traced(g, a, dir, hops, q2, s2, r2)
<1>0. /\ q[1].node \notin DOMAIN s /\ new \in Seq(Nodes) /\ Requeued(q, new, q2)
      /\ \A m \in ToSet(new) : EdgeBetween(g, q[1].node, m, dir) /\ q[1].depth < hops
      /\ q[1].depth < hops => \A m \in Nodes : EdgeBetween(g, q[1].node, m, dir) =>
           m \in DOMAIN s \/ m = q[1].node \/ m \in ToSet(new)
      /\ DOMAIN s2 = DOMAIN s \cup {q[1].node} /\ s2[q[1].node] = q[1].depth
      /\ \A m \in DOMAIN s : s2[m] = s[m]
      /\ r2 \in Seq(QueueEntry) /\ Len(r2) = Len(r) + 1 /\ r2[Len(r) + 1] = q[1]
      /\ \A i \in 1..Len(r) : r2[i] = r[i]
  BY DEF ListedHead
<1> USE <1>0
<1> DEFINE h == q[1].node
           d == q[1].depth
<1>1. q \in Seq(QueueEntry) /\ Layered(q) /\ r \in Seq(QueueEntry) /\ Len(r) \in Nat
  BY DEF Traced
<1>2. /\ 1 \in 1..Len(q) /\ h \in Nodes /\ d \in Nat
      /\ \A i \in 1..Len(q) : q[i].depth \in Nat /\ d <= q[i].depth /\ q[i].depth <= d + 1
  BY <1>1, LayeredHead
<1>3. d <= hops /\ h \in Ball(g, a, dir, Nodes, d)
  BY <1>2 DEF Traced
<1>4. h \in Sphere(g, a, dir, d)
  <2>1. \A k \in 0..(d - 1) : Ball(g, a, dir, Nodes, k) \subseteq DOMAIN s
    BY TracedBall
  <2>2. \A k \in 0..(d - 1) : h \notin Ball(g, a, dir, Nodes, k)
    BY <2>1
  <2> HIDE DEF h, d
  <2> QED
    BY <1>2, <1>3, <2>2, SphereIs
<1>5. h \notin DOMAIN s /\ DOMAIN s2 = DOMAIN s \cup {h} /\ s2[h] = d
  OBVIOUS
<1>6. /\ \A i \in 1..Len(q) : i = 1 \/ \E k \in 1..Len(q2) : q2[k] = q[i]
      /\ \A i \in 1..Len(new) :
            \E k \in 1..Len(q2) : q2[k].node = new[i] /\ q2[k].depth = d + 1
  BY <1>1, RequeuedAt
<1>7. ASSUME NEW k \in 1..Len(q2)
      PROVE  \/ \E i \in 1..Len(q) : q2[k] = q[i]
             \/ q2[k].node \in ToSet(new) /\ q2[k].depth = d + 1
  <2>1. \/ k \in 1..(Len(q) - 1) /\ q2[k] = q[k + 1] /\ k + 1 \in 1..Len(q)
        \/ /\ k > Len(q) - 1 /\ k - (Len(q) - 1) \in 1..Len(new)
           /\ q2[k].node = new[k - (Len(q) - 1)] /\ q2[k].depth = q[1].depth + 1
    BY <1>1, RequeuedEntry
  <2>2. \A x : x \in ToSet(new) <=> \E i \in 1..Len(new) : new[i] = x
    BY ToSetOfSeq
  <2> QED
    BY <2>1, <2>2
<1>8. q2 \in Seq(QueueEntry) /\ Layered(q2)
  <2>1. q2 \in Seq(QueueEntry)
    BY DEF Requeued
  <2>2. Layered(q2)
    BY <1>1, RequeuedLayered
  <2> QED
    BY <2>1, <2>2
<1>9. /\ \A m \in ToSet(new) : m \in Nodes /\ EdgeBetween(g, h, m, dir) /\ d < hops
      /\ d < hops => \A m \in Nodes : EdgeBetween(g, h, m, dir) =>
           m \in DOMAIN s \/ m = h \/ \E i \in 1..Len(new) : new[i] = m
  BY ToSetOfSeq
<1> HIDE DEF h
<1>10. ASSUME NEW m \in DOMAIN s2
       PROVE  m \in Nodes /\ s2[m] \in Nat /\ s2[m] <= hops /\ m \in Sphere(g, a, dir, s2[m])
  <2>1. CASE m = h
    BY <1>2, <1>3, <1>4, <1>5, <2>1
  <2>2. CASE m \in DOMAIN s
    BY <2>2 DEF Traced
  <2> QED
    BY <1>5, <2>1, <2>2
<1>11. ASSUME NEW k \in 1..Len(q2)
       PROVE  q2[k].depth <= hops /\ q2[k].node \in Ball(g, a, dir, Nodes, q2[k].depth)
                /\ d <= q2[k].depth
  <2>1. CASE \E i \in 1..Len(q) : q2[k] = q[i]
    BY <1>2, <2>1 DEF Traced
  <2>2. CASE q2[k].node \in ToSet(new) /\ q2[k].depth = d + 1
    <3>1. q2[k].node \in Ball(g, a, dir, Nodes, d + 1)
      <4> HIDE DEF d
      <4> QED
        BY <1>2, <1>3, <1>9, <2>2, BallOneMore
    <3>2. d + 1 <= hops /\ d <= d + 1
      BY <1>2, <1>9, <2>2
    <3> QED
      BY <2>2, <3>1, <3>2
  <2> QED
    BY <1>7, <2>1, <2>2
<1>12. a \in DOMAIN s2 \/ \E i \in 1..Len(q2) : q2[i] = Row(a, 0)
  <2>1. CASE a \notin DOMAIN s2
    <3>1. a \notin DOMAIN s /\ a # h
      BY <1>5, <2>1
    <3>2. PICK i \in 1..Len(q) : q[i] = Row(a, 0)
      BY <3>1 DEF Traced
    <3>3. q[i].node = a
      BY <3>2 DEF Row
    <3>4. i # 1
      BY <3>1, <3>3 DEF h
    <3> QED
      BY <1>6, <3>2, <3>4
  <2> QED
    BY <2>1
<1>13. ASSUME NEW n \in DOMAIN s2, s2[n] < hops, NEW m \in Nodes, EdgeBetween(g, n, m, dir),
              m \notin DOMAIN s2
       PROVE  \E i \in 1..Len(q2) : q2[i].node = m /\ q2[i].depth <= s2[n] + 1
  <2>1. m \notin DOMAIN s /\ m # h
    BY <1>5, <1>13
  <2>2. CASE n \in DOMAIN s
    <3>1. s2[n] = s[n] /\ s[n] < hops
      BY <1>13, <2>2
    <3>2. PICK i \in 1..Len(q) : q[i].node = m /\ q[i].depth <= s[n] + 1
      BY <1>13, <2>1, <2>2, <3>1 DEF Traced
    <3>3. i # 1
      BY <2>1, <3>2 DEF h
    <3>4. PICK k \in 1..Len(q2) : q2[k] = q[i]
      BY <1>6, <3>3
    <3> QED
      BY <3>1, <3>2, <3>4
  <2>3. CASE n = h
    <3>1. d < hops /\ s2[n] = d
      BY <1>5, <1>13, <2>3
    <3>2. PICK i \in 1..Len(new) : new[i] = m
      BY <1>9, <1>13, <2>1, <2>3, <3>1
    <3>3. PICK k \in 1..Len(q2) : q2[k].node = m /\ q2[k].depth = d + 1
      BY <1>6, <3>2
    <3>4. d + 1 <= d + 1
      BY <1>2
    <3> QED
      BY <3>1, <3>3, <3>4
  <2> QED
    BY <1>5, <2>2, <2>3
<1>14. ASSUME NEW i \in 1..Len(r2)
       PROVE  \/ i \in 1..Len(r) /\ r2[i] = r[i]
              \/ i = Len(r) + 1 /\ r2[i] = q[1]
  <2>1. i \in 1..Len(r) \/ i = Len(r) + 1
    BY <1>1
  <2> QED
    BY <2>1
<1>15. \A i \in 1..Len(r) : r[i].node \in DOMAIN s /\ r[i].depth = s[r[i].node] /\ r[i].depth <= d
  BY <1>2 DEF Traced
<1>21. \A i, j \in 1..Len(r) : i < j => r[i].node # r[j].node /\ r[i].depth <= r[j].depth
  BY DEF Traced
<1>16. \A i \in 1..Len(r2) : r2[i].node \in DOMAIN s2 /\ r2[i].depth = s2[r2[i].node]
                                /\ r2[i].depth <= d
  <2> SUFFICES ASSUME NEW i \in 1..Len(r2)
               PROVE  r2[i].node \in DOMAIN s2 /\ r2[i].depth = s2[r2[i].node]
                        /\ r2[i].depth <= d
    OBVIOUS
  <2>1. CASE i \in 1..Len(r) /\ r2[i] = r[i]
    BY <1>5, <1>15, <2>1
  <2>2. CASE i = Len(r) + 1 /\ r2[i] = q[1]
    BY <1>2, <1>5, <2>2 DEF h
  <2> QED
    BY <1>14, <2>1, <2>2
<1>17. ASSUME NEW m \in DOMAIN s2 PROVE \E i \in 1..Len(r2) : r2[i].node = m
  <2>1. CASE m \in DOMAIN s
    <3>1. PICK i \in 1..Len(r) : r[i].node = m
      BY <2>1 DEF Traced
    <3>2. i \in 1..Len(r2) /\ r2[i] = r[i]
      BY <1>1
    <3> QED
      BY <3>1, <3>2
  <2>2. CASE m = h
    <3>1. Len(r) + 1 \in 1..Len(r2)
      BY <1>1
    <3> QED
      BY <2>2, <3>1 DEF h
  <2> QED
    BY <1>5, <2>1, <2>2
<1>18. ASSUME NEW i \in 1..Len(r2), NEW j \in 1..Len(r2), i < j
       PROVE  r2[i].node # r2[j].node /\ r2[i].depth <= r2[j].depth
  <2>1. CASE j \in 1..Len(r)
    <3>1. i \in 1..Len(r)
      BY <1>1, <1>18, <2>1
    <3>2. r2[i] = r[i] /\ r2[j] = r[j]
      BY <2>1, <3>1
    <3> QED
      BY <1>18, <1>21, <2>1, <3>1, <3>2
  <2>2. CASE j = Len(r) + 1 /\ r2[j] = q[1]
    <3>1. i \in 1..Len(r)
      BY <1>1, <1>18, <2>2
    <3>2. r2[i] = r[i]
      BY <3>1
    <3>3. r[i].node \in DOMAIN s /\ r[i].depth <= d
      BY <1>15, <3>1
    <3> QED
      BY <1>5, <2>2, <3>2, <3>3 DEF h
  <2> QED
    BY <1>14, <2>1, <2>2
<1>19. ASSUME NEW i \in 1..Len(r2), NEW k \in 1..Len(q2) PROVE r2[i].depth <= q2[k].depth
  <2>1. r2[i].depth <= d /\ d <= q2[k].depth
    BY <1>11, <1>16
  <2>2. r2[i].depth \in Nat /\ q2[k].depth \in Nat
    BY <1>8, EntryFields
  <2> QED
    BY <1>2, <2>1, <2>2
<1>20. DOMAIN s2 \subseteq Nodes
  BY <1>10
<1> HIDE DEF d
<1> QED
  BY <1>8, <1>10, <1>11, <1>12, <1>13, <1>16, <1>17, <1>18, <1>19, <1>20 DEF Traced

\* A step of trace_path.
LEMMA TraceKept ==
    ASSUME Given, TraceInv, TraceStep
    PROVE  TraceInv'
<1> DEFINE a == query.start
           dir == Way(query)
           hops == Hops(query)
           n == Head(queue).node
           d == Head(queue).depth
           marked == DOMAIN seen \cup {n}
           next == Keep(Neighbourhood, Nodes \ marked)
           more == [i \in DOMAIN next |-> Row(next[i], d + 1)]
<1>1. Runs("trace") /\ queue # <<>> /\ graph' = graph /\ query' = query
  BY DEF TraceStep
<1>2. Traced(graph, a, dir, hops, queue, seen, result)
  BY <1>1 DEF TraceInv
<1>3. hops \in Nat
  BY QueryFields DEF QueryTypes
<1>4. queue \in Seq(QueueEntry) /\ result \in Seq(QueueEntry)
  BY <1>2 DEF Traced
<1>5. Head(queue) = queue[1] /\ 1 \in 1..Len(queue)
  BY <1>1, <1>4
<1>6. n = queue[1].node /\ d = queue[1].depth /\ d \in Nat /\ queue[1] \in QueueEntry
  BY <1>4, <1>5, EntryFields
<1>7. Requeued(queue, <<>>, Tail(queue))
  <2> DEFINE tail == Tail(queue)
  <2>1. /\ tail \in Seq(QueueEntry) /\ Len(tail) = Len(queue) - 1
        /\ \A i \in 1..(Len(queue) - 1) : tail[i] = queue[i + 1]
    BY <1>1, <1>4, HeadTailProperties
  <2> HIDE DEF tail
  <2>2. Len(<<>>) = 0 /\ 1..0 = {}
    OBVIOUS
  <2>3. Len(queue) - 1 + 0 = Len(queue) - 1
    BY <1>4
  <2>4. Requeued(queue, <<>>, tail)
    BY <2>1, <2>2, <2>3 DEF Requeued
  <2> QED
    BY <2>4 DEF tail
<1>8. CASE n \in DOMAIN seen
  <2>1. queue' = Tail(queue) /\ seen' = seen /\ result' = result
    BY <1>8 DEF TraceStep
  <2>2. queue[1].node \in DOMAIN seen
    BY <1>6, <1>8
  <2>3. Requeued(queue, <<>>, queue')
    BY <1>7, <2>1
  <2>4. Traced(graph, a, dir, hops, queue', seen, result)
    <3> HIDE DEF a, dir, hops
    <3> QED
      BY ONLY <1>1, <1>2, <1>3, <2>2, <2>3, TracedSkip
  <2> QED
    BY <1>1, <2>1, <2>4 DEF TraceInv
<1>9. CASE n \notin DOMAIN seen
  <2>1. /\ seen' = [m \in marked |-> IF m = n THEN d ELSE seen[m]]
        /\ result' = Append(result, Head(queue))
        /\ queue' = IF AtBound THEN Tail(queue) ELSE Tail(queue) \o more
    BY <1>9 DEF TraceStep, PushBack
  <2>2. AllNext(graph, n, dir, Neighbourhood)
    BY NeighbourhoodIs
  <2>3. /\ next \in Seq(Nodes)
        /\ \A m : m \in ToSet(next) <=> m \in Nodes /\ EdgeBetween(graph, n, m, dir) /\ m \notin marked
    <3> DEFINE b == Neighbourhood
               K == Nodes \ marked
    <3>1. b \in Seq(Nodes)
      BY <2>2 DEF AllNext
    <3> HIDE DEF b, K
    <3>2. Keep(b, K) \in Seq(Nodes \cap K) /\ ToSet(Keep(b, K)) = ToSet(b) \cap K
      BY <3>1, KeepValues
    <3>3. Nodes \cap K \subseteq Nodes
      OBVIOUS
    <3>4. Keep(b, K) \in Seq(Nodes)
      BY <3>2, <3>3, SeqOfPart
    <3>5. \A m : m \in ToSet(b) \cap K <=>
                   m \in Nodes /\ EdgeBetween(graph, n, m, dir) /\ m \notin marked
      BY <2>2 DEF AllNext, b, K
    <3> QED
      BY <3>2, <3>4, <3>5 DEF b, K
  <2> HIDE DEF next
  <2>4. PICK new \in Seq(Nodes) : /\ Requeued(queue, new, queue')
                                  /\ AtBound => new = <<>>
                                  /\ ~AtBound => new = next
    <3>1. CASE AtBound
      <4>1. Requeued(queue, <<>>, queue') /\ <<>> \in Seq(Nodes)
        BY <1>7, <2>1, <3>1
      <4> QED
        BY <3>1, <4>1
    <3>2. CASE ~AtBound
      <4>1. Requeued(queue, next, Tail(queue) \o more)
        BY <1>1, <1>4, <2>3, RowsQueued
      <4>2. Requeued(queue, next, queue')
        BY <2>1, <3>2, <4>1
      <4> QED
        BY <2>3, <3>2, <4>2
    <3> QED
      BY <3>1, <3>2
  <2>5. AtBound <=> ~(d < hops)
    BY <1>3, <1>6 DEF AtBound
  <2>6. ToSet(<<>>) = {}
    BY DEF ToSet
  <2>7. \A m \in ToSet(new) : EdgeBetween(graph, n, m, dir) /\ d < hops
    BY <2>3, <2>4, <2>5, <2>6
  <2>8. d < hops => \A m \in Nodes : EdgeBetween(graph, n, m, dir) =>
           m \in DOMAIN seen \/ m = n \/ m \in ToSet(new)
    BY <2>3, <2>4, <2>5
  <2>9. /\ DOMAIN seen' = DOMAIN seen \cup {n} /\ seen'[n] = d
        /\ \A m \in DOMAIN seen : seen'[m] = seen[m]
    BY <1>9, <2>1
  <2>10. /\ result' \in Seq(QueueEntry) /\ Len(result') = Len(result) + 1
         /\ result'[Len(result) + 1] = queue[1]
         /\ \A i \in 1..Len(result) : result'[i] = result[i]
    <3>1. result' = Append(result, queue[1])
      BY <1>5, <2>1
    <3> QED
      BY <1>4, <1>6, <3>1, AppendProperties
  <2>11. Traced(graph, a, dir, hops, queue', seen', result')
    <3> HIDE DEF a, dir, hops
    <3>1. queue # <<>> /\ queue[1].node \notin DOMAIN seen
      BY <1>1, <1>6, <1>9
    <3>2. \A m \in ToSet(new) : EdgeBetween(graph, queue[1].node, m, dir) /\ queue[1].depth < hops
      BY <1>6, <2>7
    <3>3. queue[1].depth < hops => \A m \in Nodes : EdgeBetween(graph, queue[1].node, m, dir) =>
             m \in DOMAIN seen \/ m = queue[1].node \/ m \in ToSet(new)
      BY <1>6, <2>8
    <3>4. /\ DOMAIN seen' = DOMAIN seen \cup {queue[1].node}
          /\ seen'[queue[1].node] = queue[1].depth
          /\ \A m \in DOMAIN seen : seen'[m] = seen[m]
      BY <1>6, <2>9
    <3>5. new \in Seq(Nodes) /\ Requeued(queue, new, queue')
      BY <2>4
    <3>6. ListedHead(graph, dir, hops, queue, seen, result, new, queue', seen', result')
      BY ONLY <2>10, <3>1, <3>2, <3>3, <3>4, <3>5 DEF ListedHead
    <3> QED
      BY ONLY <1>2, <1>3, <3>1, <3>6, TracedMark
  <2> QED
    BY <1>1, <2>11 DEF TraceInv
<1> QED
  BY <1>8, <1>9

\* trace_path is complete when its queue is empty.
LEMMA TraceDone ==
    ASSUME Given, TraceInv, Runs("trace"), WalkDone
    PROVE  TraceBfs'
<1> DEFINE a == query.start
           dir == query.dir
           hops == query.hops
           D == Distances(graph, a, dir, hops)
<1>1. queue = <<>> /\ graph' = graph /\ query' = query /\ result' = result
  BY DEF WalkDone, Done
<1>2. Way(query) = dir /\ Hops(query) = hops /\ a \in Nodes
  BY DEF Runs, Way, Hops, Given, Immediate
<1>3. Traced(graph, a, dir, hops, <<>>, seen, result)
  BY <1>1, <1>2 DEF TraceInv
<1>4. hops \in Nat
  BY QueryFields DEF QueryTypes
<1>5. DOMAIN seen = Ball(graph, a, dir, Nodes, hops)
  <2> HIDE DEF a, dir, hops
  <2> QED
    BY ONLY <1>3, <1>4, TracedEnd
<1>6. /\ result \in Seq(QueueEntry) /\ DOMAIN result = 1..Len(result)
      /\ \A i \in 1..Len(result) : result[i].node \in DOMAIN seen
                                     /\ result[i].depth = seen[result[i].node]
      /\ \A m \in DOMAIN seen : \E i \in 1..Len(result) : result[i].node = m
      /\ \A i, j \in 1..Len(result) : i < j =>
            result[i].node # result[j].node /\ result[i].depth <= result[j].depth
      /\ \A m \in DOMAIN seen : seen[m] \in Nat /\ seen[m] \in 0..hops
                                  /\ m \in Sphere(graph, a, dir, seen[m])
  BY <1>3, <1>4 DEF Traced
<1>7. \A i \in 1..Len(result) : result[i] = Row(result[i].node, result[i].depth)
  BY <1>6, EntryFields
<1>8. \A x : x \in ToSet(result) <=> \E i \in 1..Len(result) : result[i] = x
  BY <1>6, ToSetOfSeq
<1> HIDE DEF a, dir, hops
<1>9. ASSUME NEW x, x \in ToSet(result) PROVE x \in D
  <2>1. PICK i \in 1..Len(result) : result[i] = x
    BY <1>8, <1>9
  <2>2. \E k \in 0..hops : \E n \in Sphere(graph, a, dir, k) : x = Row(n, k)
    <3> DEFINE n == result[i].node
               k == seen[n]
    <3>1. n \in DOMAIN seen /\ result[i].depth = k /\ x = Row(n, result[i].depth)
      BY <1>6, <1>7, <2>1
    <3>2. k \in 0..hops /\ n \in Sphere(graph, a, dir, k)
      BY <1>6, <3>1
    <3> HIDE DEF n, k
    <3> QED
      BY <3>1, <3>2
  <2> QED
    BY <1>2, <1>4, <2>2, DistancesAre
<1>10. ASSUME NEW x, x \in D PROVE x \in ToSet(result)
  <2>1. PICK k \in 0..hops : \E n \in Sphere(graph, a, dir, k) : x = Row(n, k)
    BY <1>2, <1>4, <1>10, DistancesAre
  <2>2. PICK n \in Sphere(graph, a, dir, k) : x = Row(n, k)
    BY <2>1
  <2>3. k \in Nat /\ k <= hops
    BY <1>4
  <2>4. n \in DOMAIN seen
    BY <1>4, <1>5, <2>3, SphereInBall
  <2>5. seen[n] = k
    <3>1. seen[n] \in Nat /\ n \in Sphere(graph, a, dir, seen[n])
      BY <1>6, <2>4
    <3> QED
      BY <2>3, <3>1, SphereIs
  <2>6. PICK i \in 1..Len(result) : result[i].node = n
    BY <1>6, <2>4
  <2>7. result[i] = x
    BY <1>6, <1>7, <2>2, <2>5, <2>6
  <2> QED
    BY <1>8, <2>7
<1>11. ToSet(result) = D
  BY <1>9, <1>10
<1>12. \A i, j \in DOMAIN result : i < j =>
          result[i].node # result[j].node /\ result[i].depth <= result[j].depth
  BY <1>6
<1> QED
  BY ONLY <1>1, <1>11, <1>12 DEF TraceBfs, D, a, dir, hops

\* trace_path before its first step, and when it needs none.
LEMMA TraceInit == Init => TraceInv /\ TraceBfs
<1> SUFFICES ASSUME Init PROVE TraceInv /\ TraceBfs
  OBVIOUS
<1>1. Given /\ QueryTypes
  BY GivenInit, QueryFields
<1>2. ASSUME Runs("trace") PROVE TraceInv
  <2> DEFINE a == query.start
             row == Row(a, 0)
             q == <<row>>
  <2>1. a \in Nodes /\ DOMAIN seen = {} /\ queue = q /\ result = <<>>
    BY <1>2 DEF Init, Runs, Immediate, Empty
  <2>2. row.node = a /\ row.depth = 0 /\ row \in QueueEntry
    BY <2>1 DEF Row, QueueEntry
  <2>3. row = Row(a, 0)
    OBVIOUS
  <2>4. a \in Ball(graph, a, Way(query), Nodes, 0)
    BY BallStep
  <2>5. Hops(query) \in Nat
    BY <1>1 DEF QueryTypes
  <2> HIDE DEF row
  <2>6. q \in Seq(QueueEntry) /\ Len(q) = 1 /\ q[1] = row /\ \A i \in 1..Len(q) : i = 1
    BY <2>2
  <2> HIDE DEF q
  <2> DEFINE r == <<>>
  <2>7. r \in Seq(QueueEntry) /\ 1..Len(r) = {}
    OBVIOUS
  <2> HIDE DEF r
  <2>8. Layered(q)
    BY <2>6 DEF Layered
  <2>9. Traced(graph, a, Way(query), Hops(query), q, seen, r)
    BY <2>1, <2>2, <2>3, <2>4, <2>5, <2>6, <2>7, <2>8 DEF Traced
  <2> QED
    BY <2>1, <2>9 DEF TraceInv, r
<1>3. ASSUME Answers("trace") PROVE TraceBfs
  <2>1. Immediate(query) /\ query.kind = "trace"
    BY <1>3 DEF Init, Answers
  <2>2. query.start \notin Nodes /\ result = <<>>
    BY <2>1 DEF Init, Immediate, Answer, Empty
  <2>3. DOMAIN result = {} /\ ToSet(result) = {}
        /\ Distances(graph, query.start, query.dir, query.hops) = {}
    BY <2>2 DEF Distances, ToSet
  <2> QED
    BY <2>3 DEF TraceBfs
<1>4. TraceInv
  BY <1>2 DEF TraceInv
<1>5. TraceBfs
  BY <1>3 DEF TraceBfs
<1> QED
  BY <1>4, <1>5

-----------------------------------------------------------------------------
BreadthFirstInv == Given /\ ReachInv /\ PathInv /\ TraceInv /\ TreeInv /\ BreadthFirstExact

\* The invariant of the breadth-first walks holds at first.
LEMMA BreadthFirstInit == Init => BreadthFirstInv
BY GivenInit, ReachInit, PathInit, TraceInit, TreeInit DEF BreadthFirstInv, BreadthFirstExact

\* Every step keeps it.
LEMMA BreadthFirstNext == BreadthFirstInv /\ [Next]_vars => BreadthFirstInv'
<1> SUFFICES ASSUME BreadthFirstInv, [Next]_vars PROVE BreadthFirstInv'
  OBVIOUS
<1>1. CASE UNCHANGED vars
  BY <1>1 DEF BreadthFirstInv, BreadthFirstExact, vars, Given, ReachInv, PathInv, TraceInv,
     TreeInv, ReachExact, PathShortest, TraceBfs, TreeSpans, Runs, Answers, Marking
<1>2. CASE pc # "done" /\ Next
  <2>1. Given /\ ReachInv /\ PathInv /\ TraceInv /\ TreeInv /\ pc = "run"
    BY <1>2 DEF BreadthFirstInv, Given
  <2>2. Given' /\ graph' = graph /\ query' = query /\ KindStep
    BY <1>2, <2>1, Frame
  <2>3. ReachInv' /\ ReachExact'
    <3>1. CASE Runs("reach") /\ ReachStep
      <4>1. ReachInv'
        BY <2>1, <3>1, ReachKept
      <4>2. pc' = "run"
        BY <2>1, <3>1 DEF ReachStep
      <4> QED
        BY <4>1, <4>2 DEF ReachExact, Answers
    <3>2. CASE Runs("reach") /\ ReachDone
      <4>1. ReachExact'
        BY <2>1, <3>2, ReachSorted
      <4>2. pc' = "done"
        BY <3>2 DEF ReachDone
      <4> QED
        BY <4>1, <4>2 DEF ReachInv, Runs
    <3>3. CASE ~Runs("reach")
      BY <2>1, <2>2, <3>3 DEF ReachInv, ReachExact, Runs, Answers
    <3> QED
      BY <2>2, <3>1, <3>2, <3>3 DEF KindStep
  <2>4. PathInv' /\ PathShortest'
    <3>1. CASE Runs("path") /\ PathStep
      BY <2>1, <3>1, PathKept
    <3>2. CASE Runs("path") /\ WalkDone
      <4>1. PathShortest'
        BY <2>1, <3>2, PathMissed
      <4>2. pc' = "done"
        BY <3>2 DEF WalkDone
      <4> QED
        BY <4>1, <4>2 DEF PathInv, Runs
    <3>3. CASE ~Runs("path")
      BY <2>1, <2>2, <3>3 DEF PathInv, PathShortest, Runs, Answers
    <3> QED
      BY <2>2, <3>1, <3>2, <3>3 DEF KindStep
  <2>5. TraceInv' /\ TraceBfs'
    <3>1. CASE Runs("trace") /\ TraceStep
      <4>1. TraceInv'
        BY <2>1, <3>1, TraceKept
      <4>2. pc' = "run"
        BY <2>1, <3>1 DEF TraceStep
      <4> QED
        BY <4>1, <4>2 DEF TraceBfs, Answers
    <3>2. CASE Runs("trace") /\ WalkDone
      <4>1. TraceBfs'
        BY <2>1, <3>2, TraceDone
      <4>2. pc' = "done"
        BY <3>2 DEF WalkDone
      <4> QED
        BY <4>1, <4>2 DEF TraceInv, Runs
    <3>3. CASE ~Runs("trace")
      BY <2>1, <2>2, <3>3 DEF TraceInv, TraceBfs, Runs, Answers
    <3> QED
      BY <2>2, <3>1, <3>2, <3>3 DEF KindStep
  <2>6. TreeInv' /\ TreeSpans'
    <3>1. CASE Runs("tree") /\ TreeStep
      <4>1. TreeInv'
        BY <2>1, <3>1, TreeKept
      <4>2. pc' = "run"
        BY <2>1, <3>1 DEF TreeStep
      <4> QED
        BY <4>1, <4>2 DEF TreeSpans, Answers
    <3>2. CASE Runs("tree") /\ WalkDone
      <4>1. TreeSpans'
        BY <2>1, <3>2, TreeDone
      <4>2. pc' = "done"
        BY <3>2 DEF WalkDone
      <4> QED
        BY <4>1, <4>2 DEF TreeInv, Runs
    <3>3. CASE ~Runs("tree")
      BY <2>1, <2>2, <3>3 DEF TreeInv, TreeSpans, Runs, Answers
    <3> QED
      BY <2>2, <3>1, <3>2, <3>3 DEF KindStep
  <2> QED
    BY <2>2, <2>3, <2>4, <2>5, <2>6 DEF BreadthFirstInv, BreadthFirstExact
<1>3. CASE pc = "done" /\ Next
  <2>1. UNCHANGED vars
    BY <1>3, Frame DEF BreadthFirstInv, KindStep
  <2> QED
    BY <1>1, <2>1
<1> QED
  BY <1>1, <1>2, <1>3

\* reachable_within, path_query, trace_path and call_tree: for every graph and
\* every query, the rows are the nodes within the bound, each once and at its
\* distance, a path that is returned is a shortest one, and none is returned
\* only if the goal is out of reach.
THEOREM BreadthFirstCorrect == Spec => []BreadthFirstExact
<1>1. BreadthFirstInv => BreadthFirstExact
  BY DEF BreadthFirstInv
<1> QED
  BY <1>1, BreadthFirstInit, BreadthFirstNext, PTL DEF Spec

-----------------------------------------------------------------------------
(* subgraph_around.                                                        *)

\* What is marked at the end: as many of the nodes within the bound as the budget
\* allows, the nearest first, each reached through marked nodes.
LEMMA MarkedPart ==
    ASSUME NEW g, NEW a \in Nodes, NEW dir, NEW hops \in Nat, NEW cap \in Nat, NEW s,
           Marked(g, a, dir, hops, cap, <<>>, s)
    PROVE  /\ Cardinality(DOMAIN s) = Least(Cardinality(Ball(g, a, dir, Nodes, hops)), cap)
           /\ Ball(g, a, dir, DOMAIN s, hops) = DOMAIN s
           /\ \A k \in 0..hops : \/ Ball(g, a, dir, Nodes, k) \subseteq DOMAIN s
                                 \/ DOMAIN s \subseteq Ball(g, a, dir, Nodes, k)
<1> DEFINE C == DOMAIN s
           B == Ball(g, a, dir, Nodes, hops)
<1>1. /\ C \subseteq Nodes /\ a \in C /\ Cardinality(C) <= cap
      /\ \A m \in C : /\ s[m] \in Nat /\ s[m] <= hops /\ m \in Sphere(g, a, dir, s[m])
                      /\ m \in Ball(g, a, dir, C, s[m])
                      /\ \A k \in 0..(s[m] - 1) : Ball(g, a, dir, Nodes, k) \subseteq C
  BY DEF Marked
<1>2. Cardinality(C) < cap => C = B
  BY MarkedEnd
<1> HIDE DEF C
<1>3. ASSUME NEW m \in C, NEW k \in Nat, s[m] <= k PROVE m \in Ball(g, a, dir, Nodes, k)
  BY <1>1, <1>3, SphereInBall
<1>4. C \subseteq B /\ B \subseteq Nodes
  <2>1. C \subseteq B
    BY <1>1, <1>3
  <2>2. B \subseteq Nodes \cup {a}
    BY BallGrows
  <2> QED
    BY <2>1, <2>2
<1> HIDE DEF B
<1>5. Cardinality(C) = Least(Cardinality(B), cap)
  <2>1. /\ Cardinality(C) \in Nat /\ Cardinality(B) \in Nat /\ Cardinality(C) <= Cardinality(B)
    BY <1>4, NodeCounts
  <2>2. CASE Cardinality(C) < cap
    BY <1>2, <2>1, <2>2 DEF Least
  <2>3. CASE Cardinality(C) = cap
    BY <2>1, <2>3 DEF Least
  <2> QED
    BY <1>1, <2>1, <2>2, <2>3
<1>6. Ball(g, a, dir, C, hops) = C
  <2>1. Ball(g, a, dir, C, hops) \subseteq C
    <3>1. Ball(g, a, dir, C, hops) \subseteq C \cup {a}
      BY BallGrows
    <3> QED
      BY <1>1, <3>1
  <2>2. ASSUME NEW m \in C PROVE m \in Ball(g, a, dir, C, hops)
    <3>1. s[m] \in 0..hops /\ m \in Ball(g, a, dir, C, s[m])
      BY <1>1
    <3>2. \A j \in 0..hops : Ball(g, a, dir, C, j) \subseteq Ball(g, a, dir, C, hops)
      BY BallGrows
    <3> QED
      BY <3>1, <3>2
  <2> QED
    BY <2>1, <2>2
<1>7. ASSUME NEW k \in 0..hops, ~(C \subseteq Ball(g, a, dir, Nodes, k))
      PROVE  Ball(g, a, dir, Nodes, k) \subseteq C
  <2>1. PICK m \in C : m \notin Ball(g, a, dir, Nodes, k)
    BY <1>7
  <2>2. ~(s[m] <= k)
    BY <1>3, <2>1
  <2>3. k \in 0..(s[m] - 1)
    BY <1>1, <2>2
  <2> QED
    BY <1>1, <2>3
<1> QED
  BY <1>5, <1>6, <1>7 DEF B, C

\* A step of subgraph_around.
LEMMA SubgraphKept ==
    ASSUME Given, SubgraphInv, SubgraphStep
    PROVE  SubgraphInv'
<1>1. /\ Runs("subgraph") /\ queue # <<>> /\ graph' = graph /\ query' = query
      /\ GoOn(Neighbourhood)
  BY DEF SubgraphStep, GoOn
<1>2. Marking
  BY <1>1 DEF SubgraphInv
<1>3. AllNext(graph, Head(queue).node, Way(query), Neighbourhood)
  BY NeighbourhoodIs
<1> DEFINE next == Neighbourhood
<1> HIDE DEF next
<1>4. /\ GoOn(next) /\ AllNext(graph, Head(queue).node, Way(query), next)
  BY <1>1, <1>3 DEF next
<1>5. Marking'
  BY <1>1, <1>2, <1>4, MarkingStep
<1> QED
  BY <1>5 DEF SubgraphInv

\* subgraph_around returns what is marked and the edges within it.
LEMMA SubgraphReturned ==
    ASSUME Given, SubgraphInv, SubgraphDone
    PROVE  SubgraphInduced'
<1> DEFINE a == query.start
           hops == Least(query.hops, MAX_REACH_HOPS)
           C == DOMAIN seen
           E == {e \in ToSet(graph) : {e.src, e.tgt} \subseteq C}
           R == [nodes |-> C, edges |-> E]
<1>1. Runs("subgraph") /\ queue = <<>> /\ graph' = graph /\ query' = query /\ result' = R
  BY DEF SubgraphDone, Done
<1>2. /\ Way(query) = "both" /\ Hops(query) = hops /\ Budget(query) = MAX_REACH_RESULTS
      /\ a \in Nodes
  BY <1>1 DEF Runs, Way, Hops, Budget, Given, Immediate
<1>3. hops \in Nat /\ MAX_REACH_RESULTS \in Nat
  BY <1>2, QueryFields DEF QueryTypes
<1>4. Marked(graph, a, "both", hops, MAX_REACH_RESULTS, <<>>, seen)
  BY <1>1, <1>2 DEF SubgraphInv, Marking
<1> HIDE DEF hops
<1>5. /\ Cardinality(C) = Least(Cardinality(Ball(graph, a, "both", Nodes, hops)), MAX_REACH_RESULTS)
      /\ Ball(graph, a, "both", C, hops) = C
      /\ \A k \in 0..hops : \/ Ball(graph, a, "both", Nodes, k) \subseteq C
                            \/ C \subseteq Ball(graph, a, "both", Nodes, k)
  BY <1>2, <1>3, <1>4, MarkedPart
<1>6. \A i \in DOMAIN graph : graph[i] \in E <=> {graph[i].src, graph[i].tgt} \subseteq C
  BY DEF ToSet
<1>7. R.nodes = C /\ R.edges = E
  OBVIOUS
<1> HIDE DEF E, C, R
<1> QED
  BY <1>1, <1>2, <1>5, <1>6, <1>7 DEF SubgraphInduced, hops

\* subgraph_around before its first step, and when it needs none.
LEMMA SubgraphInit == Init => SubgraphInv /\ SubgraphInduced
<1> SUFFICES ASSUME Init PROVE SubgraphInv /\ SubgraphInduced
  OBVIOUS
<1>1. SubgraphInv
  BY MarkingInit DEF SubgraphInv, Runs
<1>2. ASSUME Answers("subgraph") PROVE query.start \notin Nodes /\ result = None
  BY <1>2 DEF Answers, Init, Immediate, Answer, Empty
<1>3. SubgraphInduced
  BY <1>2 DEF SubgraphInduced
<1> QED
  BY <1>1, <1>3

-----------------------------------------------------------------------------
(* dependency_cluster.                                                     *)

\* The component is closed and the whole of every closed part.
LEMMA ComponentClosed ==
    ASSUME NEW g, NEW a, NEW S, NEW h \in Component(g, a, S), NEW m \in S,
           EdgeBetween(g, h, m, "both")
    PROVE  m \in Component(g, a, S)
<1> SUFFICES ASSUME NEW T \in SUBSET S, a \in T,
                    \A x \in T, y \in S : EdgeBetween(g, x, y, "both") => y \in T
             PROVE  m \in T
  BY DEF Component
<1>1. h \in T
  BY DEF Component
<1> QED
  BY <1>1

\* What is linked to a within a part is linked to it within the whole.
LEMMA ComponentOfPart ==
    ASSUME NEW g, NEW a, NEW S, NEW R, R \subseteq S, a \in R
    PROVE  Component(g, a, R) \subseteq Component(g, a, S)
<1> SUFFICES ASSUME NEW n \in Component(g, a, R), NEW T \in SUBSET S, a \in T,
                    \A x \in T, y \in S : EdgeBetween(g, x, y, "both") => y \in T
             PROVE  n \in S /\ n \in T
  BY DEF Component
<1> DEFINE U == T \cap R
<1>1. U \in SUBSET R /\ a \in U
  OBVIOUS
<1>2. \A x \in U, y \in R : EdgeBetween(g, x, y, "both") => y \in U
  OBVIOUS
<1> HIDE DEF U
<1>3. n \in R /\ n \in U
  BY <1>1, <1>2 DEF Component
<1> QED
  BY <1>3 DEF U

\* A start is in its own component.
LEMMA ComponentStart ==
    ASSUME NEW g, NEW S, NEW a \in S
    PROVE  a \in Component(g, a, S)
BY DEF Component

(* The head of the queue, whose neighbours are N, is taken off it; as many *)
(* of N as the budget allows are collected and queued.                     *)
Gathered(g, cap, q, C, t, N, new, q2, D, t2) ==
    /\ new \in Seq(Nodes) /\ Requeued(q, new, q2) /\ N \subseteq Nodes
    /\ \A m \in N : EdgeBetween(g, q[1].node, m, "both")
    /\ \A m \in Nodes : EdgeBetween(g, q[1].node, m, "both") => m \in N \/ m = q[1].node
    /\ \A m \in ToSet(new) : m \in N /\ Cardinality(C) < cap
    /\ D = C \cup ToSet(new) /\ Cardinality(D) \in Nat /\ Cardinality(D) <= cap
    /\ Cardinality(D) < cap => N \subseteq D
    /\ t2 \in BOOLEAN /\ (t2 <=> t \/ \E m \in N : OverBudget(D, m, cap))

\* Expanding the head of the queue keeps what is collected connected, and it is
\* closed unless a neighbour was dropped.
LEMMA CollectedStep ==
    ASSUME NEW g, NEW a, NEW cap \in Nat, NEW q, NEW C, NEW t, Collected(g, a, cap, q, C, t),
           q # <<>>, NEW N, NEW new, NEW q2, NEW D, NEW t2,
           Gathered(g, cap, q, C, t, N, new, q2, D, t2)
    PROVE  Collected(g, a, cap, q2, D, t2)
<1>0. /\ new \in Seq(Nodes) /\ Requeued(q, new, q2) /\ N \subseteq Nodes
      /\ \A m \in N : EdgeBetween(g, q[1].node, m, "both")
      /\ \A m \in Nodes : EdgeBetween(g, q[1].node, m, "both") => m \in N \/ m = q[1].node
      /\ \A m \in ToSet(new) : m \in N /\ Cardinality(C) < cap
      /\ D = C \cup ToSet(new) /\ Cardinality(D) \in Nat /\ Cardinality(D) <= cap
      /\ Cardinality(D) < cap => N \subseteq D
      /\ t2 \in BOOLEAN /\ (t2 <=> t \/ \E m \in N : OverBudget(D, m, cap))
  BY DEF Gathered
<1> USE <1>0
<1> DEFINE h == q[1].node
<1>1. /\ q \in Seq(QueueEntry) /\ C \subseteq Component(g, a, Nodes) /\ a \in C
      /\ \A i \in 1..Len(q) : q[i].node \in C
      /\ C \subseteq Component(g, a, C)
  BY DEF Collected
<1>2. 1 \in 1..Len(q) /\ h \in C
  BY <1>1
<1>3. \A m \in ToSet(new) : m \in Nodes /\ m \in N /\ EdgeBetween(g, h, m, "both")
  OBVIOUS
<1> HIDE DEF h
<1>4. D \subseteq Component(g, a, Nodes)
  <2>1. ASSUME NEW m \in ToSet(new) PROVE m \in Component(g, a, Nodes)
    BY <1>1, <1>2, <1>3, ComponentClosed
  <2> QED
    BY <1>1, <2>1
<1>5. D \subseteq Component(g, a, D)
  <2>1. Component(g, a, C) \subseteq Component(g, a, D)
    BY <1>1, ComponentOfPart
  <2>2. C \subseteq Component(g, a, D)
    BY <1>1, <2>1
  <2>3. ASSUME NEW m \in ToSet(new) PROVE m \in Component(g, a, D)
    <3>1. m \in D /\ h \in Component(g, a, D) /\ EdgeBetween(g, h, m, "both")
      BY <1>2, <1>3, <2>2
    <3> QED
      BY ONLY <3>1, ComponentClosed
  <2> QED
    BY <2>2, <2>3
<1>6. /\ \A n \in ToSet(new) : Queued(q2, n)
      /\ \A n : Queued(q, n) => n = h \/ Queued(q2, n)
  BY <1>1, RequeuedQueued DEF h
<1>7. q2 \in Seq(QueueEntry)
  BY DEF Requeued
<1>8. ASSUME NEW k \in 1..Len(q2) PROVE q2[k].node \in D
  <2>1. \/ k \in 1..(Len(q) - 1) /\ q2[k] = q[k + 1] /\ k + 1 \in 1..Len(q)
        \/ /\ k > Len(q) - 1 /\ k - (Len(q) - 1) \in 1..Len(new)
           /\ q2[k].node = new[k - (Len(q) - 1)] /\ q2[k].depth = q[1].depth + 1
    BY <1>1, RequeuedEntry
  <2>2. \A x : x \in ToSet(new) <=> \E i \in 1..Len(new) : new[i] = x
    BY ToSetOfSeq
  <2>3. q2[k].node \in C \/ q2[k].node \in ToSet(new)
    BY <1>1, <2>1, <2>2
  <2> QED
    BY <2>3
<1>9. ASSUME ~t2, NEW n \in D, ~Queued(q2, n), NEW m \in Nodes, EdgeBetween(g, n, m, "both")
      PROVE  m \in D
  <2>1. ~t /\ \A x \in N : x \in D \/ ~(Cardinality(D) >= cap)
    BY <1>9 DEF OverBudget
  <2>2. ASSUME NEW x \in N PROVE x \in D
    <3>1. CASE Cardinality(D) < cap
      BY <3>1
    <3>2. CASE ~(Cardinality(D) < cap)
      <4>1. Cardinality(D) >= cap
        BY <3>2
      <4> QED
        BY <2>1, <4>1
    <3> QED
      BY <3>1, <3>2
  <2>3. n \in C
    BY <1>6, <1>9
  <2>4. CASE n = h
    BY <1>2, <1>9, <2>2, <2>4 DEF h
  <2>5. CASE n # h
    <3>1. ~Queued(q, n)
      BY <1>6, <1>9, <2>5
    <3>2. m \in C
      BY <1>9, <2>1, <2>3, <3>1 DEF Collected
    <3> QED
      BY <3>2
  <2> QED
    BY <2>4, <2>5
<1>10. ASSUME t2
       PROVE  /\ Cardinality(D) = cap
              /\ \E n \in D : \E m \in Nodes \ D : EdgeBetween(g, n, m, "both")
  <2>1. CASE t
    <3>1. /\ Cardinality(C) = cap
          /\ \E n \in C : \E m \in Nodes \ C : EdgeBetween(g, n, m, "both")
      BY <2>1 DEF Collected
    <3>2. ToSet(new) = {}
      BY <3>1
    <3>3. D = C
      BY <3>2
    <3> QED
      BY <3>1, <3>3
  <2>2. CASE ~t
    <3>1. PICK m \in N : m \notin D /\ Cardinality(D) >= cap
      BY <1>10, <2>2 DEF OverBudget
    <3>2. Cardinality(D) = cap
      BY <3>1
    <3>3. h \in D /\ m \in Nodes \ D /\ EdgeBetween(g, h, m, "both")
      BY <1>2, <3>1 DEF h
    <3> QED
      BY <3>2, <3>3
  <2> QED
    BY <2>1, <2>2
<1>11. a \in D
  BY <1>1
<1> QED
  BY <1>4, <1>5, <1>7, <1>8, <1>9, <1>10, <1>11 DEF Collected

\* A step of dependency_cluster.
LEMMA ClusterKept ==
    ASSUME Given, ClusterInv, ClusterStep
    PROVE  ClusterInv'
<1> DEFINE a == query.start
           cap == Budget(query)
           next == Neighbourhood
           new == Taken(next, cap)
           C == DOMAIN seen
           D == DOMAIN seen'
           N == ToSet(next)
<1>1. /\ Runs("cluster") /\ queue # <<>> /\ graph' = graph /\ query' = query
      /\ Discover(next, cap)
      /\ truncated' = (truncated \/ \E m \in N : OverBudget(D, m, cap))
  BY DEF ClusterStep
<1>2. Collected(graph, a, cap, queue, C, truncated)
  BY <1>1 DEF ClusterInv
<1>3. cap \in Nat /\ Way(query) = "both"
  BY <1>1, QueryFields DEF QueryTypes, Runs, Way
<1>4. /\ queue \in Seq(QueueEntry) /\ Cardinality(C) <= cap /\ C \subseteq Nodes
      /\ truncated \in BOOLEAN
  BY <1>2 DEF Collected, Component
<1>5. Head(queue).node = queue[1].node
  BY <1>1, <1>4
<1>6. AllNext(graph, Head(queue).node, Way(query), next)
  BY NeighbourhoodIs
<1>7. /\ next \in Seq(Nodes)
      /\ N \subseteq Nodes /\ \A m \in N : EdgeBetween(graph, queue[1].node, m, "both")
      /\ \A m \in Nodes : EdgeBetween(graph, queue[1].node, m, "both") => m \in N \/ m = queue[1].node
  BY <1>3, <1>5, <1>6, ToSetOfSeq DEF AllNext
<1> HIDE DEF next
<1>8. Expanded(queue, seen, new, queue', seen')
  BY <1>1, <1>3, <1>4, <1>7, Discovered
<1>9. /\ new \in Seq(Nodes)
      /\ \A m \in ToSet(new) : m \in N /\ Cardinality(C) < cap
      /\ Cardinality(C \cup ToSet(new)) <= cap
      /\ Cardinality(C \cup ToSet(new)) < cap => N \subseteq C \cup ToSet(new)
  BY <1>3, <1>4, <1>7, TakenFacts
<1> HIDE DEF new
<1>10. D = C \cup ToSet(new) /\ Requeued(queue, new, queue')
  BY <1>8 DEF Expanded
<1>11. Cardinality(D) \in Nat
  <2>1. D \subseteq Nodes
    BY <1>4, <1>7, <1>9, <1>10
  <2> QED
    BY <2>1, NodeCounts
<1>12. Cardinality(D) <= cap /\ (Cardinality(D) < cap => N \subseteq D)
  BY <1>9, <1>10
<1>13. truncated' \in BOOLEAN /\ (truncated' <=> truncated \/ \E m \in N : OverBudget(D, m, cap))
  BY <1>1, <1>4
<1> HIDE DEF a, cap, C, D, N
<1>14. Gathered(graph, cap, queue, C, truncated, N, new, queue', D, truncated')
  BY ONLY <1>7, <1>9, <1>10, <1>11, <1>12, <1>13 DEF Gathered
<1>15. Collected(graph, a, cap, queue', D, truncated')
  BY ONLY <1>1, <1>2, <1>3, <1>14, CollectedStep
<1> QED
  BY ONLY <1>1, <1>15 DEF ClusterInv, a, cap, D

\* dependency_cluster returns what it collected.
LEMMA ClusterReturned ==
    ASSUME Given, ClusterInv, ClusterDone
    PROVE  ClusterHonest'
<1> DEFINE a == query.start
           cap == Budget(query)
           C == DOMAIN seen
           whole == Component(graph, a, Nodes)
           size == IF query.limit = 0 THEN 1 ELSE Least(query.limit, MAX_REACH_RESULTS)
<1>1. /\ Runs("cluster") /\ queue = <<>> /\ graph' = graph /\ query' = query
      /\ truncated' = truncated /\ result' = C
  BY DEF ClusterDone, Done
<1>2. Collected(graph, a, cap, <<>>, C, truncated)
  BY <1>1 DEF ClusterInv
<1>3. size = cap /\ cap \in Nat
  <2>1. query.kind = "cluster"
    BY <1>1 DEF Runs
  <2>2. query.limit \in Nat /\ MAX_REACH_RESULTS \in Nat \ {0} /\ cap \in Nat
    BY QueryFields, GraphAssumption DEF QueryTypes
  <2>3. cap = IF Limit(query) = 0 THEN 1 ELSE Limit(query)
    BY <2>1 DEF Budget
  <2> QED
    BY <2>2, <2>3 DEF Limit, Least
<1>4. /\ C \subseteq whole /\ a \in C /\ C \subseteq Component(graph, a, C)
      /\ Cardinality(C) <= cap /\ truncated \in BOOLEAN
  BY <1>2 DEF Collected
<1>5. whole \subseteq Nodes
  BY DEF Component
<1> HIDE DEF C, cap
<1>6. /\ Cardinality(C) \in Nat /\ Cardinality(whole) \in Nat
      /\ Cardinality(C) <= Cardinality(whole)
      /\ Cardinality(C) = Cardinality(whole) => C = whole
  <2> HIDE DEF whole
  <2> QED
    BY <1>4, <1>5, NodeCounts
<1>7. ASSUME ~truncated PROVE C = whole
  <2>1. \A n \in C : ~Queued(<<>>, n) => \A m \in Nodes : EdgeBetween(graph, n, m, "both") => m \in C
    BY <1>2, <1>7 DEF Collected
  <2>2. \A n : ~Queued(<<>>, n)
    BY DEF Queued
  <2>3. C \in SUBSET Nodes
    BY <1>4, <1>5
  <2>4. \A x \in C, y \in Nodes : EdgeBetween(graph, x, y, "both") => y \in C
    BY <2>1, <2>2
  <2>5. \A n \in whole : n \in C
    BY <1>4, <2>3, <2>4 DEF Component
  <2> QED
    BY <1>4, <2>5
<1>8. ASSUME truncated PROVE Cardinality(C) = cap /\ Cardinality(whole) > cap
  <2>1. /\ Cardinality(C) = cap
        /\ \E n \in C : \E m \in Nodes \ C : EdgeBetween(graph, n, m, "both")
    BY <1>2, <1>8 DEF Collected
  <2>2. PICK n \in C : \E m \in Nodes \ C : EdgeBetween(graph, n, m, "both")
    BY <2>1
  <2>3. PICK m \in Nodes \ C : EdgeBetween(graph, n, m, "both")
    BY <2>2
  <2>4. m \in whole
    BY <1>4, <2>3, ComponentClosed
  <2>5. C # whole
    BY <2>3, <2>4
  <2> QED
    BY <1>3, <1>6, <2>1, <2>5
<1> HIDE DEF whole
<1>9. truncated = (Cardinality(whole) > cap)
  <2>1. CASE truncated
    BY <1>4, <1>8, <2>1
  <2>2. CASE ~truncated
    <3>1. ~(Cardinality(whole) > cap)
      BY <1>3, <1>4, <1>6, <1>7, <2>2
    <3> QED
      BY <1>4, <2>2, <3>1
  <2> QED
    BY <2>1, <2>2
<1>10. Cardinality(C) = Least(Cardinality(whole), cap)
  <2>1. CASE truncated
    BY <1>3, <1>6, <1>8, <2>1 DEF Least
  <2>2. CASE ~truncated
    BY <1>3, <1>4, <1>6, <1>7, <2>2 DEF Least
  <2> QED
    BY <2>1, <2>2
<1>11. Component(graph, a, C) = C
  <2>1. Component(graph, a, C) \subseteq C
    BY DEF Component
  <2> QED
    BY <1>4, <2>1
<1>12. a \in Nodes
  BY <1>4, <1>5
<1> HIDE DEF size
<1>13. /\ truncated' = (Cardinality(whole) > size) /\ Cardinality(C) = Least(Cardinality(whole), size)
       /\ C \subseteq whole /\ Component(graph, a, C) = C
  BY ONLY <1>1, <1>3, <1>4, <1>9, <1>10, <1>11
<1> QED
  BY ONLY <1>1, <1>12, <1>13 DEF ClusterHonest, whole, size, a

\* dependency_cluster before its first step, and when it needs none.
LEMMA ClusterInit == Init => ClusterInv /\ ClusterHonest
<1> SUFFICES ASSUME Init PROVE ClusterInv /\ ClusterHonest
  OBVIOUS
<1>1. Given /\ QueryTypes
  BY GivenInit, QueryFields
<1>2. ASSUME Runs("cluster") PROVE ClusterInv
  <2> DEFINE a == query.start
             row == Row(a, 0)
             q == <<row>>
             cap == Budget(query)
  <2>1. /\ a \in Nodes /\ queue = q /\ truncated = FALSE
        /\ seen = [m \in {a} \cap Nodes |-> 0]
    BY <1>2 DEF Init, Runs, Immediate
  <2>2. DOMAIN seen = {a}
    BY <2>1
  <2>3. row.node = a /\ row \in QueueEntry
    BY <2>1 DEF Row, QueueEntry
  <2> HIDE DEF row
  <2>4. q \in Seq(QueueEntry) /\ Len(q) = 1 /\ q[1] = row /\ \A i \in 1..Len(q) : i = 1
    BY <2>3
  <2> HIDE DEF q
  <2>5. Queued(q, a)
    BY <2>3, <2>4 DEF Queued
  <2>6. a \in Component(graph, a, Nodes) /\ a \in Component(graph, a, {a})
    BY <2>1, ComponentStart
  <2>7. Cardinality({a}) = 1
    BY FS_Singleton, Zenon
  <2>8. Cardinality({a}) <= cap
    BY <1>1, <2>7 DEF QueryTypes
  <2>9. Collected(graph, a, cap, q, {a}, FALSE)
    BY <2>3, <2>4, <2>5, <2>6, <2>8 DEF Collected
  <2> QED
    BY <2>1, <2>2, <2>9 DEF ClusterInv
<1>3. ASSUME Answers("cluster") PROVE query.start \notin Nodes /\ result = None
  BY <1>3 DEF Answers, Init, Immediate, Answer, Empty
<1>4. ClusterInv
  BY <1>2 DEF ClusterInv
<1>5. ClusterHonest
  BY <1>3 DEF ClusterHonest
<1> QED
  BY <1>4, <1>5

-----------------------------------------------------------------------------
BudgetInv == Given /\ SubgraphInv /\ ClusterInv /\ BudgetHonest

\* The invariant of the walks with a node budget holds at first.
LEMMA BudgetInit == Init => BudgetInv
BY GivenInit, SubgraphInit, ClusterInit DEF BudgetInv, BudgetHonest

\* Every step keeps it.
LEMMA BudgetNext == BudgetInv /\ [Next]_vars => BudgetInv'
<1> SUFFICES ASSUME BudgetInv, [Next]_vars PROVE BudgetInv'
  OBVIOUS
<1>1. CASE UNCHANGED vars
  BY <1>1 DEF BudgetInv, BudgetHonest, vars, Given, SubgraphInv, ClusterInv, SubgraphInduced,
     ClusterHonest, Runs, Answers, Marking
<1>2. CASE pc # "done" /\ Next
  <2>1. Given /\ SubgraphInv /\ ClusterInv /\ pc = "run"
    BY <1>2 DEF BudgetInv, Given
  <2>2. Given' /\ graph' = graph /\ query' = query /\ KindStep
    BY <1>2, <2>1, Frame
  <2>3. SubgraphInv' /\ SubgraphInduced'
    <3>1. CASE Runs("subgraph") /\ SubgraphStep
      <4>1. SubgraphInv'
        BY <2>1, <3>1, SubgraphKept
      <4>2. pc' = "run"
        BY <2>1, <3>1 DEF SubgraphStep
      <4> QED
        BY <4>1, <4>2 DEF SubgraphInduced, Answers
    <3>2. CASE Runs("subgraph") /\ SubgraphDone
      <4>1. SubgraphInduced'
        BY <2>1, <3>2, SubgraphReturned
      <4>2. pc' = "done"
        BY <3>2 DEF SubgraphDone
      <4> QED
        BY <4>1, <4>2 DEF SubgraphInv, Runs
    <3>3. CASE ~Runs("subgraph")
      BY <2>1, <2>2, <3>3 DEF SubgraphInv, SubgraphInduced, Runs, Answers
    <3> QED
      BY <2>2, <3>1, <3>2, <3>3 DEF KindStep
  <2>4. ClusterInv' /\ ClusterHonest'
    <3>1. CASE Runs("cluster") /\ ClusterStep
      <4>1. ClusterInv'
        BY <2>1, <3>1, ClusterKept
      <4>2. pc' = "run"
        BY <2>1, <3>1 DEF ClusterStep
      <4> QED
        BY <4>1, <4>2 DEF ClusterHonest, Answers
    <3>2. CASE Runs("cluster") /\ ClusterDone
      <4>1. ClusterHonest'
        BY <2>1, <3>2, ClusterReturned
      <4>2. pc' = "done"
        BY <3>2 DEF ClusterDone
      <4> QED
        BY <4>1, <4>2 DEF ClusterInv, Runs
    <3>3. CASE ~Runs("cluster")
      BY <2>1, <2>2, <3>3 DEF ClusterInv, ClusterHonest, Runs, Answers
    <3> QED
      BY <2>2, <3>1, <3>2, <3>3 DEF KindStep
  <2> QED
    BY <2>2, <2>3, <2>4 DEF BudgetInv, BudgetHonest
<1>3. CASE pc = "done" /\ Next
  <2>1. UNCHANGED vars
    BY <1>3, Frame DEF BudgetInv, KindStep
  <2> QED
    BY <1>1, <2>1
<1> QED
  BY <1>1, <1>2, <1>3

\* dependency_cluster and subgraph_around: for every graph, query and budget, what
\* is returned is connected and as large as the budget allows, the cluster is
\* called truncated exactly when its component is larger, and the subgraph
\* loses only its farthest nodes.
THEOREM BudgetCorrect == Spec => []BudgetHonest
<1>1. BudgetInv => BudgetHonest
  BY DEF BudgetInv
<1> QED
  BY <1>1, BudgetInit, BudgetNext, PTL DEF Spec
=============================================================================
