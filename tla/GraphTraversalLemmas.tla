------------------------ MODULE GraphTraversalLemmas ------------------------
(***************************************************************************)
(* What the operators GraphTraversal is built from compute: ordered        *)
(* enumerations, selections from a sequence, a node's neighbours, balls    *)
(* around a node.                                                          *)
(***************************************************************************)
EXTENDS GraphTraversal, FiniteSetTheorems, SequenceTheorems, TLAPS

-----------------------------------------------------------------------------
(* Induction over the naturals, for a set.                                 *)

\* A set of naturals that is not empty has a least element.
LEMMA LeastNat ==
    ASSUME NEW T \in SUBSET Nat, T # {}
    PROVE  \E n \in T : \A m \in T : n <= m
<1>1. IsWellFoundedOn(OpToRel(<, Nat), Nat)
  BY NatLessThanWellFounded
<1>2. PICK n \in T : \A m \in T : ~(<<m, n>> \in OpToRel(<, Nat))
  BY <1>1, WFMin
<1>3. \A m \in T : ~(m < n)
  BY <1>2 DEF OpToRel
<1> QED
  BY <1>3

\* A set with 0 and the successor of each of its members holds every natural.
LEMMA NatInSet ==
    ASSUME NEW T, 0 \in T, \A n \in Nat : n \in T => n + 1 \in T
    PROVE  \A n \in Nat : n \in T
<1> DEFINE U == {n \in Nat : n \notin T}
<1> SUFFICES ASSUME U # {} PROVE FALSE
  OBVIOUS
<1>1. U \in SUBSET Nat
  OBVIOUS
<1>2. PICK n \in U : \A m \in U : n <= m
  <2> HIDE DEF U
  <2> QED
    BY <1>1, LeastNat
<1>3. n # 0 /\ n - 1 \in Nat /\ n - 1 \notin U
  BY <1>2
<1> QED
  BY <1>3

\* The values of a sequence.
LEMMA ToSetOfSeq ==
    ASSUME NEW S, NEW s \in Seq(S)
    PROVE  /\ ToSet(s) \subseteq S
           /\ \A x : x \in ToSet(s) <=> \E i \in 1..Len(s) : s[i] = x
BY DEF ToSet

\* A sequence that repeats nothing has as many values as it is long.
LEMMA InjectiveCount ==
    ASSUME NEW S, NEW r \in Seq(S), \A i, j \in 1..Len(r) : r[i] = r[j] => i = j
    PROVE  IsFiniteSet(ToSet(r)) /\ Cardinality(ToSet(r)) = Len(r) /\ Len(r) \in Nat
<1>1. \A x : x \in ToSet(r) <=> \E i \in 1..Len(r) : r[i] = x
  BY ToSetOfSeq
<1>2. r \in [1..Len(r) -> ToSet(r)] /\ Len(r) \in Nat
  BY <1>1
<1>3. r \in Bijection(1..Len(r), ToSet(r))
  BY <1>1, <1>2 DEF Bijection, Injection, Surjection, IsInjective
<1> DEFINE n == Len(r)
<1>4. IsFiniteSet(1..n) /\ Cardinality(1..n) = n
  <2>1. n \in Nat
    BY <1>2
  <2> HIDE DEF n
  <2>2. IsFiniteSet(1..n) /\ Cardinality(1..n) = IF 1 > n THEN 0 ELSE n - 1 + 1
    BY <2>1, FS_Interval
  <2> QED
    BY <2>1, <2>2
<1> QED
  BY <1>2, <1>3, <1>4, FS_Bijection DEF ExistsBijection

-----------------------------------------------------------------------------
(* Enumerations.                                                           *)

StrictOrder(before) ==
    LET S == DOMAIN before
    IN /\ before \in [S -> SUBSET S] /\ IsFiniteSet(S)
       /\ \A x \in S : x \notin before[x]
       /\ \A x, y \in S : x \in before[y] => before[x] \subseteq before[y]
       /\ \A x, y \in S : x = y \/ x \in before[y] \/ y \in before[x]

\* Enumerate lists a totally ordered finite set once each, in order.
LEMMA EnumerateOrder ==
    ASSUME NEW before, StrictOrder(before)
    PROVE  LET S == DOMAIN before
               e == Enumerate(before)
           IN /\ Cardinality(S) \in Nat /\ e \in [1..Cardinality(S) -> S]
              /\ e \in Seq(S) /\ Len(e) = Cardinality(S)
              /\ \A x \in S : \E i \in 1..Cardinality(S) : e[i] = x
              /\ \A i, j \in 1..Cardinality(S) : i < j => e[i] \in before[e[j]]
              /\ \A i, j \in 1..Cardinality(S) : e[i] = e[j] => i = j
<1> DEFINE S == DOMAIN before
           n == Cardinality(S)
           e == Enumerate(before)
           rank == [x \in S |-> Cardinality(before[x])]
<1>1. n \in Nat /\ IsFiniteSet(S)
  BY FS_CardinalityType DEF StrictOrder
<1>2. ASSUME NEW x \in S
      PROVE  IsFiniteSet(before[x]) /\ rank[x] \in 0..(n - 1)
  <2>1. before[x] \in SUBSET S /\ before[x] # S
    BY DEF StrictOrder
  <2>2. IsFiniteSet(before[x]) /\ Cardinality(before[x]) <= n /\ Cardinality(before[x]) # n
    BY <1>1, <2>1, FS_Subset
  <2>3. Cardinality(before[x]) \in Nat
    BY <2>2, FS_CardinalityType
  <2> QED
    BY <1>1, <2>2, <2>3
<1>3. ASSUME NEW x \in S, NEW y \in S, x \in before[y] PROVE rank[x] < rank[y]
  <2>1. before[x] \in SUBSET before[y] /\ before[x] # before[y]
    BY <1>3 DEF StrictOrder
  <2>2. Cardinality(before[x]) <= Cardinality(before[y])
        /\ Cardinality(before[x]) # Cardinality(before[y])
    BY <1>2, <2>1, FS_Subset
  <2> QED
    BY <1>2, <2>2
<1>4. ASSUME NEW x \in S, NEW y \in S, rank[x] = rank[y] PROVE x = y
  <2>1. x = y \/ x \in before[y] \/ y \in before[x]
    BY DEF StrictOrder
  <2> QED
    BY <1>2, <1>3, <1>4, <2>1
<1>5. \A i \in 1..n : \E x \in S : rank[x] = i - 1
  <2> DEFINE f == [x \in S |-> rank[x] + 1]
  <2>1. f \in [S -> 1..n]
    BY <1>1, <1>2
  <2>2. f \in Injection(S, 1..n)
    BY <1>2, <1>4, <2>1 DEF Injection, IsInjective
  <2>3. IsFiniteSet(1..n) /\ Cardinality(1..n) = n
    BY <1>1, FS_Interval
  <2>4. f \in Surjection(S, 1..n)
    BY <2>2, <2>3, FS_Injection
  <2>5. \A i \in 1..n : \E x \in S : f[x] = i
    BY <2>4 DEF Surjection
  <2> QED
    BY <1>1, <1>2, <2>5
<1>6. e \in [1..n -> S] /\ \A i \in 1..n : rank[e[i]] = i - 1
  BY <1>5 DEF Enumerate
<1> HIDE DEF e, rank, n
<1>7. \A x \in S : \E i \in 1..n : e[i] = x
  <2> SUFFICES ASSUME NEW x \in S PROVE \E i \in 1..n : e[i] = x
    OBVIOUS
  <2>1. PICK i \in 1..n : i - 1 = rank[x]
    BY <1>1, <1>2
  <2>2. rank[e[i]] = rank[x] /\ e[i] \in S
    BY <1>6, <2>1
  <2> QED
    BY <1>4, <2>1, <2>2
<1>8. \A i, j \in 1..n : i < j => e[i] \in before[e[j]]
  <2> SUFFICES ASSUME NEW i \in 1..n, NEW j \in 1..n, i < j PROVE e[i] \in before[e[j]]
    OBVIOUS
  <2>1. rank[e[i]] < rank[e[j]] /\ e[i] \in S /\ e[j] \in S
    BY <1>1, <1>6
  <2>2. e[i] = e[j] \/ e[i] \in before[e[j]] \/ e[j] \in before[e[i]]
    BY <2>1 DEF StrictOrder
  <2> QED
    BY <1>2, <1>3, <2>1, <2>2
<1>9. \A i, j \in 1..n : e[i] = e[j] => i = j
  BY <1>1, <1>6
<1>10. e \in Seq(S) /\ Len(e) = n
  BY <1>1, <1>6
<1> QED
  BY <1>1, <1>6, <1>7, <1>8, <1>9, <1>10 DEF e, n

\* Pick lists the values at the chosen positions, once per position.
LEMMA PickValues ==
    ASSUME NEW S, NEW s \in Seq(S), NEW I \in SUBSET (1..Len(s))
    PROVE  /\ Pick(s, I) \in Seq(S) /\ IsFiniteSet(I) /\ Len(Pick(s, I)) = Cardinality(I)
           /\ \A i \in I : \E k \in 1..Len(Pick(s, I)) : Pick(s, I)[k] = s[i]
           /\ \A k \in 1..Len(Pick(s, I)) : \E i \in I : Pick(s, I)[k] = s[i]
           /\ (\A i, j \in I : s[i] = s[j] => i = j) =>
                \A k, l \in 1..Len(Pick(s, I)) : Pick(s, I)[k] = Pick(s, I)[l] => k = l
<1> DEFINE b == [i \in I |-> {j \in I : j < i}]
           e == Enumerate(b)
           p == Pick(s, I)
<1>0. Len(s) \in Nat /\ DOMAIN s = 1..Len(s)
  OBVIOUS
<1>1. IsFiniteSet(I)
  <2>1. IsFiniteSet(1..Len(s))
    BY <1>0, FS_Interval
  <2> QED
    BY <2>1, FS_Subset
<1>2. StrictOrder(b)
  <2>1. DOMAIN b = I /\ b \in [I -> SUBSET I] /\ \A x, y \in I : x \in b[y] <=> x < y
    OBVIOUS
  <2>2. \A x \in I : x \in Nat
    OBVIOUS
  <2> HIDE DEF b
  <2>3. \A x, y \in I : x \in b[y] => b[x] \subseteq b[y]
    <3> SUFFICES ASSUME NEW x \in I, NEW y \in I, x \in b[y], NEW z \in b[x]
                 PROVE  z \in b[y]
      OBVIOUS
    <3>1. z \in I
      BY <2>1
    <3> QED
      BY <2>1, <2>2, <3>1
  <2>4. /\ \A x \in I : x \notin b[x]
        /\ \A x, y \in I : x = y \/ x \in b[y] \/ y \in b[x]
    BY <2>1, <2>2
  <2> QED
    BY <1>1, <2>1, <2>3, <2>4 DEF StrictOrder
<1>3. /\ Cardinality(I) \in Nat /\ e \in [1..Cardinality(I) -> I]
      /\ \A x \in I : \E i \in 1..Cardinality(I) : e[i] = x
      /\ \A i, j \in 1..Cardinality(I) : e[i] = e[j] => i = j
  <2>1. DOMAIN b = I
    OBVIOUS
  <2> HIDE DEF b
  <2> QED
    BY <1>2, <2>1, EnumerateOrder
<1>4. p = [k \in DOMAIN e |-> s[e[k]]]
  BY DEF Pick
<1> HIDE DEF e, p
<1>5. p \in [1..Cardinality(I) -> S]
  <2>1. \A k \in 1..Cardinality(I) : e[k] \in 1..Len(s)
    BY <1>3
  <2>2. \A k \in 1..Cardinality(I) : s[e[k]] \in S
    BY <2>1, ElementOfSeq
  <2> QED
    BY <1>3, <1>4, <2>2
<1>6. p \in Seq(S) /\ Len(p) = Cardinality(I)
  BY <1>3, <1>5
<1>7. \A k \in 1..Cardinality(I) : p[k] = s[e[k]] /\ e[k] \in I
  BY <1>3, <1>4
<1>8. \A i \in I : \E k \in 1..Len(p) : p[k] = s[i]
  BY <1>3, <1>6, <1>7
<1>9. \A k \in 1..Len(p) : \E i \in I : p[k] = s[i]
  BY <1>6, <1>7
<1>10. (\A i, j \in I : s[i] = s[j] => i = j) =>
         \A k, l \in 1..Len(p) : p[k] = p[l] => k = l
  <2> SUFFICES ASSUME \A i, j \in I : s[i] = s[j] => i = j,
                      NEW k \in 1..Cardinality(I), NEW l \in 1..Cardinality(I), p[k] = p[l]
               PROVE  k = l
    BY <1>6
  <2>1. e[k] \in I /\ e[l] \in I /\ s[e[k]] = s[e[l]]
    BY <1>7
  <2>2. e[k] = e[l]
    BY <2>1
  <2> QED
    BY <1>3, <2>2
<1> QED
  BY <1>1, <1>6, <1>8, <1>9, <1>10 DEF p

\* Keep lists the values of the sequence that lie in the set.
LEMMA KeepValues ==
    ASSUME NEW S, NEW s \in Seq(S), NEW K
    PROVE  /\ Keep(s, K) \in Seq(S \cap K)
           /\ ToSet(Keep(s, K)) = ToSet(s) \cap K
<1> DEFINE I == {i \in 1..Len(s) : s[i] \in K}
           p == Pick(s, I)
<1>1. /\ p \in Seq(S)
      /\ \A i \in I : \E k \in 1..Len(p) : p[k] = s[i]
      /\ \A k \in 1..Len(p) : \E i \in I : p[k] = s[i]
  <2>1. I \in SUBSET (1..Len(s))
    OBVIOUS
  <2> HIDE DEF I
  <2> QED
    BY <2>1, PickValues
<1>2. Keep(s, K) = p
  <2>1. I = {i \in DOMAIN s : s[i] \in K}
    OBVIOUS
  <2> QED
    BY <2>1 DEF Keep
<1> HIDE DEF p
<1>3. \A k \in 1..Len(p) : p[k] \in S \cap K
  BY <1>1
<1>4. p \in Seq(S \cap K)
  <2>1. Len(p) \in Nat /\ p \in [1..Len(p) -> S \cap K]
    BY <1>1, <1>3
  <2> QED
    BY <2>1
<1>5. \A x : x \in ToSet(p) <=> x \in ToSet(s) \cap K
  <2>1. \A x : x \in ToSet(p) <=> \E i \in 1..Len(p) : p[i] = x
    BY <1>1, ToSetOfSeq
  <2>2. \A x : x \in ToSet(s) <=> \E i \in 1..Len(s) : s[i] = x
    BY ToSetOfSeq
  <2>3. \A x \in ToSet(p) : x \in ToSet(s) \cap K
    BY <1>1, <2>1, <2>2
  <2>4. \A x \in ToSet(s) \cap K : \E i \in I : s[i] = x
    BY <2>2
  <2>5. \A x \in ToSet(s) \cap K : x \in ToSet(p)
    <3> HIDE DEF I
    <3> QED
      BY <1>1, <2>1, <2>4
  <2> QED
    BY <2>3, <2>5
<1> QED
  BY <1>2, <1>4, <1>5

\* Prefix cuts a sequence and changes nothing else.
LEMMA PrefixValues ==
    ASSUME NEW S, NEW s \in Seq(S), NEW n \in Nat
    PROVE  /\ Prefix(s, n) \in Seq(S)
           /\ Len(Prefix(s, n)) = Least(Len(s), n) /\ Len(Prefix(s, n)) \in Nat
           /\ \A i \in 1..Len(Prefix(s, n)) : Prefix(s, n)[i] = s[i]
<1> DEFINE k == IF Len(s) <= n THEN Len(s) ELSE n
<1>1. k \in Nat /\ k <= Len(s) /\ \A i \in 1..k : s[i] \in S
  OBVIOUS
<1>2. Prefix(s, n) = SubSeq(s, 1, k) /\ k = Least(Len(s), n)
  BY DEF Prefix, Least
<1> HIDE DEF k
<1>3. /\ SubSeq(s, 1, k) \in Seq(S) /\ Len(SubSeq(s, 1, k)) = k
      /\ \A i \in 1..k : SubSeq(s, 1, k)[i] = s[i]
  BY <1>1, SubSeqProperties
<1> QED
  BY <1>1, <1>2, <1>3

-----------------------------------------------------------------------------
(* The graph.                                                              *)
EdgeSet == [src : Nodes, tgt : Nodes]

\* Both ends of an edge are nodes.
LEMMA EdgeEnds ==
    ASSUME NEW g \in Seq(EdgeSet), NEW i \in 1..Len(g)
    PROVE  g[i] \in EdgeSet /\ g[i].src \in Nodes /\ g[i].tgt \in Nodes
<1>1. g[i] \in EdgeSet
  OBVIOUS
<1> QED
  BY <1>1 DEF EdgeSet

\* outgoing_edges and incoming_edges together give a node's neighbours.
LEMMA TargetsAre ==
    ASSUME NEW g \in Seq(EdgeSet), NEW n
    PROVE  /\ Targets(g, n) \in Seq(Nodes)
           /\ ToSet(Targets(g, n)) = {m \in Nodes : EdgeBetween(g, n, m, "out")}
<1> DEFINE t == [i \in DOMAIN g |-> g[i].tgt]
           I == {i \in DOMAIN g : g[i].src = n}
           p == Pick(t, I)
<1>1. /\ t \in Seq(Nodes) /\ Len(t) = Len(g) /\ DOMAIN g = 1..Len(g)
      /\ \A i \in 1..Len(g) : t[i] = g[i].tgt /\ t[i] \in Nodes
  <2>1. DOMAIN g = 1..Len(g) /\ Len(g) \in Nat
    OBVIOUS
  <2>2. \A i \in 1..Len(g) : g[i].tgt \in Nodes
    BY EdgeEnds
  <2>3. t \in [1..Len(g) -> Nodes]
    BY <2>1, <2>2
  <2>4. t \in Seq(Nodes) /\ Len(t) = Len(g)
    BY <2>1, <2>3
  <2> QED
    BY <2>1, <2>2, <2>4
<1>2. I \in SUBSET (1..Len(t)) /\ \A i \in 1..Len(g) : i \in I <=> g[i].src = n
  BY <1>1
<1>3. Targets(g, n) = p
  BY DEF Targets
<1> HIDE DEF t, I
<1>4. /\ p \in Seq(Nodes)
      /\ \A i \in I : \E k \in 1..Len(p) : p[k] = t[i]
      /\ \A k \in 1..Len(p) : \E i \in I : p[k] = t[i]
  BY <1>1, <1>2, PickValues
<1> HIDE DEF p
<1>5. \A x : x \in ToSet(p) <=> \E i \in 1..Len(p) : p[i] = x
  BY <1>4, ToSetOfSeq
<1>6. \A m : EdgeBetween(g, n, m, "out") <=> \E i \in I : t[i] = m
  <2>1. \A m : EdgeBetween(g, n, m, "out")
                 <=> \E i \in 1..Len(g) : g[i].src = n /\ g[i].tgt = m
    BY <1>1 DEF EdgeBetween
  <2>2. \A i \in I : i \in 1..Len(g)
    BY <1>1, <1>2
  <2> QED
    BY <1>1, <1>2, <2>1, <2>2
<1>7. \A m : m \in ToSet(p) <=> EdgeBetween(g, n, m, "out")
  BY <1>4, <1>5, <1>6
<1>8. \A m : EdgeBetween(g, n, m, "out") => m \in Nodes
  BY <1>1, <1>2, <1>6
<1> QED
  BY <1>3, <1>4, <1>7, <1>8

\* The same against the direction of the edges.
LEMMA SourcesAre ==
    ASSUME NEW g \in Seq(EdgeSet), NEW n
    PROVE  /\ Sources(g, n) \in Seq(Nodes)
           /\ ToSet(Sources(g, n)) = {m \in Nodes : EdgeBetween(g, n, m, "in")}
<1> DEFINE t == [i \in DOMAIN g |-> g[i].src]
           I == {i \in DOMAIN g : g[i].tgt = n}
           p == Pick(t, I)
<1>1. /\ t \in Seq(Nodes) /\ Len(t) = Len(g) /\ DOMAIN g = 1..Len(g)
      /\ \A i \in 1..Len(g) : t[i] = g[i].src /\ t[i] \in Nodes
  <2>1. DOMAIN g = 1..Len(g) /\ Len(g) \in Nat
    OBVIOUS
  <2>2. \A i \in 1..Len(g) : g[i].src \in Nodes
    BY EdgeEnds
  <2>3. t \in [1..Len(g) -> Nodes]
    BY <2>1, <2>2
  <2>4. t \in Seq(Nodes) /\ Len(t) = Len(g)
    BY <2>1, <2>3
  <2> QED
    BY <2>1, <2>2, <2>4
<1>2. I \in SUBSET (1..Len(t)) /\ \A i \in 1..Len(g) : i \in I <=> g[i].tgt = n
  BY <1>1
<1>3. Sources(g, n) = p
  BY DEF Sources
<1> HIDE DEF t, I
<1>4. /\ p \in Seq(Nodes)
      /\ \A i \in I : \E k \in 1..Len(p) : p[k] = t[i]
      /\ \A k \in 1..Len(p) : \E i \in I : p[k] = t[i]
  BY <1>1, <1>2, PickValues
<1> HIDE DEF p
<1>5. \A x : x \in ToSet(p) <=> \E i \in 1..Len(p) : p[i] = x
  BY <1>4, ToSetOfSeq
<1>6. \A m : EdgeBetween(g, n, m, "in") <=> \E i \in I : t[i] = m
  <2>1. \A m : EdgeBetween(g, n, m, "in")
                 <=> \E i \in 1..Len(g) : g[i].tgt = n /\ g[i].src = m
    BY <1>1 DEF EdgeBetween
  <2>2. \A i \in I : i \in 1..Len(g)
    BY <1>1, <1>2
  <2> QED
    BY <1>1, <1>2, <2>1, <2>2
<1>7. \A m : m \in ToSet(p) <=> EdgeBetween(g, n, m, "in")
  BY <1>4, <1>5, <1>6
<1>8. \A m : EdgeBetween(g, n, m, "in") => m \in Nodes
  BY <1>1, <1>2, <1>6
<1> QED
  BY <1>3, <1>4, <1>7, <1>8

\* Ends lists exactly the nodes one edge away, in any of the directions.
LEMMA EndsAre ==
    ASSUME NEW g \in Seq(EdgeSet), NEW n, NEW dir \in {"out", "in", "both"}
    PROVE  /\ Ends(g, n, dir) \in Seq(Nodes)
           /\ ToSet(Ends(g, n, dir)) = {m \in Nodes : EdgeBetween(g, n, m, dir)}
<1> DEFINE t == Targets(g, n)
           s == Sources(g, n)
<1>1. t \in Seq(Nodes) /\ ToSet(t) = {m \in Nodes : EdgeBetween(g, n, m, "out")}
  BY TargetsAre
<1>2. s \in Seq(Nodes) /\ ToSet(s) = {m \in Nodes : EdgeBetween(g, n, m, "in")}
  BY SourcesAre
<1>3. CASE dir = "out"
  BY <1>1, <1>3 DEF Ends
<1>4. CASE dir = "in"
  BY <1>2, <1>4 DEF Ends
<1>5. CASE dir = "both"
  <2>1. Ends(g, n, dir) = t \o s
    BY <1>5 DEF Ends
  <2> HIDE DEF t, s
  <2>2. t \o s \in Seq(Nodes)
    BY <1>1, <1>2
  <2>3. \A x : x \in ToSet(t \o s) <=> x \in ToSet(t) \cup ToSet(s)
    <3>1. /\ \A x : x \in ToSet(t) <=> \E i \in 1..Len(t) : t[i] = x
          /\ \A x : x \in ToSet(s) <=> \E i \in 1..Len(s) : s[i] = x
          /\ \A x : x \in ToSet(t \o s) <=> \E i \in 1..Len(t \o s) : (t \o s)[i] = x
      BY <1>1, <1>2, <2>2, ToSetOfSeq
    <3>2. /\ Len(t \o s) = Len(t) + Len(s) /\ Len(t) \in Nat /\ Len(s) \in Nat
          /\ \A i \in 1..Len(t) : (t \o s)[i] = t[i]
          /\ \A i \in 1..Len(s) : (t \o s)[i + Len(t)] = s[i]
          /\ \A i \in 1..Len(t \o s) : i <= Len(t) \/ i - Len(t) \in 1..Len(s)
          /\ \A i \in 1..Len(t \o s) : i > Len(t) => (t \o s)[i] = s[i - Len(t)]
      BY <1>1, <1>2
    <3>3. ASSUME NEW x \in ToSet(t \o s) PROVE x \in ToSet(t) \cup ToSet(s)
      <4>1. PICK i \in 1..Len(t \o s) : (t \o s)[i] = x
        BY <3>1
      <4> QED
        BY <3>1, <3>2, <4>1
    <3>4. ASSUME NEW x \in ToSet(t) PROVE x \in ToSet(t \o s)
      <4>1. PICK i \in 1..Len(t) : t[i] = x
        BY <3>1
      <4>2. i \in 1..Len(t \o s) /\ (t \o s)[i] = x
        BY <3>2, <4>1
      <4> QED
        BY <3>1, <4>2
    <3>5. ASSUME NEW x \in ToSet(s) PROVE x \in ToSet(t \o s)
      <4>1. PICK i \in 1..Len(s) : s[i] = x
        BY <3>1
      <4>2. i + Len(t) \in 1..Len(t \o s) /\ (t \o s)[i + Len(t)] = x
        BY <3>2, <4>1
      <4> QED
        BY <3>1, <4>2
    <3> QED
      BY <3>3, <3>4, <3>5
  <2>4. \A m : EdgeBetween(g, n, m, "both")
                 <=> EdgeBetween(g, n, m, "out") \/ EdgeBetween(g, n, m, "in")
    BY DEF EdgeBetween
  <2> QED
    BY <1>1, <1>2, <1>5, <2>1, <2>2, <2>3, <2>4
<1> QED
  BY <1>3, <1>4, <1>5

-----------------------------------------------------------------------------
(* Iteration.                                                              *)
Iterated(F, base, h, n) == h = [i \in 0..n |-> IF i = 0 THEN base ELSE F[h[i - 1]]]

Iteration(F, base, f) ==
    /\ f = [i \in Nat |-> f[i]] /\ f[0] = base
    /\ \A i \in Nat : f[i + 1] = F[f[i]]

\* A function can be iterated: there is a sequence of its values.
LEMMA Iterates ==
    ASSUME NEW F, NEW base
    PROVE  \E f : Iteration(F, base, f)
<1> DEFINE T == {n \in Nat : \E h : Iterated(F, base, h, n)}
           H(n) == CHOOSE h : Iterated(F, base, h, n)
<1>1. \A n \in Nat : n \in T
  <2>1. 0 \in T
    <3>1. Iterated(F, base, [i \in 0..0 |-> base], 0)
      BY DEF Iterated
    <3> QED
      BY <3>1
  <2>2. ASSUME NEW n \in Nat, n \in T PROVE n + 1 \in T
    <3>1. PICK h : Iterated(F, base, h, n)
      BY <2>2
    <3> DEFINE k == [i \in 0..(n + 1) |-> IF i = 0 THEN base ELSE F[h[i - 1]]]
    <3>2. \A i \in 0..n : k[i] = h[i]
      BY <3>1 DEF Iterated
    <3>3. \A i \in 0..(n + 1) : i # 0 => k[i] = F[k[i - 1]]
      <4> SUFFICES ASSUME NEW i \in 0..(n + 1), i # 0 PROVE k[i] = F[k[i - 1]]
        OBVIOUS
      <4>1. i - 1 \in 0..n /\ k[i] = F[h[i - 1]]
        OBVIOUS
      <4> HIDE DEF k
      <4> QED
        BY <3>2, <4>1
    <3>4. k[0] = base /\ DOMAIN k = 0..(n + 1)
      OBVIOUS
    <3>5. Iterated(F, base, k, n + 1)
      BY <3>3, <3>4 DEF Iterated
    <3> QED
      BY <3>5
  <2> HIDE DEF T
  <2> QED
    BY <2>1, <2>2, NatInSet
<1>2. ASSUME NEW n \in Nat
      PROVE  /\ H(n)[0] = base
             /\ \A i \in 1..n : H(n)[i] = F[H(n)[i - 1]]
  <2>1. \E h : Iterated(F, base, h, n)
    BY <1>1
  <2>2. Iterated(F, base, H(n), n)
    BY <2>1
  <2> HIDE DEF H
  <2> QED
    BY <2>2 DEF Iterated
<1> HIDE DEF H
<1>3. \A i \in Nat : \A n \in Nat : i <= n => H(n)[i] = H(i)[i]
  <2> DEFINE U == {i \in Nat : \A n \in Nat : i <= n => H(n)[i] = H(i)[i]}
  <2>1. 0 \in U
    BY <1>2
  <2>2. ASSUME NEW i \in Nat, i \in U PROVE i + 1 \in U
    <3> SUFFICES ASSUME NEW n \in Nat, i + 1 <= n PROVE H(n)[i + 1] = H(i + 1)[i + 1]
      OBVIOUS
    <3>1. H(n)[i] = H(i)[i] /\ H(i + 1)[i] = H(i)[i]
      BY <2>2
    <3>2. H(n)[i + 1] = F[H(n)[i]] /\ H(i + 1)[i + 1] = F[H(i + 1)[i]]
      BY <1>2
    <3> QED
      BY <3>1, <3>2
  <2>3. \A i \in Nat : i \in U
    <3> HIDE DEF U
    <3> QED
      BY <2>1, <2>2, NatInSet
  <2> QED
    BY <2>3
<1> DEFINE f == [n \in Nat |-> H(n)[n]]
<1>4. ASSUME NEW n \in Nat PROVE f[n + 1] = F[f[n]]
  <2>1. f[n + 1] = H(n + 1)[n + 1] /\ f[n] = H(n)[n] /\ n + 1 \in 1..(n + 1)
    OBVIOUS
  <2>2. H(n + 1)[n + 1] = F[H(n + 1)[n]]
    BY <1>2, <2>1
  <2>3. H(n + 1)[n] = H(n)[n]
    BY <1>3
  <2> QED
    BY <2>1, <2>2, <2>3
<1>5. f[0] = base
  BY <1>2
<1>6. f = [i \in Nat |-> f[i]]
  OBVIOUS
<1> HIDE DEF f
<1> QED
  BY <1>4, <1>5, <1>6 DEF Iteration

-----------------------------------------------------------------------------
(* Balls.                                                                  *)
Grow(g, dir, S, X) == X \cup {m \in S : \E c \in X : EdgeBetween(g, c, m, dir)}
IsBall(g, a, dir, S, f) ==
    f = [i \in Nat |-> IF i = 0 THEN {a} ELSE Grow(g, dir, S, f[i - 1])]

\* The definition of Ball, unfolded.
LEMMA BallIs ==
    ASSUME NEW g, NEW a, NEW dir, NEW S, NEW k
    PROVE  Ball(g, a, dir, S, k) = (CHOOSE f : IsBall(g, a, dir, S, f))[k]
BY DEF Ball, IsBall, Grow

\* A ball of radius 0 is its centre; the next one adds the neighbours.
LEMMA BallStep ==
    ASSUME NEW g, NEW a, NEW dir, NEW S
    PROVE  /\ Ball(g, a, dir, S, 0) = {a}
           /\ \A k \in Nat : Ball(g, a, dir, S, k + 1)
                               = Grow(g, dir, S, Ball(g, a, dir, S, k))
<1> DEFINE X == SUBSET (S \cup {a})
           F == [x \in X |-> Grow(g, dir, S, x)]
           b == CHOOSE f : IsBall(g, a, dir, S, f)
<1>1. PICK f : Iteration(F, {a}, f)
  <2> HIDE DEF F
  <2> QED
    BY Iterates
<1>2. f = [i \in Nat |-> f[i]] /\ f[0] = {a} /\ \A i \in Nat : f[i + 1] = F[f[i]]
  <2> HIDE DEF F
  <2> QED
    BY <1>1 DEF Iteration
<1>3. \A x \in X : Grow(g, dir, S, x) \in X /\ F[x] = Grow(g, dir, S, x)
  BY DEF Grow
<1> HIDE DEF F
<1>4. \A i \in Nat : f[i] \in X
  <2> DEFINE T == {i \in Nat : f[i] \in X}
  <2>1. 0 \in T
    BY <1>2
  <2>2. ASSUME NEW i \in Nat, i \in T PROVE i + 1 \in T
    BY <1>2, <1>3, <2>2
  <2>3. \A i \in Nat : i \in T
    <3> HIDE DEF T
    <3> QED
      BY <2>1, <2>2, NatInSet
  <2> QED
    BY <2>3
<1> HIDE DEF X
<1>5. IsBall(g, a, dir, S, f)
  <2>1. \A i \in Nat : i # 0 => f[i] = Grow(g, dir, S, f[i - 1])
    <3> SUFFICES ASSUME NEW i \in Nat, i # 0 PROVE f[i] = Grow(g, dir, S, f[i - 1])
      OBVIOUS
    <3>1. i - 1 \in Nat /\ (i - 1) + 1 = i
      OBVIOUS
    <3> QED
      BY <1>2, <1>3, <1>4, <3>1
  <2>2. f[0] = {a} /\ f = [i \in Nat |-> f[i]]
    BY <1>2
  <2> QED
    BY <2>1, <2>2 DEF IsBall
<1>6. IsBall(g, a, dir, S, b)
  BY <1>5
<1> HIDE DEF b
<1>7. b[0] = {a} /\ \A k \in Nat : b[k + 1] = Grow(g, dir, S, b[k])
  <2>1. b[0] = {a} /\ \A i \in Nat : i # 0 => b[i] = Grow(g, dir, S, b[i - 1])
    BY <1>6 DEF IsBall
  <2> SUFFICES ASSUME NEW k \in Nat PROVE b[k + 1] = Grow(g, dir, S, b[k])
    BY <2>1
  <2>2. k + 1 \in Nat /\ k + 1 # 0 /\ (k + 1) - 1 = k
    OBVIOUS
  <2> QED
    BY <2>1, <2>2
<1> QED
  BY <1>7, BallIs DEF b

\* A ball lies among S and its centre, and grows with its radius.
LEMMA BallGrows ==
    ASSUME NEW g, NEW a, NEW dir, NEW S
    PROVE  /\ \A k \in Nat : a \in Ball(g, a, dir, S, k)
           /\ \A k \in Nat : Ball(g, a, dir, S, k) \subseteq S \cup {a}
           /\ \A k \in Nat : \A j \in 0..k :
                 Ball(g, a, dir, S, j) \subseteq Ball(g, a, dir, S, k)
<1> DEFINE B(k) == Ball(g, a, dir, S, k)
           T == {k \in Nat : /\ a \in B(k) /\ B(k) \subseteq S \cup {a}
                             /\ \A j \in 0..k : B(j) \subseteq B(k)}
<1>1. B(0) = {a} /\ \A k \in Nat : B(k + 1) = Grow(g, dir, S, B(k))
  BY BallStep
<1>2. \A X : X \subseteq Grow(g, dir, S, X) /\ Grow(g, dir, S, X) \subseteq X \cup S
  BY DEF Grow
<1> HIDE DEF B
<1>3. 0 \in T
  BY <1>1
<1>4. ASSUME NEW k \in Nat, k \in T PROVE k + 1 \in T
  <2>1. B(k) \subseteq B(k + 1) /\ B(k + 1) \subseteq B(k) \cup S
    BY <1>1, <1>2
  <2>2. \A j \in 0..(k + 1) : j \in 0..k \/ j = k + 1
    OBVIOUS
  <2>3. \A j \in 0..(k + 1) : B(j) \subseteq B(k + 1)
    BY <1>4, <2>1, <2>2
  <2> QED
    BY <1>4, <2>1, <2>3
<1>5. \A k \in Nat : k \in T
  <2> HIDE DEF T
  <2> QED
    BY <1>3, <1>4, NatInSet
<1> QED
  BY <1>5 DEF B

\* A ball over fewer nodes is smaller.
LEMMA BallOfPart ==
    ASSUME NEW g, NEW a, NEW dir, NEW S, NEW R, R \subseteq S
    PROVE  \A k \in Nat : Ball(g, a, dir, R, k) \subseteq Ball(g, a, dir, S, k)
<1> DEFINE X(k) == Ball(g, a, dir, R, k)
           Y(k) == Ball(g, a, dir, S, k)
           T == {k \in Nat : X(k) \subseteq Y(k)}
<1>1. X(0) = {a} /\ \A k \in Nat : X(k + 1) = Grow(g, dir, R, X(k))
  BY BallStep
<1>2. Y(0) = {a} /\ \A k \in Nat : Y(k + 1) = Grow(g, dir, S, Y(k))
  BY BallStep
<1> HIDE DEF X, Y
<1>3. 0 \in T
  BY <1>1, <1>2
<1>4. ASSUME NEW k \in Nat, k \in T PROVE k + 1 \in T
  <2>1. Grow(g, dir, R, X(k)) \subseteq Grow(g, dir, S, Y(k))
    BY <1>4 DEF Grow
  <2> QED
    BY <1>1, <1>2, <2>1
<1>5. \A k \in Nat : k \in T
  <2> HIDE DEF T
  <2> QED
    BY <1>3, <1>4, NatInSet
<1> QED
  BY <1>5 DEF X, Y

\* A set that holds the centre, and with a node of a smaller ball also its
\* neighbours, holds the balls up to that radius.
LEMMA BallWithin ==
    ASSUME NEW g, NEW a, NEW dir, NEW S, NEW K, NEW d \in Nat, a \in K,
           \A k \in 0..(d - 1) : \A c \in K \cap Ball(g, a, dir, S, k) : \A m \in S :
              EdgeBetween(g, c, m, dir) => m \in K
    PROVE  \A k \in 0..d : Ball(g, a, dir, S, k) \subseteq K
<1> DEFINE B(k) == Ball(g, a, dir, S, k)
           T == {k \in Nat : k <= d => B(k) \subseteq K}
<1>1. B(0) = {a} /\ \A k \in Nat : B(k + 1) = Grow(g, dir, S, B(k))
  BY BallStep
<1>2. 0 \in T
  BY <1>1
<1>3. ASSUME NEW k \in Nat, k \in T PROVE k + 1 \in T
  <2> SUFFICES ASSUME k + 1 <= d, NEW m \in B(k + 1) PROVE m \in K
    OBVIOUS
  <2>1. k \in 0..(d - 1) /\ B(k) \subseteq K
    BY <1>3
  <2>2. m \in B(k) \/ (m \in S /\ \E c \in B(k) : EdgeBetween(g, c, m, dir))
    BY <1>1 DEF Grow
  <2> QED
    BY <2>1, <2>2
<1>4. \A k \in Nat : k \in T
  <2> HIDE DEF T
  <2> QED
    BY <1>2, <1>3, NatInSet
<1> QED
  BY <1>4

\* A node of the sphere is in the ball and in no smaller one, so that it is in
\* one sphere only.
LEMMA SphereIs ==
    ASSUME NEW g, NEW a, NEW dir, NEW k \in Nat, NEW n
    PROVE  /\ n \in Sphere(g, a, dir, k)
                <=> /\ n \in Ball(g, a, dir, Nodes, k)
                    /\ \A j \in 0..(k - 1) : n \notin Ball(g, a, dir, Nodes, j)
           /\ n \in Sphere(g, a, dir, k) =>
                \A j \in Nat : n \in Sphere(g, a, dir, j) => j = k
<1> DEFINE B(j) == Ball(g, a, dir, Nodes, j)
           Alone(j) == n \in B(j) /\ \A i \in 0..(j - 1) : n \notin B(i)
<1>1. \A j \in Nat : \A i \in 0..j : B(i) \subseteq B(j)
  BY BallGrows
<1> HIDE DEF B
<1>2. \A j \in Nat : n \in Sphere(g, a, dir, j) <=> Alone(j)
  <2> SUFFICES ASSUME NEW j \in Nat PROVE n \in Sphere(g, a, dir, j) <=> Alone(j)
    OBVIOUS
  <2>1. CASE j = 0
    BY <2>1 DEF Sphere, B
  <2>2. CASE j # 0
    <3>1. n \in Sphere(g, a, dir, j) <=> n \in B(j) /\ n \notin B(j - 1)
      BY <2>2 DEF Sphere, B
    <3>2. j - 1 \in Nat /\ \A i \in 0..(j - 1) : B(i) \subseteq B(j - 1)
      BY <1>1, <2>2
    <3> QED
      BY <3>1, <3>2
  <2> QED
    BY <2>1, <2>2
<1>3. ASSUME NEW j \in Nat, Alone(k), Alone(j) PROVE j = k
  <2>1. ~(j < k) /\ ~(k < j)
    BY <1>3
  <2> QED
    BY <2>1
<1> QED
  BY <1>2, <1>3 DEF B

\* The rows of Distances are the nodes of the spheres up to the bound.
LEMMA DistancesAre ==
    ASSUME NEW g, NEW a \in Nodes, NEW dir, NEW hops \in Nat, NEW r
    PROVE  r \in Distances(g, a, dir, hops)
             <=> \E k \in 0..hops : \E n \in Sphere(g, a, dir, k) : r = Row(n, k)
<1>1. Distances(g, a, dir, hops)
        = UNION {{Row(n, k) : n \in Sphere(g, a, dir, k)} : k \in 0..hops}
  BY DEF Distances
<1> QED
  BY <1>1

-----------------------------------------------------------------------------
(* The orders of the results.                                              *)

\* A relation that orders a finite set strictly and totally can be enumerated.
LEMMA OrderedBy ==
    ASSUME NEW S, NEW before, IsFiniteSet(S), before = [x \in S |-> before[x]],
           \A x \in S : before[x] \subseteq S /\ x \notin before[x],
           \A x, y, z \in S : x \in before[y] /\ y \in before[z] => x \in before[z],
           \A x, y \in S : x = y \/ x \in before[y] \/ y \in before[x]
    PROVE  DOMAIN before = S /\ StrictOrder(before)
<1>1. DOMAIN before = S
  OBVIOUS
<1>2. before \in [S -> SUBSET S]
  OBVIOUS
<1>3. \A x, y \in S : x \in before[y] => before[x] \subseteq before[y]
  OBVIOUS
<1> QED
  BY <1>1, <1>2, <1>3 DEF StrictOrder

\* The first n of an enumeration: the n least elements, in order.
LEMMA FirstOf ==
    ASSUME NEW before, StrictOrder(before), NEW n \in Nat
    PROVE  LET S == DOMAIN before
               r == Prefix(Enumerate(before), n)
           IN /\ r \in Seq(S) /\ Len(r) = Least(Cardinality(S), n) /\ Len(r) \in Nat
              /\ \A i, j \in 1..Len(r) : i < j => r[i] \in before[r[j]]
              /\ \A x \in S \ ToSet(r) : \A i \in 1..Len(r) : r[i] \in before[x]
              /\ IsFiniteSet(ToSet(r)) /\ Cardinality(ToSet(r)) = Len(r)
<1> DEFINE S == DOMAIN before
           e == Enumerate(before)
           r == Prefix(e, n)
<1>1. /\ e \in Seq(S) /\ Len(e) = Cardinality(S) /\ Len(e) \in Nat
      /\ \A x \in S : \E i \in 1..Len(e) : e[i] = x
      /\ \A i, j \in 1..Len(e) : i < j => e[i] \in before[e[j]]
      /\ \A i, j \in 1..Len(e) : e[i] = e[j] => i = j
  BY EnumerateOrder
<1> HIDE DEF e
<1>2. /\ r \in Seq(S) /\ Len(r) = Least(Len(e), n) /\ Len(r) \in Nat
      /\ \A i \in 1..Len(r) : r[i] = e[i]
  BY <1>1, PrefixValues
<1> HIDE DEF r
<1>3. Len(r) <= Len(e)
  BY <1>1, <1>2 DEF Least
<1>4. \A x : x \in ToSet(r) <=> \E i \in 1..Len(r) : r[i] = x
  BY <1>2, ToSetOfSeq
<1>5. \A i, j \in 1..Len(r) : i < j => r[i] \in before[r[j]]
  BY <1>1, <1>2, <1>3
<1>6. ASSUME NEW x \in S \ ToSet(r), NEW i \in 1..Len(r) PROVE r[i] \in before[x]
  <2>1. PICK j \in 1..Len(e) : e[j] = x
    BY <1>1
  <2>2. j \notin 1..Len(r)
    BY <1>2, <1>4, <2>1
  <2>3. i \in 1..Len(e) /\ i < j
    BY <1>2, <1>3, <2>2
  <2> QED
    BY <1>1, <1>2, <2>1, <2>3
<1>7. IsFiniteSet(ToSet(r)) /\ Cardinality(ToSet(r)) = Len(r)
  <2>1. \A i, j \in 1..Len(r) : r[i] = r[j] => i = j
    BY <1>1, <1>2, <1>3
  <2> QED
    BY <1>2, <2>1, InjectiveCount
<1> QED
  BY <1>1, <1>2, <1>5, <1>6, <1>7 DEF r, e

\* Names and then ids order the nodes totally.
LEMMA NamesOrder ==
    /\ \A x \in Nodes : ~NamedBefore(x, x)
    /\ \A x, y, z \in Nodes : NamedBefore(x, y) /\ NamedBefore(y, z) => NamedBefore(x, z)
    /\ \A x, y \in Nodes : x = y \/ NamedBefore(x, y) \/ NamedBefore(y, x)
<1>1. \A x \in Nodes : x \in Nat /\ Rank[x] \in Nat
  BY GraphAssumption
<1> QED
  BY <1>1 DEF NamedBefore

\* search_graph's rows are nodes.
LEMMA ScopeNodes == Scope \in Seq(Nodes) /\ ToSet(Scope) \subseteq Nodes
<1> DEFINE b == [n \in Nodes |-> {m \in Nodes : NamedBefore(m, n)}]
<1>1. b = [n \in Nodes |-> b[n]] /\ \A x, y : y \in Nodes => (x \in b[y] <=> x \in Nodes /\ NamedBefore(x, y))
  OBVIOUS
<1>2. DEFAULT_LIMIT \in Nat /\ IsFiniteSet(Nodes)
  BY GraphAssumption
<1>3. Scope = Prefix(Enumerate(b), DEFAULT_LIMIT)
  BY DEF Scope
<1> HIDE DEF b
<1>4. DOMAIN b = Nodes /\ StrictOrder(b)
  <2>1. \A x \in Nodes : b[x] \subseteq Nodes /\ x \notin b[x]
    BY <1>1, NamesOrder
  <2>2. \A x, y, z \in Nodes : x \in b[y] /\ y \in b[z] => x \in b[z]
    BY <1>1, NamesOrder
  <2>3. \A x, y \in Nodes : x = y \/ x \in b[y] \/ y \in b[x]
    BY <1>1, NamesOrder
  <2> QED
    BY <1>1, <1>2, <2>1, <2>2, <2>3, OrderedBy
<1>5. Scope \in Seq(Nodes)
  BY <1>2, <1>3, <1>4, FirstOf
<1> QED
  BY <1>5, ToSetOfSeq

\* Depths, then names and ids, order rows totally.
LEMMA NearerOrder ==
    ASSUME NEW R, \A r \in R : r.depth \in Nat /\ r.node \in Nodes /\ r = Row(r.node, r.depth)
    PROVE  /\ \A x \in R : ~Nearer(x, x)
           /\ \A x, y, z \in R : Nearer(x, y) /\ Nearer(y, z) => Nearer(x, z)
           /\ \A x, y \in R : x = y \/ Nearer(x, y) \/ Nearer(y, x)
<1>1. \A x \in R : ~Nearer(x, x)
  BY NamesOrder DEF Nearer
<1>2. \A x, y, z \in R : Nearer(x, y) /\ Nearer(y, z) => Nearer(x, z)
  BY NamesOrder DEF Nearer
<1>3. ASSUME NEW x \in R, NEW y \in R PROVE x = y \/ Nearer(x, y) \/ Nearer(y, x)
  <2>1. x.node = y.node /\ x.depth = y.depth => x = y
    OBVIOUS
  <2> QED
    BY <2>1, NamesOrder DEF Nearer
<1> QED
  BY <1>1, <1>2, <1>3

\* Length, then the ids in order, orders sequences of ids totally.
LEMMA SmallerOrder ==
    ASSUME NEW R, R \subseteq Seq(Nat)
    PROVE  /\ \A x \in R : ~Smaller(x, x)
           /\ \A x, y, z \in R : Smaller(x, y) /\ Smaller(y, z) => Smaller(x, z)
           /\ \A x, y \in R : x = y \/ Smaller(x, y) \/ Smaller(y, x)
<1>1. \A x \in R : x \in Seq(Nat) /\ Len(x) \in Nat /\ DOMAIN x = 1..Len(x)
  OBVIOUS
<1>2. \A x \in R : \A i \in 1..Len(x) : x[i] \in Nat
  OBVIOUS
<1> DEFINE Lex(x, y, i) == x[i] < y[i] /\ \A j \in 1..(i - 1) : x[j] = y[j]
           Dictionary(x, y) == \E i \in 1..Len(x) : Lex(x, y, i)
<1>3. ASSUME NEW x \in R, NEW y \in R
      PROVE  Smaller(x, y) <=> Len(x) < Len(y) \/ (Len(x) = Len(y) /\ Dictionary(x, y))
  <2>1. DOMAIN x = 1..Len(x)
    BY <1>1
  <2> QED
    BY <2>1 DEF Smaller
<1>4. ASSUME NEW x \in R, Smaller(x, x) PROVE FALSE
  <2>1. Len(x) \in Nat
    BY <1>1
  <2>2. Dictionary(x, x)
    <3> HIDE DEF Dictionary
    <3> QED
      BY <1>3, <1>4, <2>1
  <2>3. PICK i \in 1..Len(x) : x[i] < x[i]
    BY <2>2
  <2> QED
    BY <1>2, <2>3
<1>5. ASSUME NEW x \in R, NEW y \in R, NEW z \in R, Smaller(x, y), Smaller(y, z)
      PROVE  Smaller(x, z)
  <2>1. Len(x) \in Nat /\ Len(y) \in Nat /\ Len(z) \in Nat
    BY <1>1
  <2>2. CASE Len(x) < Len(z)
    <3> HIDE DEF Dictionary
    <3> QED
      BY <1>3, <2>2
  <2>3. CASE ~(Len(x) < Len(z))
    <3>1. /\ Len(x) = Len(y) /\ Len(y) = Len(z)
          /\ Dictionary(x, y) /\ Dictionary(y, z)
      <4> HIDE DEF Dictionary
      <4> QED
        BY <1>3, <1>5, <2>1, <2>3
    <3>2. PICK i \in 1..Len(x) : Lex(x, y, i)
      BY <3>1
    <3>3. PICK k \in 1..Len(x) : Lex(y, z, k)
      BY <3>1
    <3>4. /\ x[i] \in Nat /\ y[i] \in Nat /\ z[i] \in Nat
          /\ x[k] \in Nat /\ y[k] \in Nat /\ z[k] \in Nat
      BY <1>2, <3>1
    <3>5. i \in Nat /\ k \in Nat
      BY <2>1
    <3>6. CASE i < k
      <4>1. i \in 1..(k - 1) /\ \A j \in 1..(i - 1) : j \in 1..(k - 1)
        BY <3>5, <3>6
      <4>2. Lex(x, z, i)
        BY <3>2, <3>3, <3>4, <4>1
      <4>3. Dictionary(x, z)
        BY <4>2
      <4> HIDE DEF Dictionary
      <4> QED
        BY <1>3, <3>1, <4>3
    <3>7. CASE k < i
      <4>1. k \in 1..(i - 1) /\ \A j \in 1..(k - 1) : j \in 1..(i - 1)
        BY <3>5, <3>7
      <4>2. Lex(x, z, k)
        BY <3>2, <3>3, <3>4, <4>1
      <4>3. Dictionary(x, z)
        BY <4>2
      <4> HIDE DEF Dictionary
      <4> QED
        BY <1>3, <3>1, <4>3
    <3>8. CASE i = k
      <4>1. Lex(x, z, i)
        BY <3>2, <3>3, <3>4, <3>8
      <4>3. Dictionary(x, z)
        BY <4>1
      <4> HIDE DEF Dictionary
      <4> QED
        BY <1>3, <3>1, <4>3
    <3> QED
      BY <3>5, <3>6, <3>7, <3>8
  <2> QED
    BY <2>2, <2>3
<1>6. ASSUME NEW x \in R, NEW y \in R, x # y PROVE Smaller(x, y) \/ Smaller(y, x)
  <2>1. Len(x) \in Nat /\ Len(y) \in Nat
    BY <1>1
  <2>2. CASE Len(x) # Len(y)
    <3> HIDE DEF Dictionary
    <3> QED
      BY <1>3, <2>1, <2>2
  <2>3. CASE Len(x) = Len(y)
    <3> DEFINE D == {i \in 1..Len(x) : x[i] # y[i]}
    <3>1. D # {}
      <4>1. x \in Seq(Nat) /\ y \in Seq(Nat)
        BY <1>1
      <4>2. \E i \in 1..Len(x) : x[i] # y[i]
        BY <1>6, <2>3, <4>1, SeqEqual
      <4> QED
        BY <4>2
    <3>2. D \in SUBSET Nat
      BY <2>1
    <3>3. PICK i \in D : \A j \in D : i <= j
      <4> HIDE DEF D
      <4> QED
        BY <3>1, <3>2, LeastNat
    <3>4. i \in 1..Len(x) /\ x[i] # y[i] /\ \A j \in 1..(i - 1) : x[j] = y[j]
      <4>1. \A j \in 1..(i - 1) : j \in 1..Len(x) /\ ~(i <= j)
        BY <2>1
      <4> QED
        BY <3>3, <4>1
    <3>5. x[i] \in Nat /\ y[i] \in Nat
      BY <1>2, <2>3, <3>4
    <3>6. Lex(x, y, i) \/ Lex(y, x, i)
      BY <3>4, <3>5
    <3>7. Dictionary(x, y) \/ Dictionary(y, x)
      BY <2>3, <3>4, <3>6
    <3> HIDE DEF Dictionary
    <3> QED
      BY <1>3, <2>3, <3>7
  <2> QED
    BY <2>2, <2>3
<1> QED
  BY <1>4, <1>5, <1>6

\* There are finitely many sequences of a length over a finite set.
LEMMA FiniteFunctions ==
    ASSUME NEW S, IsFiniteSet(S), NEW len \in Nat
    PROVE  IsFiniteSet(UNION {[1..k -> S] : k \in 1..len})
<1>1. ASSUME NEW k \in Nat PROVE IsFiniteSet([1..k -> S])
  <2> DEFINE P == SUBSET ((1..k) \X S)
             F == [f \in [1..k -> S] |-> {p \in (1..k) \X S : p[2] = f[p[1]]}]
  <2>1. IsFiniteSet(P)
    <3>1. IsFiniteSet(1..k)
      BY FS_Interval
    <3>2. IsFiniteSet((1..k) \X S)
      BY <3>1, FS_Product
    <3> QED
      BY <3>2, FS_SUBSET
  <2>2. F \in [[1..k -> S] -> P]
    OBVIOUS
  <2>3. ASSUME NEW f \in [1..k -> S], NEW h \in [1..k -> S], F[f] = F[h] PROVE f = h
    <3>1. \A i \in 1..k : <<i, f[i]>> \in F[f]
      OBVIOUS
    <3>2. \A i \in 1..k : <<i, f[i]>> \in F[h]
      BY <2>3, <3>1
    <3>3. \A i \in 1..k : f[i] = h[i]
      BY <3>2
    <3> QED
      BY <3>3
  <2> HIDE DEF F, P
  <2>4. F \in Injection([1..k -> S], P)
    BY <2>2, <2>3 DEF Injection, IsInjective
  <2> QED
    BY <2>1, <2>4, FS_Injection
<1> DEFINE U == {[1..k -> S] : k \in 1..len}
           G == [k \in 1..len |-> [1..k -> S]]
<1>2. IsFiniteSet(1..len)
  BY FS_Interval
<1>3. G \in Surjection(1..len, U)
  <2>1. G \in [1..len -> U]
    OBVIOUS
  <2>2. \A u \in U : \E k \in 1..len : G[k] = u
    OBVIOUS
  <2> HIDE DEF G, U
  <2> QED
    BY <2>1, <2>2 DEF Surjection
<1>4. IsFiniteSet(U)
  <2> HIDE DEF G, U
  <2> QED
    BY <1>2, <1>3, FS_Surjection
<1>5. \A u \in U : IsFiniteSet(u)
  BY <1>1
<1> HIDE DEF U
<1>6. IsFiniteSet(UNION U)
  BY <1>4, <1>5, FS_UNION
<1> QED
  BY <1>6 DEF U
=============================================================================
