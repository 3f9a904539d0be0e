--------------------------- MODULE CacheGcProofs ---------------------------
(***************************************************************************)
(* Proofs about CacheGc for any stores, models, processes, sizes, limits   *)
(* and bounds: leases protect what is open, collections remove only what   *)
(* they verified, and a gc ends within its quota.                          *)
(***************************************************************************)
EXTENDS CacheGc, FiniteSetTheorems, WellFoundedInduction, TLAPS

UserLabels == {"ensure", "touch", "touching", "index_lease", "build", "recheck",
               "manifest", "open_lease", "open", "using", "extract_lease",
               "extract", "model_lease"}
LoopLabels == {"expire", "quota", "clear"}
GcLabels == LoopLabels \cup {"trash", "scan", "move", "delete", "report"}

\* The types the argument needs, and the calls that return where they should.
Shape ==
    /\ dir \in [Entries -> {"none", "bare", "managed"}]
    /\ db \in [Entries -> BOOLEAN]
    /\ lease \in [Entries -> SUBSET Procs]
    /\ xlease \in [Entries -> Procs \cup {None}]
    /\ gcLock \in Procs \cup {None}
    /\ todo \in SUBSET Entries
    /\ victim \in Entries \cup {None}
    /\ pc \in [Procs -> Labels] /\ ret \in [Procs -> Labels]
    /\ cmd \in [Procs -> Commands]
    /\ ent \in [Procs -> Entries \cup {None}]
    /\ \A p \in Procs :
          /\ pc[p] \in UserLabels => ent[p] \in Entries
          /\ pc[p] \in {"touch", "touching"}
                => ret[p] \in {"index_lease", "using", "model_lease"}
          /\ pc[p] \in {"move", "delete"}
                => ret[p] \in LoopLabels /\ victim \in Entries
          /\ pc[p] \in GcLabels => gcLock = p

\* A lease that is held exclusively is held by nobody else, and the process
\* that extracts a model or removes an entry is its holder.
Exclusion ==
    /\ \A e \in Entries : xlease[e] # None => lease[e] = {}
    /\ \A p \in Procs :
          /\ pc[p] = "extract" => xlease[ent[p]] = p
          /\ pc[p] \in {"move", "delete"} => xlease[victim] = p

\* The loop a collection is in, also while it removes an entry.
Loop(p) == IF pc[p] \in {"move", "delete"} THEN ret[p] ELSE pc[p]

\* e may be removed by p: verified, and the current workspace only by clear.
Removable(p, e) == dir[e] = "managed" /\ (cmd[p] = "clear" \/ e # ent[p])

\* What a collection still has to visit, and what it is about to rename, are
\* entries it verified in its scan.
Verified ==
    \A p \in Procs :
        /\ Loop(p) \in LoopLabels =>
              /\ \A e \in todo : Removable(p, e)
              /\ Loop(p) = "clear" <=> cmd[p] = "clear"
        /\ pc[p] \in {"move", "delete"} => victim \notin todo
        /\ pc[p] = "move" => Removable(p, victim)

LeaseInv == Exclusion /\ LeasedKept

\* The types of the rest of the state.  A process that deletes has put what it
\* deletes into the trash, and nobody else has taken it out since.
Stock ==
    /\ last \in [Entries -> Times]
    /\ exists \in [Stores -> BOOLEAN]
    /\ orphan \in [Stores -> Times \cup {Never}]
    /\ trash \in [Entries -> [full : Nat, partial : Nat]]
    /\ gcLast \in Times \cup {Never}
    /\ gc \in [seen : [Entries -> Times \cup {Never}], old : SUBSET Entries,
               remaining : Nat, removed : SUBSET Entries,
               skipped : SUBSET Entries]
    /\ now \in Times /\ faults \in 0..MaxFaults
    /\ \A p \in Procs : pc[p] = "delete" => trash[victim].full > 0

\* The entries a collection has scanned and not removed.
Left == {e \in Entries : gc.seen[e] # Never} \ gc.removed

\* The books of a gc without failures: what it takes to remain is what remains,
\* and every entry that remains is yet to be visited, is being removed, was
\* found in use or is the current workspace.
Balanced ==
    \A p \in Procs :
        Loop(p) \in {"expire", "quota", "report"} /\ cmd[p] # "clear" /\ faults = 0 =>
            /\ gc.remaining = Total(Left)
            /\ todo \subseteq Left
            /\ pc[p] \in {"move", "delete"} => victim \in Left \ todo
            /\ Left \subseteq todo \cup gc.skipped \cup {ent[p]}
                      \cup (IF pc[p] \in {"move", "delete"} THEN {victim} ELSE {})
            /\ pc[p] = "report" /\ High > 0 =>
                  gc.remaining <= High \/ todo = {}

\* The three ways a round of a collection's loop ends: the loop is left, an
\* entry is passed over, or its exclusive lease is taken to remove it.
Leave(p) ==
    /\ \E l \in {"quota", "report"} :
          /\ l = "quota" => pc[p] = "expire"
          /\ pc' = [pc EXCEPT ![p] = l]
    /\ UNCHANGED <<ret, xlease, todo, victim>>

Skip(e) ==
    /\ todo' = todo \ {e}
    /\ UNCHANGED <<pc, ret, xlease, victim>>

Take(p, e) ==
    /\ Unleased(e)
    /\ todo' = todo \ {e}
    /\ victim' = e
    /\ xlease' = [xlease EXCEPT ![e] = p]
    /\ ret' = [ret EXCEPT ![p] = pc[p]]
    /\ pc' = [pc EXCEPT ![p] = "move"]

\* What no round changes.
RoundFrame(p) ==
    /\ pc[p] \in LoopLabels
    /\ UNCHANGED <<dir, db, lease, gcLock, cmd, ent>>

-----------------------------------------------------------------------------
(***************************************************************************)
(* What Total computes.  It is a fold, that is, a recursive function on    *)
(* the subsets of its argument.  Every fact about it is shown by looking   *)
(* at a smallest set on which it would fail: finite sets have no endless   *)
(* descending chain of subsets.                                            *)
(***************************************************************************)

\* The element the fold takes out of s first.
Pick(s) == CHOOSE x \in s : TRUE

\* g satisfies the equation of the recursive function in Total(S).
Sums(S, g) ==
    g = [s \in SUBSET S |-> IF s = {} THEN 0 ELSE Size[Pick(s)] + g[s \ {Pick(s)}]]

\* Total(S) is the value at S of a function chosen to satisfy that equation.
LEMMA TotalIsSum == \A S : Total(S) = (CHOOSE g : Sums(S, g))[S]
  BY DEF Total, MapThenSumSet, MapThenFoldSet, Sums, Pick

\* The element taken out of a set that is not empty is one of its elements.
LEMMA PickIn == ASSUME NEW s, s # {} PROVE Pick(s) \in s
  BY DEF Pick

\* Among some subsets of a finite set there is one that contains no other.
LEMMA Minimal ==
    ASSUME NEW S, IsFiniteSet(S), NEW T, T \subseteq SUBSET S, T # {}
    PROVE  \E s \in T : \A t \in T : t \subseteq s => t = s
<1>1. IsWellFoundedOn(StrictSubsetOrdering(S), SUBSET S)
  BY FS_StrictSubsetOrderingWellFounded, FS_FiniteSubsetsOfFinite
<1>2. PICK s \in T : \A t \in T : ~(<<t, s>> \in StrictSubsetOrdering(S))
  BY <1>1, WFMin
<1> QED
  BY <1>2 DEF StrictSubsetOrdering

\* At most one function satisfies the equation.
LEMMA SumUnique ==
    ASSUME NEW S, IsFiniteSet(S), NEW g, NEW h, Sums(S, g), Sums(S, h)
    PROVE  g = h
<1> DEFINE T == {s \in SUBSET S : g[s] # h[s]}
<1>1. ASSUME T # {} PROVE FALSE
  <2>1. PICK s \in T : \A t \in T : t \subseteq s => t = s
    <3>1. T \subseteq SUBSET S
      OBVIOUS
    <3> HIDE DEF T
    <3> QED
      BY <1>1, <3>1, Minimal
  <2>2. s # {}
    BY <2>1 DEF Sums
  <2>3. s \ {Pick(s)} \notin T
    BY <2>1, <2>2, PickIn
  <2> QED
    BY <2>1, <2>2, <2>3 DEF Sums
<1>2. \A s \in SUBSET S : g[s] = h[s]
  BY <1>1
<1> QED
  BY <1>2 DEF Sums

\* The functions for a set and for a subset of it agree on the subset.
LEMMA SumRestricts ==
    ASSUME NEW S, IsFiniteSet(S), NEW g, Sums(S, g), NEW R \in SUBSET S, NEW h, Sums(R, h)
    PROVE  g[R] = h[R]
<1> DEFINE k == [s \in SUBSET R |-> g[s]]
<1>1. Sums(R, k)
  BY DEF Sums
<1>2. IsFiniteSet(R)
  BY FS_Subset
<1>3. k = h
  BY <1>1, <1>2, SumUnique
<1> QED
  BY <1>3

\* A function that satisfies the equation exists.
LEMMA SumExists ==
    ASSUME NEW S, IsFiniteSet(S)
    PROVE  \E g : Sums(S, g)
<1> DEFINE T == {s \in SUBSET S : ~ \E g : Sums(s, g)}
<1>1. ASSUME T # {} PROVE FALSE
  <2>1. PICK s \in T : \A t \in T : t \subseteq s => t = s
    <3>1. T \subseteq SUBSET S
      OBVIOUS
    <3> HIDE DEF T
    <3> QED
      BY <1>1, <3>1, Minimal
  <2> DEFINE h(t) == CHOOSE g : Sums(t, g)
             sum(t) == h(t)[t]
             f == [t \in SUBSET s |->
                     IF t = {} THEN 0 ELSE Size[Pick(t)] + sum(t \ {Pick(t)})]
  <2>2. ASSUME NEW t \in SUBSET s, t # s PROVE Sums(t, h(t))
    <3>1. \E g : Sums(t, g)
      BY <2>1, <2>2
    <3> QED
      BY <3>1
  <2>3. ASSUME NEW t \in SUBSET s, t # s PROVE f[t] = sum(t)
    <3> DEFINE u == t \ {Pick(t)}
    <3>1. Sums(t, h(t))
      BY <2>2, <2>3
    <3>2. CASE t = {}
      BY <3>1, <3>2 DEF Sums
    <3>3. CASE t # {}
      <4>1. u \in SUBSET s /\ u # s /\ u \in SUBSET t
        BY <2>3
      <4>2. Sums(u, h(u))
        BY <4>1, <2>2
      <4>3. IsFiniteSet(t)
        BY <2>1, FS_Subset
      <4> HIDE DEF u, h
      <4>4. h(t)[u] = h(u)[u]
        BY <3>1, <4>1, <4>2, <4>3, SumRestricts
      <4>5. h(t)[t] = Size[Pick(t)] + h(t)[u]
        BY <3>1, <3>3 DEF Sums, u
      <4>6. f[t] = Size[Pick(t)] + sum(u)
        BY <3>3, <2>3 DEF u
      <4> QED
        BY <4>4, <4>5, <4>6
    <3> QED
      BY <3>2, <3>3
  <2> HIDE DEF sum, h
  <2>4. \A t \in SUBSET s : t # {} => f[t \ {Pick(t)}] = sum(t \ {Pick(t)})
    <3> TAKE t \in SUBSET s
    <3> HAVE t # {}
    <3>1. t \ {Pick(t)} \in SUBSET s /\ t \ {Pick(t)} # s
      BY PickIn
    <3> QED
      BY <3>1, <2>3
  <2>5. Sums(s, f)
    BY <2>4 DEF Sums
  <2> QED
    BY <2>1, <2>5
<1> QED
  BY <1>1

\* So Total satisfies it: the size of the element taken out first, and the rest.
LEMMA TotalStep ==
    ASSUME NEW S \in SUBSET Entries
    PROVE  /\ S = {} => Total(S) = 0
           /\ S # {} => Total(S) = Size[Pick(S)] + Total(S \ {Pick(S)})
<1> DEFINE g == CHOOSE f : Sums(S, f)
<1>1. IsFiniteSet(S)
  BY CacheAssumption, FS_Subset
<1>2. Sums(S, g)
  BY <1>1, SumExists
<1> HIDE DEF g
<1>3. Total(S) = g[S]
  BY TotalIsSum DEF g
<1>4. ASSUME NEW R \in SUBSET S PROVE Total(R) = g[R]
  <2>1. IsFiniteSet(R)
    BY <1>1, FS_Subset
  <2> DEFINE h == CHOOSE f : Sums(R, f)
  <2>2. Sums(R, h)
    BY <2>1, SumExists
  <2>3. Total(R) = h[R]
    BY TotalIsSum
  <2> HIDE DEF h
  <2> QED
    BY <1>1, <1>2, <2>2, <2>3, SumRestricts
<1>5. Total(S \ {Pick(S)}) = g[S \ {Pick(S)}]
  BY <1>4
<1> QED
  BY <1>2, <1>3, <1>5 DEF Sums

\* A sum of sizes is a natural number.
LEMMA TotalNat == ASSUME NEW S \in SUBSET Entries PROVE Total(S) \in Nat
<1> DEFINE T == {s \in SUBSET Entries : Total(s) \notin Nat}
<1>1. ASSUME T # {} PROVE FALSE
  <2>1. PICK s \in T : \A t \in T : t \subseteq s => t = s
    <3>1. T \subseteq SUBSET Entries
      OBVIOUS
    <3> HIDE DEF T
    <3> QED
      BY <1>1, <3>1, CacheAssumption, Minimal
  <2>2. s # {}
    BY <2>1, TotalStep
  <2>3. Pick(s) \in s /\ s \ {Pick(s)} \notin T
    BY <2>1, <2>2, PickIn
  <2>4. Total(s) = Size[Pick(s)] + Total(s \ {Pick(s)})
    BY <2>1, <2>2, TotalStep
  <2>5. Size[Pick(s)] \in Nat /\ Total(s \ {Pick(s)}) \in Nat
    BY <2>1, <2>3, CacheAssumption
  <2> QED
    BY <2>1, <2>4, <2>5
<1> QED
  BY <1>1

\* Any element can be taken out, not only the one the fold takes first.
LEMMA TotalRemove ==
    ASSUME NEW S \in SUBSET Entries, NEW e \in S
    PROVE  Total(S) = Size[e] + Total(S \ {e})
<1> DEFINE Off(s) == {x \in s : Total(s) # Size[x] + Total(s \ {x})}
           T == {s \in SUBSET Entries : Off(s) # {}}
<1>1. ASSUME T # {} PROVE FALSE
  <2>1. PICK s \in T : \A t \in T : t \subseteq s => t = s
    <3>1. T \subseteq SUBSET Entries
      OBVIOUS
    <3> HIDE DEF T
    <3> QED
      BY <1>1, <3>1, CacheAssumption, Minimal
  <2>2. PICK x \in s : Total(s) # Size[x] + Total(s \ {x})
    BY <2>1
  <2> DEFINE y == Pick(s)
  <2>3. y \in s
    BY <2>2, PickIn
  <2>4. Total(s) = Size[y] + Total(s \ {y})
    BY <2>1, <2>2, TotalStep
  <2>5. x # y
    BY <2>2, <2>4
  <2> HIDE DEF y
  <2>6. s \ {x} \notin T /\ s \ {y} \notin T
    BY <2>1, <2>2, <2>3
  <2> DEFINE r == s \ {x, y}
             n == Total(r)
  <2>7. Total(s \ {x}) = Size[y] + n
    <3>1. (s \ {x}) \ {y} = r
      OBVIOUS
    <3> QED
      BY <2>1, <2>3, <2>5, <2>6, <3>1
  <2>8. Total(s \ {y}) = Size[x] + n
    <3>1. (s \ {y}) \ {x} = r
      OBVIOUS
    <3> QED
      BY <2>1, <2>2, <2>5, <2>6, <3>1
  <2>9. Size[x] \in Nat /\ Size[y] \in Nat /\ n \in Nat
    BY <2>1, <2>2, <2>3, CacheAssumption, TotalNat
  <2> HIDE DEF n
  <2> QED
    BY <2>2, <2>4, <2>7, <2>8, <2>9
<1> QED
  BY <1>1

\* As long as something is left to visit, something is the least recently used.
LEMMA OldestExists ==
    ASSUME gc.seen \in [Entries -> Int], NEW S \in SUBSET Entries, S # {}
    PROVE  Oldest(S) # {}
<1> DEFINE T == {s \in SUBSET Entries : s # {} /\ Oldest(s) = {}}
<1>1. ASSUME T # {} PROVE FALSE
  <2>1. PICK s \in T : \A t \in T : t \subseteq s => t = s
    <3>1. T \subseteq SUBSET Entries
      OBVIOUS
    <3> HIDE DEF T
    <3> QED
      BY <1>1, <3>1, CacheAssumption, Minimal
  <2>2. PICK x \in s : TRUE
    BY <2>1
  <2>3. CASE s = {x}
    BY <2>1, <2>3 DEF Oldest
  <2>4. CASE s # {x}
    <3>1. PICK y \in s \ {x} : \A z \in s \ {x} : gc.seen[y] <= gc.seen[z]
      <4>1. s \ {x} \in SUBSET Entries /\ s \ {x} # {} /\ s \ {x} \notin T
        BY <2>1, <2>2, <2>4
      <4>2. Oldest(s \ {x}) # {}
        BY <4>1
      <4> QED
        BY <4>2 DEF Oldest
    <3>2. x \in Oldest(s) \/ y \in Oldest(s)
      BY <2>1, <2>2, <3>1 DEF Oldest
    <3> QED
      BY <2>1, <3>2
  <2> QED
    BY <2>3, <2>4
<1> QED
  BY <1>1
-----------------------------------------------------------------------------
(* The invariant, step by step. *)

\* A round of any of the three loops is one of the three.
LEMMA RoundCases ==
    ASSUME NEW p \in Procs, Expire(p) \/ Quota(p) \/ Clear(p)
    PROVE  /\ RoundFrame(p)
           /\ Leave(p) \/ \E e \in todo : Skip(e) \/ Take(p, e)
<1> DEFINE Goal == /\ RoundFrame(p)
                   /\ Leave(p) \/ \E e \in todo : Skip(e) \/ Take(p, e)
<1>1. ASSUME NEW l \in LoopLabels, NEW S \in SUBSET todo,
             NEW next \in {"quota", "report"}, next = "quota" => l = "expire",
             Round(p, l, S, next)
      PROVE  Goal
  <2>1. RoundFrame(p)
    BY <1>1 DEF Round, RoundFrame, disk
  <2>2. CASE S = {} /\ Goto(p, next) /\ UNCHANGED <<xlease, pass>>
    BY <1>1, <2>1, <2>2 DEF Round, Goto, Leave, pass
  <2>3. ASSUME NEW e \in S, TryRemove(p, e) PROVE Goal
    <3>1. Skip(e) \/ Take(p, e)
      BY <2>3 DEF TryRemove, Skip, Take
    <3> QED
      BY <2>1, <3>1
  <2> QED
    BY <1>1, <2>2, <2>3 DEF Round
<1>2. CASE Expire(p)
  <2>1. Oldest(todo \cap gc.old) \in SUBSET todo
    BY DEF Oldest
  <2> QED
    BY <1>1, <1>2, <2>1 DEF Expire, LoopLabels
<1>3. CASE Quota(p)
  <2>1. (IF gc.remaining <= Low THEN {} ELSE Oldest(todo)) \in SUBSET todo
    BY DEF Oldest
  <2> QED
    BY <1>1, <1>3, <2>1 DEF Quota, LoopLabels
<1>4. CASE Clear(p)
  BY <1>1, <1>4 DEF Clear, LoopLabels
<1> QED
  BY <1>2, <1>3, <1>4

\* Every step keeps the types, the return labels and the collection lock.
LEMMA ShapeStep == Shape /\ [Next]_vars => Shape'
<1> SUFFICES ASSUME Shape, [Next]_vars PROVE Shape'
  OBVIOUS
<1> USE CacheAssumption
<1> USE DEF Shape, UserLabels, LoopLabels, GcLabels, Labels, Commands,
            Collections, Entries
<1>1. ASSUME NEW p \in Procs, NEW s \in Stores, StartIndex(p, s) PROVE Shape'
  BY <1>1 DEF StartIndex, Begin, disk, locks, pass, world
<1>2. ASSUME NEW p \in Procs, TouchCheck(p) PROVE Shape'
  BY <1>2 DEF TouchCheck, Goto, disk, locks, pass, world
<1>3. ASSUME NEW p \in Procs, TouchWrite(p) PROVE Shape'
  BY <1>3 DEF TouchWrite, Goto, disk, locks, pass, world
<1>4. ASSUME NEW p \in Procs, Ensure(p) PROVE Shape'
  BY <1>4 DEF Ensure, MakeDir, CallTouch, disk, locks, pass, world
<1>5. ASSUME NEW p \in Procs, IndexLease(p) PROVE Shape'
  BY <1>5 DEF IndexLease, LeaseFor, Goto, disk, locks, pass, world
<1>6. ASSUME NEW p \in Procs, Build(p) PROVE Shape'
  <2>1. ent[p] \in Entries
    BY <1>6 DEF Build
  <2>2. db' \in [Entries -> BOOLEAN]
    BY <1>6, <2>1 DEF Build
  <2>3. CASE cmd[p] = "query"
    <3>1. /\ lease' = [lease EXCEPT ![ent[p]] = @ \ {p}]
          /\ pc[p] = "build" /\ pc' = [pc EXCEPT ![p] = "recheck"]
          /\ UNCHANGED <<dir, xlease, gcLock, todo, victim, ret, cmd, ent>>
      BY <1>6, <2>3 DEF Build, Goto, disk, locks, pass, world
    <3> QED
      BY <2>1, <2>2, <3>1
  <2>4. CASE cmd[p] # "query"
    <3>1. pc[p] = "build" /\ End(p) /\ UNCHANGED dir
      BY <1>6, <2>4 DEF Build
    <3> QED
      BY <2>2, <3>1 DEF End
  <2> QED
    BY <2>3, <2>4
<1>7. ASSUME NEW p \in Procs, NEW s \in Stores, StartQuery(p, s) PROVE Shape'
  BY <1>7 DEF StartQuery, Begin, MakeDir, disk, locks, pass, world
<1>8. ASSUME NEW p \in Procs, Recheck(p) PROVE Shape'
  BY <1>8 DEF Recheck, Goto, End, disk, locks, pass, world
<1>9. ASSUME NEW p \in Procs, ReadManifest(p) PROVE Shape'
  BY <1>9 DEF ReadManifest, Goto, disk, locks, pass, world
<1>10. ASSUME NEW p \in Procs, OpenLease(p) PROVE Shape'
  BY <1>10 DEF OpenLease, LeaseFor, Goto, disk, locks, pass, world
<1>11. ASSUME NEW p \in Procs, Open(p) PROVE Shape'
  BY <1>11 DEF Open, CallTouch, Goto, End, disk, locks, pass, world
<1>12. ASSUME NEW p \in Procs, Close(p) PROVE Shape'
  BY <1>12 DEF Close, End, disk, locks, pass, world
<1>13. ASSUME NEW p \in Procs, NEW m \in Models, StartModel(p, m) PROVE Shape'
  BY <1>13 DEF StartModel, MakeDir, CallTouch, disk, locks, pass, world
<1>14. ASSUME NEW p \in Procs, ExtractLease(p) PROVE Shape'
  BY <1>14 DEF ExtractLease, Goto, disk, locks, pass, world
<1>15. ASSUME NEW p \in Procs, Extract(p) PROVE Shape'
  BY <1>15 DEF Extract, CallTouch, disk, locks, pass, world
<1>16. ASSUME NEW p \in Procs, ExtractFails(p) PROVE Shape'
  BY <1>16 DEF ExtractFails, MakeDir, End, disk, locks, pass, world
<1>17. ASSUME NEW p \in Procs, ModelLease(p) PROVE Shape'
  BY <1>17 DEF ModelLease, LeaseFor, Goto, disk, locks, pass, world
<1>18. ASSUME NEW p \in Procs, NEW c \in Kinds, NEW s \in Stores \cup {None},
              StartGc(p, c, s)
       PROVE  Shape'
  BY <1>18 DEF StartGc, Begin, disk, locks, pass, world
<1>19. ASSUME NEW p \in Procs, GcLock(p) PROVE Shape'
  BY <1>19 DEF GcLock, Goto, disk, locks, pass, world
<1>20. ASSUME NEW p \in Procs, GcThrottled(p) PROVE Shape'
  BY <1>20 DEF GcThrottled, End, disk, locks, pass, world
<1>21. ASSUME NEW p \in Procs, CleanTrash(p) PROVE Shape'
  BY <1>21 DEF CleanTrash, disk, locks, pass, world
<1>22. ASSUME NEW p \in Procs, CleanTrashDone(p) PROVE Shape'
  BY <1>22 DEF CleanTrashDone, Goto, disk, locks, pass, world
<1>23. ASSUME NEW p \in Procs, Scan(p) PROVE Shape'
  BY <1>23 DEF Scan, Goto, Eligible, Managed, disk, locks, pass, world
<1>24. ASSUME NEW p \in Procs, Expire(p) \/ Quota(p) \/ Clear(p) PROVE Shape'
  <2>1. RoundFrame(p)
    BY <1>24, RoundCases
  <2>2. CASE Leave(p)
    BY <2>1, <2>2 DEF RoundFrame, Leave
  <2>3. ASSUME NEW e \in todo, Skip(e) PROVE Shape'
    BY <2>1, <2>3 DEF RoundFrame, Skip
  <2>4. ASSUME NEW e \in todo, Take(p, e) PROVE Shape'
    BY <2>1, <2>4 DEF RoundFrame, Take, Unleased
  <2> QED
    BY <1>24, <2>2, <2>3, <2>4, RoundCases
<1>25. ASSUME NEW p \in Procs, MoveToTrash(p) PROVE Shape'
  BY <1>25 DEF MoveToTrash, Goto, disk, locks, pass, world
<1>26. ASSUME NEW p \in Procs, Delete(p) PROVE Shape'
  BY <1>26 DEF Delete, NextEntry, disk, locks, pass, world
<1>27. ASSUME NEW p \in Procs, GcDone(p) PROVE Shape'
  BY <1>27 DEF GcDone, End, disk, locks, pass, world
<1>28. ASSUME NEW p \in Procs, CleanTrashFails(p) PROVE Shape'
  BY <1>28 DEF CleanTrashFails, disk, locks, pass, world
<1>29. ASSUME NEW p \in Procs, MoveFails(p) PROVE Shape'
  BY <1>29 DEF MoveFails, End, disk, locks, pass, world
<1>30. ASSUME NEW p \in Procs, DeleteFails(p) PROVE Shape'
  BY <1>30 DEF DeleteFails, NextEntry, End, disk, locks, pass, world
<1>31. ASSUME NEW p \in Procs, Crash(p) PROVE Shape'
  BY <1>31 DEF Crash, End, disk, locks, pass, world
<1>32. CASE Tick
  BY <1>32 DEF Tick, disk, locks, pass, world
<1>33. ASSUME NEW s \in Stores, RootChanges(s) PROVE Shape'
  BY <1>33 DEF RootChanges, disk, locks, pass, world
<1>34. CASE UNCHANGED vars
  BY <1>34 DEF vars, disk, locks, pass, world
<1> QED
  BY <1>1, <1>2, <1>3, <1>4, <1>5, <1>6, <1>7, <1>8, <1>9, <1>10, <1>11,
     <1>12, <1>13, <1>14, <1>15, <1>16, <1>17, <1>18, <1>19, <1>20, <1>21,
     <1>22, <1>23, <1>24, <1>25, <1>26, <1>27, <1>28, <1>29, <1>30, <1>31,
     <1>32, <1>33, <1>34
  DEF Next, Start, UserStep, GcStep, Fault

\* Every step keeps shared and exclusive leases apart, and what is open under
\* a shared one in place.
LEMMA LeaseStep == Shape /\ Shape' /\ LeaseInv /\ [Next]_vars => LeaseInv'
<1> SUFFICES ASSUME Shape, Shape', LeaseInv, [Next]_vars PROVE LeaseInv'
  OBVIOUS
<1> USE CacheAssumption
<1> USE DEF Shape, LeaseInv, Exclusion, LeasedKept, Opened, UserLabels,
            LoopLabels, GcLabels, Entries
<1>1. ASSUME NEW p \in Procs, NEW s \in Stores, StartIndex(p, s) PROVE LeaseInv'
  BY <1>1 DEF StartIndex, Begin, disk, locks, pass, world
<1>2. ASSUME NEW p \in Procs, TouchCheck(p) PROVE LeaseInv'
  BY <1>2 DEF TouchCheck, Goto, disk, locks, pass, world
<1>3. ASSUME NEW p \in Procs, TouchWrite(p) PROVE LeaseInv'
  BY <1>3 DEF TouchWrite, Goto, disk, locks, pass, world
<1>4. ASSUME NEW p \in Procs, Ensure(p) PROVE LeaseInv'
  BY <1>4 DEF Ensure, MakeDir, CallTouch, disk, locks, pass, world
<1>5. ASSUME NEW p \in Procs, IndexLease(p) PROVE LeaseInv'
  BY <1>5 DEF IndexLease, LeaseFor, Goto, disk, locks, pass, world
<1>6. ASSUME NEW p \in Procs, Build(p) PROVE LeaseInv'
  BY <1>6 DEF Build, Goto, End, disk, locks, pass, world
<1>7. ASSUME NEW p \in Procs, NEW s \in Stores, StartQuery(p, s) PROVE LeaseInv'
  BY <1>7 DEF StartQuery, Begin, MakeDir, disk, locks, pass, world
<1>8. ASSUME NEW p \in Procs, Recheck(p) PROVE LeaseInv'
  BY <1>8 DEF Recheck, Goto, End, disk, locks, pass, world
<1>9. ASSUME NEW p \in Procs, ReadManifest(p) PROVE LeaseInv'
  BY <1>9 DEF ReadManifest, Goto, disk, locks, pass, world
<1>10. ASSUME NEW p \in Procs, OpenLease(p) PROVE LeaseInv'
  BY <1>10 DEF OpenLease, LeaseFor, Goto, disk, locks, pass, world
<1>11. ASSUME NEW p \in Procs, Open(p) PROVE LeaseInv'
  BY <1>11 DEF Open, CallTouch, Goto, End, disk, locks, pass, world
<1>12. ASSUME NEW p \in Procs, Close(p) PROVE LeaseInv'
  BY <1>12 DEF Close, End, disk, locks, pass, world
<1>13. ASSUME NEW p \in Procs, NEW m \in Models, StartModel(p, m) PROVE LeaseInv'
  BY <1>13 DEF StartModel, MakeDir, CallTouch, disk, locks, pass, world
<1>14. ASSUME NEW p \in Procs, ExtractLease(p) PROVE LeaseInv'
  BY <1>14 DEF ExtractLease, Goto, disk, locks, pass, world
<1>15. ASSUME NEW p \in Procs, Extract(p) PROVE LeaseInv'
  BY <1>15 DEF Extract, CallTouch, disk, locks, pass, world
<1>16. ASSUME NEW p \in Procs, ExtractFails(p) PROVE LeaseInv'
  BY <1>16 DEF ExtractFails, MakeDir, End, disk, locks, pass, world
<1>17. ASSUME NEW p \in Procs, ModelLease(p) PROVE LeaseInv'
  BY <1>17 DEF ModelLease, LeaseFor, Goto, disk, locks, pass, world
<1>18. ASSUME NEW p \in Procs, NEW c \in Kinds, NEW s \in Stores \cup {None},
              StartGc(p, c, s)
       PROVE  LeaseInv'
  BY <1>18 DEF StartGc, Begin, disk, locks, pass, world
<1>19. ASSUME NEW p \in Procs, GcLock(p) PROVE LeaseInv'
  BY <1>19 DEF GcLock, Goto, disk, locks, pass, world
<1>20. ASSUME NEW p \in Procs, GcThrottled(p) PROVE LeaseInv'
  BY <1>20 DEF GcThrottled, End, disk, locks, pass, world
<1>21. ASSUME NEW p \in Procs, CleanTrash(p) PROVE LeaseInv'
  BY <1>21 DEF CleanTrash, disk, locks, pass, world
<1>22. ASSUME NEW p \in Procs, CleanTrashDone(p) PROVE LeaseInv'
  BY <1>22 DEF CleanTrashDone, Goto, disk, locks, pass, world
<1>23. ASSUME NEW p \in Procs, Scan(p) PROVE LeaseInv'
  BY <1>23 DEF Scan, Goto, Eligible, Managed, disk, locks, pass, world
<1>24. ASSUME NEW p \in Procs, Expire(p) \/ Quota(p) \/ Clear(p) PROVE LeaseInv'
  <2>1. RoundFrame(p)
    BY <1>24, RoundCases
  <2>2. CASE Leave(p)
    BY <2>1, <2>2 DEF RoundFrame, Leave
  <2>3. ASSUME NEW e \in todo, Skip(e) PROVE LeaseInv'
    BY <2>1, <2>3 DEF RoundFrame, Skip
  <2>4. ASSUME NEW e \in todo, Take(p, e) PROVE LeaseInv'
    BY <2>1, <2>4 DEF RoundFrame, Take, Unleased
  <2> QED
    BY <1>24, <2>2, <2>3, <2>4, RoundCases
<1>25. ASSUME NEW p \in Procs, MoveToTrash(p) PROVE LeaseInv'
  BY <1>25 DEF MoveToTrash, Goto, disk, locks, pass, world
<1>26. ASSUME NEW p \in Procs, Delete(p) PROVE LeaseInv'
  BY <1>26 DEF Delete, NextEntry, disk, locks, pass, world
<1>27. ASSUME NEW p \in Procs, GcDone(p) PROVE LeaseInv'
  BY <1>27 DEF GcDone, End, disk, locks, pass, world
<1>28. ASSUME NEW p \in Procs, CleanTrashFails(p) PROVE LeaseInv'
  BY <1>28 DEF CleanTrashFails, disk, locks, pass, world
<1>29. ASSUME NEW p \in Procs, MoveFails(p) PROVE LeaseInv'
  BY <1>29 DEF MoveFails, End, disk, locks, pass, world
<1>30. ASSUME NEW p \in Procs, DeleteFails(p) PROVE LeaseInv'
  BY <1>30 DEF DeleteFails, NextEntry, End, disk, locks, pass, world
<1>31. ASSUME NEW p \in Procs, Crash(p) PROVE LeaseInv'
  BY <1>31 DEF Crash, End, disk, locks, pass, world
<1>32. CASE Tick
  BY <1>32 DEF Tick, disk, locks, pass, world
<1>33. ASSUME NEW s \in Stores, RootChanges(s) PROVE LeaseInv'
  BY <1>33 DEF RootChanges, disk, locks, pass, world
<1>34. CASE UNCHANGED vars
  BY <1>34 DEF vars, disk, locks, pass, world
<1> QED
  BY <1>1, <1>2, <1>3, <1>4, <1>5, <1>6, <1>7, <1>8, <1>9, <1>10, <1>11,
     <1>12, <1>13, <1>14, <1>15, <1>16, <1>17, <1>18, <1>19, <1>20, <1>21,
     <1>22, <1>23, <1>24, <1>25, <1>26, <1>27, <1>28, <1>29, <1>30, <1>31,
     <1>32, <1>33, <1>34
  DEF Next, Start, UserStep, GcStep, Fault

\* Every step keeps what a collection is going to remove verified.
LEMMA VerifiedStep == Shape /\ Shape' /\ Verified /\ [Next]_vars => Verified'
<1> SUFFICES ASSUME Shape, Shape', Verified, [Next]_vars PROVE Verified'
  OBVIOUS
<1> USE CacheAssumption
<1> USE DEF Shape, Verified, Loop, Removable, UserLabels, LoopLabels, GcLabels,
            Entries
<1>1. ASSUME NEW p \in Procs, NEW s \in Stores, StartIndex(p, s) PROVE Verified'
  BY <1>1 DEF StartIndex, Begin, disk, locks, pass, world
<1>2. ASSUME NEW p \in Procs, TouchCheck(p) PROVE Verified'
  BY <1>2 DEF TouchCheck, Goto, disk, locks, pass, world
<1>3. ASSUME NEW p \in Procs, TouchWrite(p) PROVE Verified'
  BY <1>3 DEF TouchWrite, Goto, disk, locks, pass, world
<1>4. ASSUME NEW p \in Procs, Ensure(p) PROVE Verified'
  BY <1>4 DEF Ensure, MakeDir, CallTouch, disk, locks, pass, world
<1>5. ASSUME NEW p \in Procs, IndexLease(p) PROVE Verified'
  BY <1>5 DEF IndexLease, LeaseFor, Goto, disk, locks, pass, world
<1>6. ASSUME NEW p \in Procs, Build(p) PROVE Verified'
  BY <1>6 DEF Build, Goto, End, disk, locks, pass, world
<1>7. ASSUME NEW p \in Procs, NEW s \in Stores, StartQuery(p, s) PROVE Verified'
  BY <1>7 DEF StartQuery, Begin, MakeDir, disk, locks, pass, world
<1>8. ASSUME NEW p \in Procs, Recheck(p) PROVE Verified'
  BY <1>8 DEF Recheck, Goto, End, disk, locks, pass, world
<1>9. ASSUME NEW p \in Procs, ReadManifest(p) PROVE Verified'
  BY <1>9 DEF ReadManifest, Goto, disk, locks, pass, world
<1>10. ASSUME NEW p \in Procs, OpenLease(p) PROVE Verified'
  BY <1>10 DEF OpenLease, LeaseFor, Goto, disk, locks, pass, world
<1>11. ASSUME NEW p \in Procs, Open(p) PROVE Verified'
  BY <1>11 DEF Open, CallTouch, Goto, End, disk, locks, pass, world
<1>12. ASSUME NEW p \in Procs, Close(p) PROVE Verified'
  BY <1>12 DEF Close, End, disk, locks, pass, world
<1>13. ASSUME NEW p \in Procs, NEW m \in Models, StartModel(p, m) PROVE Verified'
  BY <1>13 DEF StartModel, MakeDir, CallTouch, disk, locks, pass, world
<1>14. ASSUME NEW p \in Procs, ExtractLease(p) PROVE Verified'
  BY <1>14 DEF ExtractLease, Goto, disk, locks, pass, world
<1>15. ASSUME NEW p \in Procs, Extract(p) PROVE Verified'
  BY <1>15 DEF Extract, CallTouch, disk, locks, pass, world
<1>16. ASSUME NEW p \in Procs, ExtractFails(p) PROVE Verified'
  BY <1>16 DEF ExtractFails, MakeDir, End, disk, locks, pass, world
<1>17. ASSUME NEW p \in Procs, ModelLease(p) PROVE Verified'
  BY <1>17 DEF ModelLease, LeaseFor, Goto, disk, locks, pass, world
<1>18. ASSUME NEW p \in Procs, NEW c \in Kinds, NEW s \in Stores \cup {None},
              StartGc(p, c, s)
       PROVE  Verified'
  BY <1>18 DEF StartGc, Begin, disk, locks, pass, world
<1>19. ASSUME NEW p \in Procs, GcLock(p) PROVE Verified'
  BY <1>19 DEF GcLock, Goto, disk, locks, pass, world
<1>20. ASSUME NEW p \in Procs, GcThrottled(p) PROVE Verified'
  BY <1>20 DEF GcThrottled, End, disk, locks, pass, world
<1>21. ASSUME NEW p \in Procs, CleanTrash(p) PROVE Verified'
  BY <1>21 DEF CleanTrash, disk, locks, pass, world
<1>22. ASSUME NEW p \in Procs, CleanTrashDone(p) PROVE Verified'
  BY <1>22 DEF CleanTrashDone, Goto, disk, locks, pass, world
<1>23. ASSUME NEW p \in Procs, Scan(p) PROVE Verified'
  BY <1>23 DEF Scan, Goto, Eligible, Managed, disk, locks, pass, world
<1>24. ASSUME NEW p \in Procs, Expire(p) \/ Quota(p) \/ Clear(p) PROVE Verified'
  <2>1. RoundFrame(p)
    BY <1>24, RoundCases
  <2>2. CASE Leave(p)
    BY <2>1, <2>2 DEF RoundFrame, Leave
  <2>3. ASSUME NEW e \in todo, Skip(e) PROVE Verified'
    BY <2>1, <2>3 DEF RoundFrame, Skip
  <2>4. ASSUME NEW e \in todo, Take(p, e) PROVE Verified'
    BY <2>1, <2>4 DEF RoundFrame, Take, Unleased
  <2> QED
    BY <1>24, <2>2, <2>3, <2>4, RoundCases
<1>25. ASSUME NEW p \in Procs, MoveToTrash(p) PROVE Verified'
  BY <1>25 DEF MoveToTrash, Goto, disk, locks, pass, world
<1>26. ASSUME NEW p \in Procs, Delete(p) PROVE Verified'
  BY <1>26 DEF Delete, NextEntry, disk, locks, pass, world
<1>27. ASSUME NEW p \in Procs, GcDone(p) PROVE Verified'
  BY <1>27 DEF GcDone, End, disk, locks, pass, world
<1>28. ASSUME NEW p \in Procs, CleanTrashFails(p) PROVE Verified'
  BY <1>28 DEF CleanTrashFails, disk, locks, pass, world
<1>29. ASSUME NEW p \in Procs, MoveFails(p) PROVE Verified'
  BY <1>29 DEF MoveFails, End, disk, locks, pass, world
<1>30. ASSUME NEW p \in Procs, DeleteFails(p) PROVE Verified'
  BY <1>30 DEF DeleteFails, NextEntry, End, disk, locks, pass, world
<1>31. ASSUME NEW p \in Procs, Crash(p) PROVE Verified'
  BY <1>31 DEF Crash, End, disk, locks, pass, world
<1>32. CASE Tick
  BY <1>32 DEF Tick, disk, locks, pass, world
<1>33. ASSUME NEW s \in Stores, RootChanges(s) PROVE Verified'
  BY <1>33 DEF RootChanges, disk, locks, pass, world
<1>34. CASE UNCHANGED vars
  BY <1>34 DEF vars, disk, locks, pass, world
<1> QED
  BY <1>1, <1>2, <1>3, <1>4, <1>5, <1>6, <1>7, <1>8, <1>9, <1>10, <1>11,
     <1>12, <1>13, <1>14, <1>15, <1>16, <1>17, <1>18, <1>19, <1>20, <1>21,
     <1>22, <1>23, <1>24, <1>25, <1>26, <1>27, <1>28, <1>29, <1>30, <1>31,
     <1>32, <1>33, <1>34
  DEF Next, Start, UserStep, GcStep, Fault

\* The initial state satisfies the three parts of the invariant.
LEMMA InitInv == Init => Shape /\ LeaseInv /\ Verified
  BY CacheAssumption
  DEF Init, Shape, LeaseInv, Exclusion, LeasedKept, Opened, Verified, Loop,
      Removable, UserLabels, LoopLabels, GcLabels, Labels, Commands, Collections,
      Entries

\* What a process has open under a lease is never renamed away by a collection,
\* however old the scan is that the collection acts on.
THEOREM LeasedIsKept == Spec => []LeasedKept
<1>1. Shape /\ LeaseInv /\ [Next]_vars => (Shape /\ LeaseInv)'
  BY ShapeStep, LeaseStep
<1>2. LeaseInv => LeasedKept
  BY DEF LeaseInv
<1> QED
  BY <1>1, <1>2, InitInv, PTL DEF Spec

\* One step removes only verified entries, and gc not the current workspace.
LEMMA RemovalStep ==
    ASSUME Shape, Verified, [Next]_vars, NEW e \in Entries,
           dir[e] # "none", dir'[e] = "none"
    PROVE  dir[e] = "managed" /\ (cmd[gcLock] = "clear" \/ e # ent[gcLock])
<1> DEFINE Goal == dir[e] = "managed" /\ (cmd[gcLock] = "clear" \/ e # ent[gcLock])
<1> SUFFICES Goal
  OBVIOUS
<1> USE CacheAssumption
<1> USE DEF Shape, UserLabels, LoopLabels, GcLabels, Entries
<1>1. ASSUME NEW p \in Procs, Start(p) PROVE Goal
  BY <1>1 DEF Start, StartIndex, StartQuery, StartModel, StartGc, MakeDir, disk
<1>2. ASSUME NEW p \in Procs, TouchWrite(p) \/ Ensure(p) \/ Extract(p) \/ ExtractFails(p)
      PROVE Goal
  BY <1>2 DEF TouchWrite, Ensure, Extract, ExtractFails, MakeDir
<1>3. ASSUME NEW p \in Procs, UserStep(p),
             ~(TouchWrite(p) \/ Ensure(p) \/ Extract(p) \/ ExtractFails(p))
      PROVE Goal
  BY <1>3 DEF UserStep, TouchCheck, IndexLease, LeaseFor, Build, Recheck,
     ReadManifest, OpenLease, Open, Close, ExtractLease, ModelLease, disk
<1>4. ASSUME NEW p \in Procs, MoveToTrash(p) PROVE Goal
  BY <1>4 DEF MoveToTrash, Verified, Removable
<1>5. ASSUME NEW p \in Procs, GcStep(p), ~MoveToTrash(p) PROVE Goal
  BY <1>5, RoundCases DEF GcStep, GcLock, GcThrottled, CleanTrash, CleanTrashDone,
     Scan, RoundFrame, Delete, GcDone, disk
<1>6. ASSUME NEW p \in Procs, Fault(p) PROVE Goal
  BY <1>6 DEF Fault, CleanTrashFails, MoveFails, DeleteFails, Crash, disk
<1>7. CASE Tick \/ \E s \in Stores : RootChanges(s)
  BY <1>7 DEF Tick, RootChanges, disk
<1>8. CASE UNCHANGED vars
  BY <1>8 DEF vars
<1> QED
  BY <1>1, <1>2, <1>3, <1>4, <1>5, <1>6, <1>7, <1>8 DEF Next

\* A collection removes only directories with a valid manifest or marker, and
\* gc never the workspace it is run for.
THEOREM RemovesOnlyVerified == Spec => OnlyVerifiedRemoved
<1>1. Shape /\ Verified /\ [Next]_vars => (Shape /\ Verified)'
  BY ShapeStep, VerifiedStep
<1>2. Shape /\ Verified /\ [Next]_vars =>
        [\A e \in Entries : dir[e] # "none" /\ dir'[e] = "none" =>
            /\ dir[e] = "managed"
            /\ cmd[gcLock] = "clear" \/ e # ent[gcLock]]_vars
  BY RemovalStep
<1> QED
  BY <1>1, <1>2, InitInv, PTL DEF Spec, OnlyVerifiedRemoved

\* What a round does to the books of the collection: the loop is left because
\* nothing is over the limit or nothing is left to visit, or an entry is found
\* in use, counted as removed (by a dry run), or taken for removal.
LeaveBooks(p) ==
    /\ UNCHANGED <<gc, todo, victim, ret>>
    /\ \/ pc[p] = "expire" /\ OverQuota /\ pc' = [pc EXCEPT ![p] = "quota"]
       \/ /\ \/ pc[p] = "expire" /\ ~OverQuota
             \/ pc[p] = "quota" /\ (gc.remaining <= Low \/ Oldest(todo) = {})
             \/ pc[p] = "clear"
          /\ pc' = [pc EXCEPT ![p] = "report"]

InUse(e) ==
    /\ gc' = [gc EXCEPT !.skipped = @ \cup {e}]
    /\ UNCHANGED <<victim, pc, ret>>

CountRemoved(e) ==
    /\ gc' = [gc EXCEPT !.removed = @ \cup {e}, !.remaining = Freed(e)]
    /\ UNCHANGED <<victim, pc, ret>>

TakeBooks(p, e) ==
    /\ victim' = e
    /\ ret' = [ret EXCEPT ![p] = pc[p]]
    /\ pc' = [pc EXCEPT ![p] = "move"]
    /\ UNCHANGED gc

\* A round of any of the three loops is one of these, and touches nothing else
\* of what a collection counts.
LEMMA RoundBooks ==
    ASSUME NEW p \in Procs, Expire(p) \/ Quota(p) \/ Clear(p)
    PROVE  /\ pc[p] \in LoopLabels
           /\ UNCHANGED <<last, exists, orphan, trash, gcLast, now, faults, cmd, ent>>
           /\ \/ LeaveBooks(p)
              \/ \E e \in todo : /\ todo' = todo \ {e}
                                 /\ InUse(e) \/ CountRemoved(e) \/ TakeBooks(p, e)
<1> DEFINE Entry(e) == /\ todo' = todo \ {e}
                       /\ InUse(e) \/ CountRemoved(e) \/ TakeBooks(p, e)
<1>1. ASSUME NEW e, TryRemove(p, e) PROVE Entry(e)
  BY <1>1 DEF TryRemove, InUse, CountRemoved, TakeBooks
<1> HIDE DEF Entry
<1>2. pc[p] \in LoopLabels
  BY DEF Expire, Quota, Clear, Round, LoopLabels
<1>3. UNCHANGED <<last, exists, orphan, trash, gcLast, now, faults, cmd, ent>>
  BY DEF Expire, Quota, Clear, Round, disk, world
<1>4. CASE Expire(p)
  <2> DEFINE S == Oldest(todo \cap gc.old)
             next == IF OverQuota THEN "quota" ELSE "report"
  <2>1. S \subseteq todo
    BY DEF Oldest
  <2>2. /\ pc[p] = "expire"
        /\ (\E e \in S : TryRemove(p, e)) \/ (Goto(p, next) /\ UNCHANGED <<xlease, pass>>)
    BY <1>4 DEF Expire, Round
  <2>3. CASE Goto(p, next) /\ UNCHANGED <<xlease, pass>>
    <3>1. LeaveBooks(p)
      BY <2>2, <2>3 DEF LeaveBooks, Goto, pass
    <3> QED
      BY <1>2, <1>3, <3>1
  <2> QED
    BY <1>1, <1>2, <1>3, <2>1, <2>2, <2>3 DEF Entry
<1>5. CASE Quota(p)
  <2> DEFINE S == IF gc.remaining <= Low THEN {} ELSE Oldest(todo)
  <2>1. S \subseteq todo
    BY DEF Oldest
  <2>2. /\ pc[p] = "quota"
        /\ \/ \E e \in S : TryRemove(p, e)
           \/ S = {} /\ Goto(p, "report") /\ UNCHANGED <<xlease, pass>>
    BY <1>5 DEF Quota, Round
  <2>3. CASE S = {} /\ Goto(p, "report") /\ UNCHANGED <<xlease, pass>>
    <3>1. LeaveBooks(p)
      BY <2>2, <2>3 DEF LeaveBooks, Goto, pass
    <3> QED
      BY <1>2, <1>3, <3>1
  <2> QED
    BY <1>1, <1>2, <1>3, <2>1, <2>2, <2>3 DEF Entry
<1>6. CASE Clear(p)
  <2>1. /\ pc[p] = "clear"
        /\ \/ \E e \in todo : TryRemove(p, e)
           \/ Goto(p, "report") /\ UNCHANGED <<xlease, pass>>
    BY <1>6 DEF Clear, Round
  <2>2. CASE Goto(p, "report") /\ UNCHANGED <<xlease, pass>>
    <3>1. LeaveBooks(p)
      BY <2>1, <2>2 DEF LeaveBooks, Goto, pass
    <3> QED
      BY <1>2, <1>3, <3>1
  <2> QED
    BY <1>1, <1>2, <1>3, <2>1, <2>2 DEF Entry
<1> QED
  BY <1>4, <1>5, <1>6

\* A pass that has read nothing yet.
LEMMA NoPassType ==
    NoPass \in [seen : [Entries -> Times \cup {Never}], old : SUBSET Entries,
                remaining : Nat, removed : SUBSET Entries, skipped : SUBSET Entries]
  BY DEF NoPass

\* Every step keeps the rest of the types, and what is being deleted in the trash.
LEMMA StockStep == Shape /\ Shape' /\ Stock /\ [Next]_vars => Stock'
<1> SUFFICES ASSUME Shape, Shape', Stock, [Next]_vars PROVE Stock'
  OBVIOUS
<1> USE CacheAssumption
<1> DEFINE G == [seen : [Entries -> Times \cup {Never}], old : SUBSET Entries,
                 remaining : Nat, removed : SUBSET Entries,
                 skipped : SUBSET Entries]
           Deleting == \A q \in Procs : pc'[q] = "delete" =>
                          pc[q] = "delete" /\ victim' = victim
           Rest == UNCHANGED <<exists, orphan, trash, gcLast, now, faults>>
<1>1. gc \in G /\ NoPass \in G
  BY NoPassType DEF Stock
<1> HIDE DEF G
<1>2. ASSUME Rest, Deleting, gc' \in G, last' \in [Entries -> Times] PROVE Stock'
  BY <1>1, <1>2 DEF Stock, G
<1>3. ASSUME NEW p \in Procs, End(p) PROVE gc' \in G /\ Deleting
  BY <1>1, <1>3 DEF End, Shape, GcLabels, LoopLabels
<1>4. now \in Times /\ last \in [Entries -> Times]
  BY DEF Stock
<1>5. ASSUME NEW p \in Procs, Start(p) PROVE Stock'
  <2>1. Rest /\ gc' = gc
    BY <1>5 DEF Start, StartIndex, StartQuery, StartModel, StartGc, disk, locks, pass,
       world
  <2>2. last' \in [Entries -> Times]
    BY <1>4, <1>5 DEF Start, StartIndex, StartQuery, StartModel, StartGc, MakeDir, disk
  <2>3. Deleting
    BY <1>5 DEF Start, StartIndex, StartQuery, StartModel, StartGc, Begin, CallTouch,
       disk, pass, Shape
  <2> QED
    BY <1>1, <1>2, <2>1, <2>2, <2>3
<1>6. ASSUME NEW p \in Procs, UserStep(p) PROVE Stock'
  <2>1. Rest
    BY <1>6 DEF UserStep, TouchCheck, TouchWrite, Ensure, IndexLease, LeaseFor, Build,
       Recheck, ReadManifest, OpenLease, Open, Close, ExtractLease, Extract,
       ExtractFails, ModelLease, disk, world
  <2>2. last' \in [Entries -> Times]
    BY <1>4, <1>6 DEF UserStep, TouchCheck, TouchWrite, Ensure, IndexLease, LeaseFor,
       Build, Recheck, ReadManifest, OpenLease, Open, Close, ExtractLease, Extract,
       ExtractFails, ModelLease, MakeDir, disk
  <2>3. CASE TouchCheck(p) \/ TouchWrite(p)
    <3>1. ret[p] # "delete"
      BY <2>3 DEF TouchCheck, TouchWrite, Shape
    <3>2. Deleting /\ gc' = gc
      BY <2>3, <3>1 DEF TouchCheck, TouchWrite, Goto, pass, Shape
    <3> QED
      BY <1>1, <1>2, <2>1, <2>2, <3>2
  <2>4. CASE Ensure(p) \/ IndexLease(p) \/ ReadManifest(p) \/ OpenLease(p)
             \/ ExtractLease(p) \/ Extract(p) \/ ModelLease(p)
    <3>1. Deleting /\ gc' = gc
      BY <2>4 DEF Ensure, IndexLease, ReadManifest, OpenLease, ExtractLease, Extract,
         ModelLease, LeaseFor, Goto, CallTouch, pass, Shape
    <3> QED
      BY <1>1, <1>2, <2>1, <2>2, <3>1
  <2>5. CASE Build(p) \/ Recheck(p) \/ Open(p) \/ Close(p) \/ ExtractFails(p)
    <3>1. CASE End(p)
      BY <1>2, <1>3, <2>1, <2>2, <3>1
    <3>2. CASE ~End(p)
      <4>1. Deleting /\ gc' = gc
        BY <2>5, <3>2 DEF Build, Recheck, Open, Close, ExtractFails, Goto, CallTouch,
           pass, Shape
      <4> QED
        BY <1>1, <1>2, <2>1, <2>2, <4>1
    <3> QED
      BY <3>1, <3>2
  <2> QED
    BY <1>6, <2>3, <2>4, <2>5 DEF UserStep
<1>7. ASSUME NEW p \in Procs, GcLock(p) \/ CleanTrashDone(p) PROVE Stock'
  <2>1. Rest /\ last' = last /\ gc' = gc /\ Deleting
    BY <1>7 DEF GcLock, CleanTrashDone, Goto, disk, pass, world, Shape
  <2> QED
    BY <1>1, <1>2, <1>4, <2>1
<1>8. ASSUME NEW p \in Procs, GcThrottled(p) PROVE Stock'
  <2>1. Rest /\ last' = last /\ End(p)
    BY <1>8 DEF GcThrottled, disk, world
  <2> QED
    BY <1>2, <1>3, <1>4, <2>1
<1>9. ASSUME NEW p \in Procs, CleanTrash(p) PROVE Stock'
  <2>1. \A q \in Procs : pc'[q] # "delete"
    BY <1>9 DEF CleanTrash, Shape, GcLabels
  <2>2. trash' \in [Entries -> [full : Nat, partial : Nat]]
    <3>1. PICK e \in todo : trash' = [trash EXCEPT ![e].full = 0]
      BY <1>9 DEF CleanTrash
    <3>2. trash \in [Entries -> [full : Nat, partial : Nat]] /\ e \in Entries
      BY DEF Stock, Shape
    <3> QED
      BY <3>1, <3>2
  <2> QED
    BY <1>9, <2>1, <2>2 DEF CleanTrash, Stock, world
<1>10. ASSUME NEW p \in Procs, CleanTrashFails(p) PROVE Stock'
  <2>1. \A q \in Procs : pc'[q] # "delete"
    BY <1>10 DEF CleanTrashFails, Shape, GcLabels
  <2>2. trash' \in [Entries -> [full : Nat, partial : Nat]]
    <3>1. PICK e \in todo :
            trash' = [trash EXCEPT ![e].full = 0, ![e].partial = @ + 1]
      BY <1>10 DEF CleanTrashFails
    <3>2. trash \in [Entries -> [full : Nat, partial : Nat]] /\ e \in Entries
      BY DEF Stock, Shape
    <3> QED
      BY <3>1, <3>2
  <2> QED
    BY <1>10, <2>1, <2>2 DEF CleanTrashFails, Stock, world
<1>11. ASSUME NEW p \in Procs, Scan(p) PROVE Stock'
  <2> DEFINE marks == OrphanMarks(cmd[p] \in {"auto", "gc"})
  <2>1. ASSUME NEW s \in Stores PROVE marks[s] \in Times \cup {Never}
    BY DEF OrphanMarks, Stock
  <2>2. marks \in [Stores -> Times \cup {Never}]
    <3>1. marks = [s \in Stores |-> marks[s]]
      BY DEF OrphanMarks
    <3> QED
      BY <2>1, <3>1
  <2>3. Total(Managed) \in Nat
    BY TotalNat DEF Managed
  <2> HIDE DEF marks
  <2>4. gc' \in G
    BY <1>1, <1>4, <1>11, <2>3 DEF Scan, G, NoPass, Managed, marks
  <2>5. /\ orphan' \in [Stores -> Times \cup {Never}]
        /\ UNCHANGED <<last, exists, trash, gcLast, now, faults>>
        /\ Deleting
    BY <1>11, <2>2 DEF Scan, Goto, Shape, world, marks
  <2> QED
    BY <2>4, <2>5 DEF Stock, G
<1>12. ASSUME NEW p \in Procs, Expire(p) \/ Quota(p) \/ Clear(p) PROVE Stock'
  <2>1. Rest /\ last' = last /\ pc[p] \in LoopLabels
    BY <1>12, RoundBooks
  <2>2. CASE LeaveBooks(p)
    <3>1. gc' = gc /\ Deleting
      BY <2>2 DEF LeaveBooks, Shape
    <3> QED
      BY <1>1, <1>2, <1>4, <2>1, <3>1
  <2>3. ASSUME NEW e \in todo, InUse(e) \/ CountRemoved(e) \/ TakeBooks(p, e) PROVE Stock'
    <3>1. Deleting
      BY <2>1, <2>3 DEF InUse, CountRemoved, TakeBooks, Shape, GcLabels
    <3>2. e \in Entries /\ Freed(e) \in Nat
      BY <2>3 DEF Freed, Shape, Stock
    <3>3. gc' \in G
      <4>1. CASE InUse(e)
        BY <1>1, <3>2, <4>1 DEF InUse, G
      <4>2. CASE CountRemoved(e)
        BY <1>1, <3>2, <4>2 DEF CountRemoved, G
      <4>3. CASE TakeBooks(p, e)
        BY <1>1, <4>3 DEF TakeBooks
      <4> QED
        BY <2>3, <4>1, <4>2, <4>3
    <3> QED
      BY <1>2, <1>4, <2>1, <3>1, <3>3
  <2> QED
    BY <1>12, <2>2, <2>3, RoundBooks
<1>13. ASSUME NEW p \in Procs, MoveToTrash(p) PROVE Stock'
  <2>1. victim \in Entries /\ 0 \in Times /\ \A q \in Procs : pc[q] = "delete" => q = p
    BY <1>4, <1>13 DEF MoveToTrash, Shape, GcLabels, Times
  <2>2. trash' \in [Entries -> [full : Nat, partial : Nat]] /\ trash'[victim].full > 0
    BY <1>13, <2>1 DEF MoveToTrash, Stock
  <2>3. last' \in [Entries -> Times] /\ orphan' \in [Stores -> Times \cup {Never}]
    BY <1>13, <2>1 DEF MoveToTrash, Stock
  <2>4. UNCHANGED <<exists, gcLast, gc, victim, now, faults>>
    BY <1>13 DEF MoveToTrash, pass, world
  <2> QED
    BY <2>1, <2>2, <2>3, <2>4 DEF Stock
<1>14. ASSUME NEW p \in Procs, pc[p] = "delete"
       PROVE  /\ victim \in Entries /\ trash[victim].full - 1 \in Nat
              /\ \A q \in Procs : pc[q] = "delete" => q = p
              /\ ret[p] # "delete"
  <2>1. victim \in Entries /\ ret[p] \in LoopLabels /\ gcLock = p
    BY <1>14 DEF Shape, GcLabels
  <2>2. trash[victim].full \in Nat /\ trash[victim].full > 0
    BY <1>14, <2>1 DEF Stock
  <2>3. \A q \in Procs : pc[q] = "delete" => q = p
    BY <2>1 DEF Shape, GcLabels
  <2> QED
    BY <2>1, <2>2, <2>3 DEF LoopLabels
<1>15. ASSUME NEW p \in Procs, Delete(p) PROVE Stock'
  <2>1. \A q \in Procs : pc'[q] # "delete"
    BY <1>14, <1>15 DEF Delete, NextEntry, Shape
  <2>2. trash' \in [Entries -> [full : Nat, partial : Nat]]
    BY <1>14, <1>15 DEF Delete, Stock
  <2>3. Freed(victim) \in Nat /\ victim \in Entries
    BY <1>14, <1>15 DEF Delete, Freed, Stock
  <2>4. gc' \in G
    BY <1>1, <1>15, <2>3 DEF Delete, G
  <2> QED
    BY <1>15, <2>1, <2>2, <2>4 DEF Delete, Stock, G, world
<1>16. ASSUME NEW p \in Procs, DeleteFails(p) PROVE Stock'
  <2>1. \A q \in Procs : pc'[q] # "delete"
    BY <1>14, <1>16 DEF DeleteFails, NextEntry, End, Shape
  <2>2. trash' \in [Entries -> [full : Nat, partial : Nat]]
    <3>1. \/ trash' = trash
          \/ trash' = [trash EXCEPT ![victim].full = @ - 1, ![victim].partial = @ + 1]
      BY <1>16 DEF DeleteFails
    <3>2. trash \in [Entries -> [full : Nat, partial : Nat]]
      BY DEF Stock
    <3>3. victim \in Entries /\ trash[victim].full - 1 \in Nat
      BY <1>14, <1>16 DEF DeleteFails
    <3> QED
      BY <3>1, <3>2, <3>3
  <2>3. gc' \in G
    BY <1>1, <1>3, <1>16 DEF DeleteFails
  <2>4. faults' \in 0..MaxFaults /\ UNCHANGED <<last, exists, orphan, gcLast, now>>
    BY <1>16 DEF DeleteFails, Stock, world
  <2> QED
    BY <2>1, <2>2, <2>3, <2>4 DEF Stock, G
<1>17. ASSUME NEW p \in Procs, GcDone(p) PROVE Stock'
  <2>1. gc' \in G /\ Deleting
    BY <1>3, <1>17 DEF GcDone
  <2> QED
    BY <1>17, <2>1 DEF GcDone, Stock, G, disk, world
<1>18. ASSUME NEW p \in Procs, MoveFails(p) PROVE Stock'
  <2>1. gc' \in G /\ Deleting
    BY <1>3, <1>18 DEF MoveFails
  <2>2. faults' \in 0..MaxFaults
    BY <1>18 DEF MoveFails, Stock
  <2> QED
    BY <1>18, <2>1, <2>2 DEF MoveFails, Stock, G, disk, world
<1>19. ASSUME NEW p \in Procs, Crash(p) PROVE Stock'
  <2>1. gc' \in G /\ Deleting
    BY <1>3, <1>19 DEF Crash
  <2>2. faults' \in 0..MaxFaults /\ UNCHANGED <<last, exists, orphan, gcLast, now>>
    BY <1>19 DEF Crash, Stock, world
  <2>3. CASE UNCHANGED trash
    BY <2>1, <2>2, <2>3 DEF Stock, G
  <2>4. ASSUME NEW e \in Removing(p),
               trash' = [trash EXCEPT ![e].full = @ - 1, ![e].partial = @ + 1]
        PROVE  Stock'
    <3>1. e \in Entries /\ trash[e].full - 1 \in Nat /\ pc[p] \in {"delete", "trash"}
      BY <1>14, <2>4 DEF Removing, Shape, Stock
    <3>2. \A q \in Procs : pc'[q] # "delete"
      BY <1>19, <3>1 DEF Crash, End, Shape, GcLabels
    <3>3. trash' \in [Entries -> [full : Nat, partial : Nat]]
      BY <2>4, <3>1 DEF Stock
    <3> QED
      BY <2>1, <2>2, <3>2, <3>3 DEF Stock, G
  <2> QED
    BY <1>19, <2>3, <2>4 DEF Crash
<1>20. CASE Tick
  BY <1>20 DEF Tick, Stock, Times, disk, pass
<1>21. ASSUME NEW s \in Stores, RootChanges(s) PROVE Stock'
  BY <1>21 DEF RootChanges, Stock, disk, pass
<1>22. CASE UNCHANGED vars
  BY <1>22 DEF vars, Stock
<1> QED
  BY <1>5, <1>6, <1>7, <1>8, <1>9, <1>10, <1>11, <1>12, <1>13, <1>15, <1>16, <1>17,
     <1>18, <1>19, <1>20, <1>21, <1>22
  DEF Next, GcStep, Fault

\* While a process holds the collection lock, no step of another one touches
\* the pass or the process.
LEMMA OthersKeepPass ==
    ASSUME Shape, NEW p \in Procs, NEW q \in Procs, q # p, gcLock = p,
           Start(q) \/ UserStep(q) \/ GcStep(q)
    PROVE  UNCHANGED <<gc, todo, victim, pc[p], ret[p], cmd[p], ent[p]>>
<1> DEFINE Same == UNCHANGED <<gc, todo, victim, pc[p], ret[p], cmd[p], ent[p]>>
<1>1. pc[q] \notin GcLabels
  BY DEF Shape
<1>2. End(q) => Same
  BY DEF End, Shape
<1>3. CASE Start(q)
  BY <1>3 DEF Start, StartIndex, StartQuery, StartModel, StartGc, Begin, CallTouch,
     pass, Shape
<1>4. CASE UserStep(q)
  <2>1. CASE End(q)
    BY <1>2, <2>1
  <2>2. CASE ~End(q)
    BY <1>4, <2>2 DEF UserStep, TouchCheck, TouchWrite, Ensure, IndexLease, LeaseFor,
       Build, Recheck, ReadManifest, OpenLease, Open, Close, ExtractLease, Extract,
       ExtractFails, ModelLease, Goto, CallTouch, pass, Shape
  <2> QED
    BY <2>1, <2>2
<1>5. CASE GcThrottled(q)
  BY <1>2, <1>5 DEF GcThrottled
<1>6. CASE GcStep(q) /\ ~GcThrottled(q)
  <2>1. pc[q] \in GcLabels \/ gcLock = None
    BY <1>6 DEF GcStep, GcLock, CleanTrash, CleanTrashDone, Scan, Expire, Quota, Clear,
       Round, MoveToTrash, Delete, GcDone, GcLabels, LoopLabels
  <2> QED
    BY <1>1, <2>1, CacheAssumption
<1> QED
  BY <1>3, <1>4, <1>5, <1>6

\* Only a process's own step gives it the collection lock, and only failures
\* are counted as faults.
LEMMA LockFrame ==
    ASSUME NEW q \in Procs, Start(q) \/ UserStep(q) \/ GcStep(q)
    PROVE  gcLock' \in {gcLock, q, None} /\ faults' = faults
<1>1. CASE Start(q)
  BY <1>1 DEF Start, StartIndex, StartQuery, StartModel, StartGc, locks
<1>2. CASE UserStep(q)
  BY <1>2 DEF UserStep, TouchCheck, TouchWrite, Ensure, IndexLease, LeaseFor, Build,
     Recheck, ReadManifest, OpenLease, Open, Close, ExtractLease, Extract,
     ExtractFails, ModelLease, End, locks
<1>3. CASE Expire(q) \/ Quota(q) \/ Clear(q)
  BY <1>3 DEF Expire, Quota, Clear, Round
<1>4. CASE GcStep(q) /\ ~(Expire(q) \/ Quota(q) \/ Clear(q))
  BY <1>4 DEF GcStep, GcLock, GcThrottled, CleanTrash, CleanTrashDone, Scan,
     MoveToTrash, Delete, NextEntry, GcDone, End, locks
<1> QED
  BY <1>1, <1>2, <1>3, <1>4

\* Every step keeps the books of a gc without failures balanced.
LEMMA BalancedStep ==
    Shape /\ Shape' /\ Stock /\ Stock' /\ Verified /\ Balanced /\ [Next]_vars
        => Balanced'
<1> SUFFICES ASSUME Shape, Shape', Stock, Stock', Verified, Balanced, [Next]_vars
             PROVE  Balanced'
  OBVIOUS
<1> USE CacheAssumption
<1> DEFINE Counting(p) == Loop(p) \in {"expire", "quota", "report"} /\ cmd[p] # "clear"
           Going(p) == pc[p] \in {"move", "delete"}
           Books(p) ==
              /\ gc.remaining = Total(Left)
              /\ todo \subseteq Left
              /\ Going(p) => victim \in Left \ todo
              /\ Left \subseteq todo \cup gc.skipped \cup {ent[p]}
                        \cup (IF Going(p) THEN {victim} ELSE {})
              /\ pc[p] = "report" /\ High > 0 =>
                    gc.remaining <= High \/ todo = {}
           Same(p) == UNCHANGED <<gc, todo, victim, pc[p], ret[p], cmd[p], ent[p]>>
<1>1. Balanced <=> \A p \in Procs : Counting(p) /\ faults = 0 => Books(p)
  BY DEF Balanced
<1>2. Balanced' <=> \A p \in Procs : Counting(p)' /\ faults' = 0 => Books(p)'
  BY DEF Balanced
<1>3. ASSUME NEW p \in Procs, Counting(p) PROVE gcLock = p /\ pc[p] \in GcLabels
  BY <1>3 DEF Loop, Shape, GcLabels, LoopLabels
<1>4. ASSUME NEW p \in Procs, Counting(p)'
      PROVE  gcLock' = p /\ pc'[p] \in GcLabels
  BY <1>4 DEF Loop, Shape, GcLabels, LoopLabels
<1>5. ASSUME NEW p \in Procs, Same(p), Counting(p)', faults' = faults \/ faults' # 0
      PROVE  Counting(p) /\ (faults' = 0 => Books(p)')
  <2>1. Counting(p)
    BY <1>5 DEF Loop
  <2>2. Left' = Left
    BY <1>5 DEF Left
  <2> QED
    BY <1>1, <1>5, <2>1, <2>2
<1>6. SUFFICES ASSUME NEW p \in Procs, Counting(p)', faults' = 0 PROVE Books(p)'
  BY <1>2
<1>7. gcLock' = p /\ pc'[p] \in GcLabels
  BY <1>4, <1>6
<1>8. \A q \in Procs : ~Fault(q)
  BY <1>6 DEF Fault, CleanTrashFails, MoveFails, DeleteFails, Crash, Stock
<1>9. ASSUME NEW q \in Procs, q # p, Start(q) \/ UserStep(q) \/ GcStep(q)
      PROVE  Books(p)'
  <2>1. gcLock = p /\ faults' = faults
    BY <1>7, <1>9, LockFrame
  <2>2. Same(p)
    BY <1>9, <2>1, OthersKeepPass
  <2> QED
    BY <1>5, <1>6, <2>1, <2>2
<1>10. CASE Start(p) \/ UserStep(p)
  <2>1. pc'[p] \notin GcLabels
    <3>1. CASE Start(p)
      BY <3>1 DEF Start, StartIndex, StartQuery, StartModel, StartGc, Begin, CallTouch,
         Shape, GcLabels, LoopLabels
    <3>2. CASE End(p)
      BY <3>2 DEF End, Shape, GcLabels, LoopLabels
    <3>3. CASE UserStep(p) /\ ~End(p)
      BY <3>3 DEF UserStep, TouchCheck, TouchWrite, Ensure, IndexLease, LeaseFor,
         Build, Recheck, ReadManifest, OpenLease, Open, Close, ExtractLease, Extract,
         ExtractFails, ModelLease, Goto, CallTouch, Shape, GcLabels, LoopLabels
    <3> QED
      BY <1>10, <3>1, <3>2, <3>3
  <2> QED
    BY <1>7, <2>1
<1>11. CASE GcLock(p) \/ GcThrottled(p) \/ CleanTrash(p) \/ CleanTrashDone(p) \/ GcDone(p)
  <2>1. pc'[p] \in {"idle", "trash", "scan"}
    BY <1>11 DEF GcLock, GcThrottled, CleanTrash, CleanTrashDone, GcDone, End, Goto, Shape
  <2> QED
    BY <1>6, <2>1 DEF Loop
<1>12. CASE Scan(p)
  <2>1. pc'[p] = "expire" /\ cmd[p] # "clear" /\ cmd' = cmd /\ ent' = ent
    BY <1>6, <1>12 DEF Scan, Goto, Loop, Shape
  <2>2. /\ gc'.seen = [e \in Entries |-> IF e \in Managed THEN last[e] ELSE Never]
        /\ gc'.remaining = Total(Managed) /\ gc'.removed = {}
        /\ todo' = Managed \ {ent[p]}
    BY <1>12, <2>1 DEF Scan, NoPass, Eligible
  <2>3. Left' = Managed
    BY <2>2 DEF Left, Managed, Stock, Never, Times
  <2> QED
    BY <2>1, <2>2, <2>3
<1>13. ASSUME Counting(p), faults = 0 PROVE Books(p) /\ Left \in SUBSET Entries
  BY <1>1, <1>13 DEF Left
<1>14. ASSUME NEW e \in Left, gc.remaining = Total(Left),
              gc'.seen = gc.seen, gc'.removed = gc.removed \cup {e},
              gc'.remaining = Freed(e)
       PROVE  Left' = Left \ {e} /\ gc'.remaining = Total(Left')
  <2>1. Left' = Left \ {e}
    BY <1>14 DEF Left
  <2>2. Total(Left) = Size[e] + Total(Left \ {e})
    BY TotalRemove DEF Left
  <2>3. Size[e] \in Nat /\ Total(Left \ {e}) \in Nat
    BY TotalNat DEF Left
  <2>4. Freed(e) = Total(Left \ {e})
    BY <1>14, <2>2, <2>3 DEF Freed
  <2> QED
    BY <1>14, <2>1, <2>4
<1>15. CASE Expire(p) \/ Quota(p) \/ Clear(p)
  <2>1. pc[p] \in LoopLabels /\ cmd' = cmd /\ ent' = ent /\ faults' = faults
    BY <1>15, RoundBooks
  <2>2. Counting(p)
    BY <1>6, <2>1 DEF Loop, Verified, LoopLabels
  <2>3. Books(p)
    BY <1>6, <1>13, <2>1, <2>2
  <2>4. CASE LeaveBooks(p)
    <3>1. Left' = Left
      BY <2>4 DEF LeaveBooks, Left
    <3>2. ~Going(p) /\ ~Going(p)'
      BY <2>1, <2>4 DEF LeaveBooks, LoopLabels, Shape
    <3>3. pc'[p] = "report" /\ High > 0 => gc.remaining <= High \/ todo = {}
      <4>1. CASE pc[p] = "expire"
        BY <2>4, <4>1 DEF LeaveBooks, OverQuota, Shape, Stock
      <4>2. CASE pc[p] = "quota"
        <5>1. gc.remaining <= Low \/ Oldest(todo) = {}
          BY <2>4, <4>2 DEF LeaveBooks
        <5>2. gc.seen \in [Entries -> Int] /\ gc.remaining \in Nat
          BY DEF Stock, Times, Never
        <5>3. Oldest(todo) = {} => todo = {}
          BY <5>2, OldestExists DEF Shape
        <5> QED
          BY <5>1, <5>2, <5>3
      <4> QED
        BY <2>1, <2>2, <4>1, <4>2 DEF Loop, LoopLabels
    <3>4. UNCHANGED <<gc, todo, victim>>
      BY <2>4 DEF LeaveBooks
    <3> QED
      BY <2>1, <2>3, <3>1, <3>2, <3>3, <3>4
  <2>5. ASSUME NEW e \in todo, todo' = todo \ {e}, InUse(e) PROVE Books(p)'
    <3>1. /\ gc'.remaining = gc.remaining /\ gc'.skipped = gc.skipped \cup {e}
          /\ gc'.seen = gc.seen /\ gc'.removed = gc.removed
          /\ victim' = victim /\ pc' = pc
      BY <2>5 DEF InUse, Stock
    <3>2. Left' = Left
      BY <3>1 DEF Left
    <3>3. pc[p] \notin {"move", "delete", "report"}
      BY <2>1 DEF LoopLabels
    <3> QED
      BY <2>1, <2>3, <2>5, <3>1, <3>2, <3>3
  <2>6. ASSUME NEW e \in todo, todo' = todo \ {e}, CountRemoved(e) PROVE Books(p)'
    <3>1. /\ gc'.remaining = Freed(e) /\ gc'.removed = gc.removed \cup {e}
          /\ gc'.seen = gc.seen /\ gc'.skipped = gc.skipped
          /\ victim' = victim /\ pc' = pc
      BY <2>6 DEF CountRemoved, Stock
    <3>2. Left' = Left \ {e} /\ gc'.remaining = Total(Left')
      BY <1>14, <2>3, <2>6, <3>1
    <3>3. pc[p] \notin {"move", "delete", "report"}
      BY <2>1 DEF LoopLabels
    <3> QED
      BY <2>1, <2>3, <2>6, <3>1, <3>2, <3>3
  <2>7. ASSUME NEW e \in todo, todo' = todo \ {e}, TakeBooks(p, e) PROVE Books(p)'
    <3>1. gc' = gc /\ victim' = e /\ pc'[p] = "move"
      BY <2>7 DEF TakeBooks, Shape
    <3>2. Left' = Left
      BY <3>1 DEF Left
    <3>3. pc[p] \notin {"move", "delete", "report"}
      BY <2>1 DEF LoopLabels
    <3> QED
      BY <2>1, <2>3, <2>7, <3>1, <3>2, <3>3
  <2> QED
    BY <1>15, <2>4, <2>5, <2>6, <2>7, RoundBooks
<1>16. CASE MoveToTrash(p)
  <2>1. /\ pc[p] = "move" /\ pc'[p] = "delete"
        /\ UNCHANGED <<gc, todo, victim, ret, cmd, ent, faults>>
    BY <1>16 DEF MoveToTrash, Goto, pass, Shape
  <2>2. Counting(p) /\ Left' = Left
    BY <1>6, <2>1 DEF Loop, Left
  <2> QED
    BY <1>6, <1>13, <2>1, <2>2
<1>17. CASE Delete(p)
  <2>1. /\ pc[p] = "delete" /\ pc'[p] = ret[p] /\ victim \in Entries
        /\ UNCHANGED <<todo, cmd, ent, faults>>
        /\ gc' = [gc EXCEPT !.removed = @ \cup {victim}, !.remaining = Freed(victim)]
    BY <1>17 DEF Delete, NextEntry, Shape
  <2>2. ret[p] \in LoopLabels
    BY <2>1 DEF Shape
  <2>3. Counting(p)
    BY <1>6, <2>1, <2>2 DEF Loop, LoopLabels
  <2>4. Books(p)
    BY <1>6, <1>13, <2>1, <2>3
  <2>5. /\ gc'.remaining = Freed(victim) /\ gc'.removed = gc.removed \cup {victim}
        /\ gc'.seen = gc.seen /\ gc'.skipped = gc.skipped
    BY <2>1 DEF Stock
  <2>6. Left' = Left \ {victim} /\ gc'.remaining = Total(Left')
    BY <1>14, <2>1, <2>4, <2>5
  <2>7. pc'[p] \notin {"move", "delete", "report"}
    BY <2>1, <2>2 DEF LoopLabels
  <2> QED
    BY <2>1, <2>4, <2>5, <2>6, <2>7
<1>18. CASE Tick \/ UNCHANGED vars \/ \E s \in Stores : RootChanges(s)
  <2>1. Same(p) /\ faults' = faults
    BY <1>18 DEF Tick, RootChanges, pass, vars
  <2> QED
    BY <1>5, <1>6, <2>1
<1> QED
  BY <1>8, <1>9, <1>10, <1>11, <1>12, <1>15, <1>16, <1>17, <1>18 DEF Next, GcStep

\* The initial state satisfies the rest of the invariant.
LEMMA InitStock == Init => Stock /\ Balanced
<1> SUFFICES ASSUME Init PROVE Stock /\ Balanced
  OBVIOUS
<1>1. Stock
  BY CacheAssumption, NoPassType DEF Init, Stock, Times
<1>2. Balanced
  BY DEF Init, Balanced, Loop
<1> QED
  BY <1>1, <1>2

\* The state of the cache, its locks and its collections keep their types: a
\* collection never takes more out of the trash than is in it.
THEOREM Typing == Spec => []TypeOK
<1>1. Shape /\ Stock /\ [Next]_vars => (Shape /\ Stock)'
  BY ShapeStep, StockStep
<1>2. Shape /\ Stock => TypeOK
  BY DEF Shape, Stock, TypeOK
<1> QED
  BY <1>1, <1>2, InitInv, InitStock, PTL DEF Spec

\* A gc without failures ends within the quota, or has nothing left but entries
\* in use and the current workspace: what it subtracts on the way is the size
\* of what it removed, and locked entries are not counted as reclaimed.
THEOREM QuotaIsMet == Spec => []QuotaMet
<1> DEFINE Inv == Shape /\ Stock /\ Verified /\ Balanced
<1>1. Inv /\ [Next]_vars => Inv'
  BY ShapeStep, StockStep, VerifiedStep, BalancedStep
<1>2. Inv => QuotaMet
  <2> SUFFICES ASSUME Inv, NEW p \in Procs, pc[p] = "report", cmd[p] # "clear",
                      faults = 0, High > 0
               PROVE  Total(Left) <= High \/ Left \subseteq gc.skipped \cup {ent[p]}
    BY DEF QuotaMet, Left
  <2> QED
    BY DEF Balanced, Loop
<1>3. Init => Inv
  BY InitInv, InitStock
<1> QED
  BY <1>1, <1>2, <1>3, PTL DEF Spec
=============================================================================
