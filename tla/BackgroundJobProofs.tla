------------------------- MODULE BackgroundJobProofs -------------------------
(***************************************************************************)
(* Proofs about BackgroundJob for any queries, children, other holders of  *)
(* the writer lock and any number of kills and failures.                   *)
(***************************************************************************)
EXTENDS BackgroundJob, TLAPS, FiniteSetTheorems

\* A query that checks the record or has spawned holds the spawn lock, and it
\* remembers a child exactly between the spawn and the record.
SpawnLockHeld ==
    \A q \in Queries :
        /\ query[q] \in {"check", "spawned"} => spawnLock = q
        /\ query[q] = "spawned" <=> spawning[q] # None

TypeInv == TypeOK /\ SpawnLockHeld

\* Every step keeps the types and the spawn lock with its holder.
LEMMA TypeStep == TypeInv /\ [Next]_vars => TypeInv'
<1> SUFFICES ASSUME TypeInv, [Next]_vars PROVE TypeInv'
  OBVIOUS
<1> USE Bounds, NoneIsNothing
<1> USE DEF TypeInv, TypeOK, SpawnLockHeld, States, Gone, Fault, Fails
<1>1. ASSUME NEW q \in Queries, Request(q) PROVE TypeInv'
  BY <1>1 DEF Request
<1>2. ASSUME NEW q \in Queries, TakeSpawnLock(q) PROVE TypeInv'
  BY <1>2 DEF TakeSpawnLock
<1>3. ASSUME NEW q \in Queries, AlreadyRunning(q) PROVE TypeInv'
  BY <1>3 DEF AlreadyRunning
<1>4. ASSUME NEW q \in Queries, NEW p \in Pids, Spawn(q, p) PROVE TypeInv'
  BY <1>4 DEF Spawn, Free
<1>5. ASSUME NEW q \in Queries, SpawnFails(q) PROVE TypeInv'
  BY <1>5 DEF SpawnFails, Free
<1>6. ASSUME NEW q \in Queries, Publish(q) PROVE TypeInv'
  BY <1>6 DEF Publish, Job
<1>7. ASSUME NEW q \in Queries, PublishFails(q) PROVE TypeInv'
  BY <1>7 DEF PublishFails
<1>8. ASSUME NEW q \in Queries, QueryKilled(q) PROVE TypeInv'
  BY <1>8 DEF QueryKilled
<1>9. ASSUME NEW q \in Queries, Probe(q) PROVE TypeInv'
  BY <1>9 DEF Probe
<1>10. ASSUME NEW q \in Queries, ProbeDone(q) PROVE TypeInv'
  BY <1>10 DEF ProbeDone
<1>11. ASSUME NEW p \in Pids, Starts(p) \/ TimesOut(p) PROVE TypeInv'
  BY <1>11 DEF Starts, TimesOut, Goes, childVars
<1>12. ASSUME NEW p \in Pids, Locks(p) PROVE TypeInv'
  BY <1>12 DEF Locks, Goes, childVars
<1>13. ASSUME NEW p \in Pids, Held(p) \/ FailsEarly(p) PROVE TypeInv'
  BY <1>13 DEF Held, FailsEarly, Goes, Job, childVars
<1>14. ASSUME NEW p \in Pids, Progress(p) PROVE TypeInv'
  BY <1>14 DEF Progress, Job, childVars
<1>15. ASSUME NEW p \in Pids, BuildFails(p) \/ Degraded(p) \/ DropFails(p)
       PROVE  TypeInv'
  BY <1>15 DEF BuildFails, Degraded, DropFails, Goes, Job, childVars
<1>16. ASSUME NEW p \in Pids, PublishesSnapshot(p) PROVE TypeInv'
  BY <1>16 DEF PublishesSnapshot, Goes, childVars
<1>17. ASSUME NEW p \in Pids, Complete(p) PROVE TypeInv'
  BY <1>17 DEF Complete, Goes, childVars
<1>18. ASSUME NEW p \in Pids, Unclean(p) \/ Exits(p) \/ Killed(p) PROVE TypeInv'
  BY <1>18 DEF Unclean, Exits, Killed, Unlock, Goes, childVars
<1>19. ASSUME NEW o \in Others, OtherLocks(o) \/ OtherUnlocks(o) PROVE TypeInv'
  BY <1>19 DEF OtherLocks, OtherUnlocks
<1>20. ASSUME Edit PROVE TypeInv'
  BY <1>20 DEF Edit
<1>21. CASE UNCHANGED vars
  BY <1>21 DEF vars
<1> QED
  BY <1>1, <1>2, <1>3, <1>4, <1>5, <1>6, <1>7, <1>8, <1>9, <1>10, <1>11, <1>12,
     <1>13, <1>14, <1>15, <1>16, <1>17, <1>18, <1>19, <1>20, <1>21
  DEF Next, QueryStep, ChildStep

\* They hold in every reachable state.
LEMMA TypeInvariant == Spec => []TypeInv
<1>1. Init => TypeInv
  <2> SUFFICES ASSUME Init PROVE TypeInv
    OBVIOUS
  <2>1. TypeOK
    <3>1. won \in [Pids -> BOOLEAN] /\ stale \in BOOLEAN /\ orphan \in BOOLEAN
      BY Zenon DEF Init
    <3>2. faults \in 0..MaxFaults
      BY Bounds DEF Init
    <3> QED
      BY <3>1, <3>2 DEF Init, TypeOK, States, Gone
  <2>2. SpawnLockHeld
    BY DEF Init, SpawnLockHeld
  <2> QED
    BY <2>1, <2>2 DEF TypeInv
<1> QED
  BY <1>1, TypeStep, PTL DEF Spec

\* The record, the locks, the queries and the children stay within their types;
\* in particular a published record always names a child that was spawned.
THEOREM Typing == Spec => []TypeOK
<1>1. TypeInv => TypeOK
  BY DEF TypeInv
<1> QED
  BY <1>1, TypeInvariant, PTL

\* A child that has neither exited nor begun to.
Active(p) == child[p] \notin Gone \cup {"exit"}

\* While every spawned child was recorded, the active child is the one a query
\* is about to record, or else the one the record names.
ActiveIsKnown ==
    ~orphan =>
      \A p \in Pids : Active(p) =>
          /\ \A q \in Queries : query[q] = "spawned" => spawning[q] = p
          /\ (\A q \in Queries : query[q] # "spawned")
                => record # None /\ record.pid = p

\* The wait in from_env: unless it gave up, a child is at most waiting before
\* its record is there, it has won nothing, and no record names it.
RecordFirst ==
    /\ \A q \in Queries : query[q] = "spawned" /\ spawning[q] \notin late =>
          /\ child[spawning[q]] \in {"wait", "dead"}
          /\ ~won[spawning[q]]
          /\ record # None => record.pid # spawning[q]
    /\ \A p \in Pids : won[p] => child[p] \in {"exit", "dead"}
    /\ SeenRecordStaysRemoved

\* Every step keeps the active child known.
LEMMA ActiveStep == TypeInv /\ ActiveIsKnown /\ [Next]_vars => ActiveIsKnown'
<1> SUFFICES ASSUME TypeInv, ActiveIsKnown, [Next]_vars PROVE ActiveIsKnown'
  OBVIOUS
<1> USE Bounds, NoneIsNothing
<1> USE DEF TypeInv, TypeOK, SpawnLockHeld, ActiveIsKnown, Active, Gone, States,
            Fault, Fails, Goes, Job, childVars
<1>1. ASSUME NEW q \in Queries, Request(q) PROVE ActiveIsKnown'
  BY <1>1 DEF Request
<1>2. ASSUME NEW q \in Queries, TakeSpawnLock(q) PROVE ActiveIsKnown'
  BY <1>2 DEF TakeSpawnLock
<1>3. ASSUME NEW q \in Queries, AlreadyRunning(q) PROVE ActiveIsKnown'
  BY <1>3 DEF AlreadyRunning, process_is_alive
<1>4. ASSUME NEW q \in Queries, NEW p \in Pids, Spawn(q, p)
       PROVE  ActiveIsKnown'
  BY <1>4 DEF Spawn, Free, process_is_alive
<1>5. ASSUME NEW q \in Queries, SpawnFails(q) PROVE ActiveIsKnown'
  BY <1>5 DEF SpawnFails, Free
<1>6. ASSUME NEW q \in Queries, Publish(q) PROVE ActiveIsKnown'
  BY <1>6 DEF Publish
<1>7. ASSUME NEW q \in Queries, PublishFails(q) PROVE ActiveIsKnown'
  BY <1>7 DEF PublishFails
<1>8. ASSUME NEW q \in Queries, QueryKilled(q) PROVE ActiveIsKnown'
  BY <1>8 DEF QueryKilled
<1>9. ASSUME NEW q \in Queries, Probe(q) \/ ProbeDone(q) PROVE ActiveIsKnown'
  BY <1>9 DEF Probe, ProbeDone
<1>10. ASSUME NEW p \in Pids, Starts(p) \/ TimesOut(p) PROVE ActiveIsKnown'
  BY <1>10 DEF Starts, TimesOut
<1>11. ASSUME NEW p \in Pids, Locks(p) PROVE ActiveIsKnown'
  BY <1>11 DEF Locks
<1>12. ASSUME NEW p \in Pids, Held(p) \/ FailsEarly(p) PROVE ActiveIsKnown'
  BY <1>12 DEF Held, FailsEarly
<1>13. ASSUME NEW p \in Pids, Progress(p) PROVE ActiveIsKnown'
  BY <1>13 DEF Progress
<1>14. ASSUME NEW p \in Pids, BuildFails(p) \/ Degraded(p) \/ DropFails(p)
       PROVE  ActiveIsKnown'
  BY <1>14 DEF BuildFails, Degraded, DropFails
<1>15. ASSUME NEW p \in Pids, PublishesSnapshot(p) PROVE ActiveIsKnown'
  BY <1>15 DEF PublishesSnapshot
<1>16. ASSUME NEW p \in Pids, Complete(p) PROVE ActiveIsKnown'
  BY <1>16 DEF Complete
<1>17. ASSUME NEW p \in Pids, Unclean(p) PROVE ActiveIsKnown'
  BY <1>17 DEF Unclean
<1>18. ASSUME NEW p \in Pids, Exits(p) \/ Killed(p) PROVE ActiveIsKnown'
  BY <1>18 DEF Exits, Killed
<1>19. ASSUME NEW o \in Others, OtherLocks(o) \/ OtherUnlocks(o)
       PROVE  ActiveIsKnown'
  <2>1. UNCHANGED <<query, spawning, spawnLock, record, child, won, orphan, late>>
    BY <1>19 DEF OtherLocks, OtherUnlocks
  <2> QED
    BY <2>1
<1>20. ASSUME Edit PROVE ActiveIsKnown'
  BY <1>20 DEF Edit
<1>21. CASE UNCHANGED vars
  BY <1>21 DEF vars
<1> QED
  BY <1>1, <1>2, <1>3, <1>4, <1>5, <1>6, <1>7, <1>8, <1>9, <1>10, <1>11, <1>12,
     <1>13, <1>14, <1>15, <1>16, <1>17, <1>18, <1>19, <1>20, <1>21
  DEF Next, QueryStep, ChildStep

\* It is known in every reachable state, however slow the spawner is.
LEMMA ActiveInvariant == Spec => []ActiveIsKnown
<1>1. Init => ActiveIsKnown
  BY DEF Init, ActiveIsKnown, Active, Gone
<1> QED
  BY <1>1, ActiveStep, TypeInvariant, PTL DEF Spec

\* Whatever is killed and however late a record is published: as long as no
\* query lost the child it spawned, at most one child is at work.
THEOREM AtMostOneChild ==
    Spec => [](~orphan => Cardinality({p \in Pids : Active(p)}) <= 1)
<1>1. ActiveIsKnown /\ ~orphan => Cardinality({p \in Pids : Active(p)}) <= 1
  <2> SUFFICES ASSUME ActiveIsKnown, ~orphan
               PROVE  Cardinality({p \in Pids : Active(p)}) <= 1
    OBVIOUS
  <2>1. \A p, r \in Pids : Active(p) /\ Active(r) => p = r
    BY DEF ActiveIsKnown
  <2>2. CASE {p \in Pids : Active(p)} = {}
    BY <2>2, FS_EmptySet
  <2>3. ASSUME NEW r \in {p \in Pids : Active(p)}
        PROVE  Cardinality({p \in Pids : Active(p)}) <= 1
    <3>1. {p \in Pids : Active(p)} = {r}
      BY <2>1, <2>3
    <3> QED
      BY <3>1, FS_Singleton
  <2> QED
    BY <2>2, <2>3
<1> QED
  BY <1>1, ActiveInvariant, PTL

\* Every step keeps the record ahead of the child that waited for it.
LEMMA RecordStep == TypeInv /\ RecordFirst /\ [Next]_vars => RecordFirst'
<1> SUFFICES ASSUME TypeInv, RecordFirst, [Next]_vars
             PROVE  RecordFirst'
  OBVIOUS
<1> USE Bounds, NoneIsNothing
<1> USE DEF TypeInv, TypeOK, SpawnLockHeld, RecordFirst, SeenRecordStaysRemoved,
            Gone, States, Fault, Fails, Goes, Job, childVars
<1>1. ASSUME NEW q \in Queries, Request(q) PROVE RecordFirst'
  BY <1>1 DEF Request
<1>2. ASSUME NEW q \in Queries, TakeSpawnLock(q) PROVE RecordFirst'
  BY <1>2 DEF TakeSpawnLock
<1>3. ASSUME NEW q \in Queries, AlreadyRunning(q) PROVE RecordFirst'
  BY <1>3 DEF AlreadyRunning, process_is_alive
<1>4. ASSUME NEW q \in Queries, NEW p \in Pids, Spawn(q, p) PROVE RecordFirst'
  BY <1>4 DEF Spawn, Free, process_is_alive
<1>5. ASSUME NEW q \in Queries, SpawnFails(q) PROVE RecordFirst'
  BY <1>5 DEF SpawnFails, Free
<1>6. ASSUME NEW q \in Queries, Publish(q) PROVE RecordFirst'
  BY <1>6 DEF Publish
<1>7. ASSUME NEW q \in Queries, PublishFails(q) PROVE RecordFirst'
  BY <1>7 DEF PublishFails
<1>8. ASSUME NEW q \in Queries, QueryKilled(q) PROVE RecordFirst'
  BY <1>8 DEF QueryKilled
<1>9. ASSUME NEW q \in Queries, Probe(q) \/ ProbeDone(q) PROVE RecordFirst'
  BY <1>9 DEF Probe, ProbeDone
<1>10. ASSUME NEW p \in Pids, Starts(p) \/ TimesOut(p) PROVE RecordFirst'
  BY <1>10 DEF Starts, TimesOut
<1>11. ASSUME NEW p \in Pids, Locks(p) PROVE RecordFirst'
  BY <1>11 DEF Locks
<1>12. ASSUME NEW p \in Pids, Held(p) \/ FailsEarly(p) PROVE RecordFirst'
  BY <1>12 DEF Held, FailsEarly
<1>13. ASSUME NEW p \in Pids, Progress(p) PROVE RecordFirst'
  BY <1>13 DEF Progress
<1>14. ASSUME NEW p \in Pids, BuildFails(p) \/ Degraded(p) \/ DropFails(p)
       PROVE  RecordFirst'
  BY <1>14 DEF BuildFails, Degraded, DropFails
<1>15. ASSUME NEW p \in Pids, PublishesSnapshot(p) PROVE RecordFirst'
  BY <1>15 DEF PublishesSnapshot
<1>16. ASSUME NEW p \in Pids, Complete(p) PROVE RecordFirst'
  BY <1>16 DEF Complete
<1>17. ASSUME NEW p \in Pids, Unclean(p) PROVE RecordFirst'
  BY <1>17 DEF Unclean
<1>18. ASSUME NEW p \in Pids, Exits(p) \/ Killed(p) PROVE RecordFirst'
  BY <1>18 DEF Exits, Killed
<1>19. ASSUME NEW o \in Others, OtherLocks(o) \/ OtherUnlocks(o)
       PROVE  RecordFirst'
  <2>1. UNCHANGED <<query, spawning, spawnLock, record, child, won, orphan, late>>
    BY <1>19 DEF OtherLocks, OtherUnlocks
  <2> QED
    BY <2>1
<1>20. ASSUME Edit PROVE RecordFirst'
  BY <1>20 DEF Edit
<1>21. CASE UNCHANGED vars
  BY <1>21 DEF vars
<1> QED
  BY <1>1, <1>2, <1>3, <1>4, <1>5, <1>6, <1>7, <1>8, <1>9, <1>10, <1>11, <1>12,
     <1>13, <1>14, <1>15, <1>16, <1>17, <1>18, <1>19, <1>20, <1>21
  DEF Next, QueryStep, ChildStep

\* The record is ahead of the child in every reachable state.
LEMMA RecordInvariant == Spec => []RecordFirst
<1>1. Init => RecordFirst
  BY DEF Init, RecordFirst, SeenRecordStaysRemoved
<1> QED
  BY <1>1, RecordStep, TypeInvariant, PTL DEF Spec

\* "Start at most one detached refresh for a worktree" (spawn_background_job):
\* unless a query lost the child it spawned, one child at most is at work, and
\* while it builds the record names it if it waited for it (from_env).
THEOREM OneJobAtATime == Spec => []OneJob
<1> DEFINE Few == ~orphan => Cardinality({p \in Pids : Active(p)}) <= 1
<1>1. Few /\ ActiveIsKnown /\ TypeInv /\ RecordFirst => OneJob
  <2> SUFFICES ASSUME Few, ActiveIsKnown, TypeInv, RecordFirst, ~orphan
               PROVE  OneJob
    BY DEF OneJob
  <2>1. Cardinality({p \in Pids : child[p] \notin Gone \cup {"exit"}}) <= 1
    BY DEF Active
  <2>2. ASSUME NEW p \in Pids, child[p] = "build", p \notin late
        PROVE  record # None /\ record.pid = p
    <3>1. Active(p)
      BY <2>2 DEF Active, Gone
    <3>2. \A q \in Queries : query[q] # "spawned"
      BY <2>2, <3>1 DEF ActiveIsKnown, RecordFirst
    <3> QED
      BY <3>1, <3>2 DEF ActiveIsKnown
  <2> QED
    BY <2>1, <2>2 DEF OneJob
<1> QED
  BY <1>1, AtMostOneChild, ActiveInvariant, TypeInvariant, RecordInvariant, PTL

\* A job that saw its record and completed leaves none behind: its parent's
\* `refreshing` is never written over the removal.  Kills, orphans and children
\* that gave up waiting are allowed: the spawn lock keeps the next child away.
THEOREM NoRecordAfterCompletion == Spec => []SeenRecordStaysRemoved
<1>1. RecordFirst => SeenRecordStaysRemoved
  BY DEF RecordFirst
<1> QED
  BY <1>1, RecordInvariant, PTL
=============================================================================
