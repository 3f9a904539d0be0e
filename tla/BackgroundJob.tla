---------------------------- MODULE BackgroundJob ----------------------------
(***************************************************************************)
(* The one detached refresh of a worktree (crates/cli/src/lib.rs).  A query *)
(* that finds the index stale starts `index` as a child under a spawn lock  *)
(* and then publishes the job record; the child waits for that record, but  *)
(* no longer than a second, takes the writer lock, builds, and removes the  *)
(* record or leaves it as failed.  Status queries probe the writer lock by  *)
(* taking it; foreground index runs hold it.  Every process may be killed.  *)
(***************************************************************************)
EXTENDS Naturals, FiniteSets

CONSTANTS
    Queries,        \* the queries that may start a job
    Pids,           \* the process ids children are given
    Others,         \* foreground index runs and probes of the writer lock
    None,
    MaxFaults       \* bound on kills and failures

States == {"refreshing", "embedding", "failed"}

ASSUME Bounds == MaxFaults \in Nat
ASSUME NoneIsNothing == None \notin Pids \cup Queries \cup [pid : Pids, state : States]

VARIABLES
    query,      \* where a query is: idle, lock, check, spawned, probe
    spawning,   \* the child a query has spawned and not yet recorded
    spawnLock,  \* workspace-<hash>.job-spawn
    record,     \* index.job, or None
    child,      \* where a child is
    won,        \* the child's snapshot was published
    writer,     \* workspace-<hash>.writer
    other,      \* other holders of the writer lock: may still start
    stale,      \* the published index does not match the workspace
    blocked,    \* no run succeeds: a file that cannot be read or has outgrown
                \* the size cap, too many files, no embedding configuration
    orphan,     \* history: some query did not record the child it spawned
    late,       \* history: the children that gave up waiting for their record
    faults

vars == <<query, spawning, spawnLock, record, child, won, writer, other, stale,
          blocked, orphan, late, faults>>

Gone == {"unborn", "dead"}
ProcessAssumedAlive(p) == child[p] # "unborn"
process_is_alive(p) == child[p] \notin Gone
Job(p, state) == [pid |-> p, state |-> state]

Init ==
    /\ query = [q \in Queries |-> "idle"] /\ spawning = [q \in Queries |-> None]
    /\ spawnLock = None /\ record = None
    /\ child = [p \in Pids |-> "unborn"] /\ won = [p \in Pids |-> FALSE]
    /\ writer = None /\ other = Others /\ stale = TRUE /\ blocked \in BOOLEAN
    /\ orphan = FALSE /\ late = {} /\ faults = 0

Fault == faults < MaxFaults /\ faults' = faults + 1

-----------------------------------------------------------------------------
(* spawn_background_job, one query.                                        *)

Request(q) ==
    /\ query[q] = "idle" /\ stale
    /\ query' = [query EXCEPT ![q] = "lock"]
    /\ UNCHANGED <<spawning, spawnLock, record, child, won, writer, other, stale,
                   blocked, orphan, late, faults>>

TakeSpawnLock(q) ==
    /\ query[q] = "lock" /\ spawnLock = None
    /\ spawnLock' = q /\ query' = [query EXCEPT ![q] = "check"]
    /\ UNCHANGED <<spawning, record, child, won, writer, other, stale,
                   blocked, orphan, late, faults>>

(* A job that is recorded and alive is left alone.                         *)
AlreadyRunning(q) ==
    /\ query[q] = "check"
    /\ record # None /\ process_is_alive(record.pid)
    /\ spawnLock' = None /\ query' = [query EXCEPT ![q] = "idle"]
    /\ UNCHANGED <<spawning, record, child, won, writer, other, stale,
                   blocked, orphan, late, faults>>

Free(q) == query[q] = "check"
             /\ (record # None => ~process_is_alive(record.pid))

SpawnUnchecked(q, p) ==
    /\ query[q] = "check" /\ child[p] \in Gone
    /\ child' = [child EXCEPT ![p] = "wait"] /\ won' = [won EXCEPT ![p] = FALSE]
    /\ late' = late \ {p}
    /\ spawning' = [spawning EXCEPT ![q] = p]
    /\ query' = [query EXCEPT ![q] = "spawned"]
    /\ UNCHANGED <<spawnLock, record, writer, other, stale, blocked, orphan,
                   faults>>
Spawn(q, p) ==
    /\ Free(q) /\ child[p] \in Gone
    /\ record # None => record.pid # p      \* the id of a dead job is not reused
    /\ child' = [child EXCEPT ![p] = "wait"] /\ won' = [won EXCEPT ![p] = FALSE]
    /\ late' = late \ {p}
    /\ spawning' = [spawning EXCEPT ![q] = p]
    /\ query' = [query EXCEPT ![q] = "spawned"]
    /\ UNCHANGED <<spawnLock, record, writer, other, stale, blocked, orphan,
                   faults>>

(* No job was started: the query asks whether somebody else is writing.    *)
SpawnFails(q) ==
    /\ Free(q) /\ Fault
    /\ spawnLock' = None /\ query' = [query EXCEPT ![q] = "probe"]
    /\ UNCHANGED <<spawning, record, child, won, writer, other, stale, blocked, orphan,
                   late>>

PublishAfterReset(q) ==
    /\ query[q] = "spawned"
    /\ spawnLock' = None /\ spawning' = [spawning EXCEPT ![q] = None]
    /\ record' = Job(spawning'[q], "refreshing")
    /\ query' = [query EXCEPT ![q] = "idle"]
    /\ UNCHANGED <<child, won, writer, other, stale,
                   blocked, orphan, late, faults>>

Publish(q) ==
    /\ query[q] = "spawned"
    /\ record' = Job(spawning[q], "refreshing")
    /\ spawnLock' = None /\ spawning' = [spawning EXCEPT ![q] = None]
    /\ query' = [query EXCEPT ![q] = "idle"]
    /\ UNCHANGED <<child, won, writer, other, stale,
                   blocked, orphan, late, faults>>

PublishFails(q) ==
    /\ query[q] = "spawned" /\ Fault
    /\ orphan' = TRUE
    /\ spawnLock' = None /\ spawning' = [spawning EXCEPT ![q] = None]
    /\ query' = [query EXCEPT ![q] = "probe"]
    /\ UNCHANGED <<record, child, won, writer, other, stale, blocked, late>>

(* The kernel drops a killed query's locks.                                *)
QueryKilled(q) ==
    /\ query[q] \in {"check", "spawned"} /\ Fault
    /\ orphan' = (orphan \/ query[q] = "spawned")
    /\ spawnLock' = None /\ spawning' = [spawning EXCEPT ![q] = None]
    /\ query' = [query EXCEPT ![q] = "idle"]
    /\ UNCHANGED <<record, child, won, writer, other, stale, blocked, late>>

(* workspace_writer_active: the lock is taken and dropped again.           *)
Probe(q) ==
    /\ query[q] = "probe"
    /\ IF writer = None
       THEN writer' = q /\ query' = [query EXCEPT ![q] = "probing"]
       ELSE UNCHANGED writer /\ query' = [query EXCEPT ![q] = "idle"]
    /\ UNCHANGED <<spawning, spawnLock, record, child, won, other, stale,
                   blocked, orphan, late, faults>>

ProbeDone(q) ==
    /\ query[q] = "probing"
    /\ writer' = None /\ query' = [query EXCEPT ![q] = "idle"]
    /\ UNCHANGED <<spawning, spawnLock, record, child, won, other, stale,
                   blocked, orphan, late, faults>>

-----------------------------------------------------------------------------
(* The child: BackgroundJobGuard and dispatch_index.                       *)

childVars == <<query, spawning, spawnLock, other, blocked, orphan>>
Goes(p, place) == child' = [child EXCEPT ![p] = place]

(* What fails once may be a fault; what is blocked fails every time.       *)
Fails == Fault \/ (blocked /\ UNCHANGED faults)

StartsAtOnce(p) ==
    /\ child[p] = "wait" /\ Goes(p, "gate")
    /\ UNCHANGED <<childVars, record, won, writer, stale, late, faults>>
(* from_env: the child waits for its record ...                            *)
Starts(p) ==
    /\ child[p] = "wait" /\ record # None /\ record.pid = p
    /\ Goes(p, "gate")
    /\ UNCHANGED <<childVars, record, won, writer, stale, late, faults>>

(* ... and goes on without it after 100 naps of 10 ms: the spawner may be  *)
(* suspended, writing or syncing for longer than that, or dead.            *)
TimesOut(p) ==
    /\ child[p] = "wait" /\ (record # None => record.pid # p)
    /\ Goes(p, "gate") /\ late' = late \cup {p}
    /\ UNCHANGED <<childVars, record, won, writer, stale, faults>>

Locks(p) ==
    /\ child[p] = "gate" /\ writer = None
    /\ writer' = p /\ Goes(p, "build")
    /\ UNCHANGED <<childVars, record, won, stale, late, faults>>

(* Somebody holds the writer lock, or the command fails before it gets     *)
(* there: Drop leaves a failed record.                                     *)
Held(p) ==
    /\ child[p] = "gate" /\ writer # None
    /\ record' = Job(p, "failed") /\ Goes(p, "exit")
    /\ UNCHANGED <<childVars, won, writer, stale, late, faults>>

FailsEarly(p) ==
    /\ child[p] = "gate" /\ Fails
    /\ record' = Job(p, "failed") /\ Goes(p, "exit")
    /\ UNCHANGED <<childVars, won, writer, stale, late>>

(* embedding_loading, embedding_started, embedding_progress.               *)
Progress(p) ==
    /\ child[p] = "build" /\ record # Job(p, "embedding")
    /\ record' = Job(p, "embedding")
    /\ UNCHANGED <<childVars, child, won, writer, stale, late, faults>>

(* An error of the build, or a workspace that two attempts find changed.   *)
BuildFails(p) ==
    /\ child[p] = "build" /\ Fails
    /\ record' = Job(p, "failed") /\ Goes(p, "exit")
    /\ UNCHANGED <<childVars, won, writer, stale, late>>

PublishesSnapshot(p) ==
    /\ child[p] = "build"
    /\ stale' = FALSE /\ Goes(p, "published")
    /\ UNCHANGED <<childVars, record, won, writer, late, faults>>

Complete(p) ==
    /\ child[p] = "published"
    /\ record' = None /\ won' = [won EXCEPT ![p] = TRUE] /\ Goes(p, "exit")
    /\ UNCHANGED <<childVars, writer, stale, late, faults>>

(* Embeddings are missing: the graph is published, the record says failed. *)
Degraded(p) ==
    /\ child[p] = "published" /\ Fault
    /\ record' = Job(p, "failed") /\ Goes(p, "exit")
    /\ UNCHANGED <<childVars, won, writer, stale, late>>

Unlock(p) == writer' = IF writer = p THEN None ELSE writer

(* Files could not be read, or a limit left some out: the snapshot is      *)
(* thrown away, and the early return drops the writer lock before the job  *)
(* guard, whose Drop leaves a failed record.                               *)
Unclean(p) ==
    /\ child[p] = "build" /\ Fails /\ Unlock(p) /\ Goes(p, "dropped")
    /\ UNCHANGED <<childVars, record, won, stale, late>>

DropFails(p) ==
    /\ child[p] = "dropped"
    /\ record' = Job(p, "failed") /\ Goes(p, "exit")
    /\ UNCHANGED <<childVars, won, writer, stale, late, faults>>

Exits(p) ==
    /\ child[p] = "exit" /\ Unlock(p) /\ Goes(p, "dead")
    /\ UNCHANGED <<childVars, record, won, stale, late, faults>>

Killed(p) ==
    /\ process_is_alive(p) /\ Fault /\ Unlock(p) /\ Goes(p, "dead")
    /\ UNCHANGED <<childVars, record, won, stale, late>>

-----------------------------------------------------------------------------
(* A foreground index run, an inline reindex or the probe of a status      *)
(* command takes the writer lock, and may publish before it drops it.      *)
OtherLocks(o) ==
    /\ o \in other /\ writer = None
    /\ writer' = o /\ other' = other \ {o}
    /\ UNCHANGED <<query, spawning, spawnLock, record, child, won, stale,
                   blocked, orphan, late, faults>>

OtherUnlocks(o) ==
    /\ writer = o /\ writer' = None
    /\ stale' \in {stale, FALSE}
    /\ UNCHANGED <<query, spawning, spawnLock, record, child, won, other,
                   blocked, orphan, late, faults>>

(* The workspace or its configuration changes.                             *)
Edit ==
    /\ stale' \in {stale, TRUE} /\ blocked' \in BOOLEAN
    /\ <<stale, blocked>>' # <<stale, blocked>>
    /\ UNCHANGED <<query, spawning, spawnLock, record, child, won, writer, other,
                   orphan, late, faults>>

QueryStep(q) ==
    \/ Request(q) \/ TakeSpawnLock(q) \/ AlreadyRunning(q)
    \/ \E p \in Pids : Spawn(q, p)
    \/ Publish(q) \/ Probe(q) \/ ProbeDone(q)
ChildStep(p) ==
    \/ Starts(p) \/ TimesOut(p) \/ Locks(p) \/ Held(p)
    \/ PublishesSnapshot(p) \/ Complete(p) \/ DropFails(p) \/ Exits(p)
Next ==
    \/ \E q \in Queries : \/ QueryStep(q) \/ SpawnFails(q) \/ PublishFails(q)
                          \/ QueryKilled(q)
    \/ \E p \in Pids : \/ ChildStep(p) \/ FailsEarly(p) \/ Progress(p)
                       \/ BuildFails(p) \/ Degraded(p) \/ Unclean(p) \/ Killed(p)
    \/ \E o \in Others : OtherLocks(o) \/ OtherUnlocks(o)
    \/ Edit

Spec == Init /\ [][Next]_vars

(* Queries keep coming while the index is stale and are not stopped for    *)
(* ever; the kernel runs every child; a lock holder ends.  Killing and     *)
(* failing are not fair, nor is winning the spawn lock for one query.      *)
FairSpec ==
    /\ Spec
    /\ WF_vars(\E q \in Queries : QueryStep(q))
    /\ \A q \in Queries : WF_vars(Publish(q) \/ Probe(q) \/ ProbeDone(q))
    /\ \A p \in Pids : WF_vars(ChildStep(p))
    /\ \A o \in Others : WF_vars(OtherUnlocks(o))

-----------------------------------------------------------------------------
TypeOK ==
    /\ query \in [Queries -> {"idle", "lock", "check", "spawned", "probe", "probing"}]
    /\ spawning \in [Queries -> Pids \cup {None}]
    /\ spawnLock \in Queries \cup {None}
    /\ record \in [pid : Pids, state : States] \cup {None}
    /\ child \in [Pids -> Gone \cup {"wait", "gate", "build", "published",
                             "dropped", "exit"}]
    /\ won \in [Pids -> BOOLEAN]
    /\ stale \in BOOLEAN /\ blocked \in BOOLEAN /\ orphan \in BOOLEAN
    /\ late \subseteq Pids
    /\ writer \in Pids \cup Queries \cup Others \cup {None}
    /\ other \subseteq Others /\ faults \in 0..MaxFaults

(* "Start at most one detached refresh for a worktree" (spawn_background_  *)
(* job): whatever is killed, as long as every spawned child was recorded,  *)
(* no second job starts before the first one is over; and while a job that *)
(* waited for its record builds, the record that status and later queries  *)
(* read names it: no rival, probe or late write has replaced or removed it.*)
OneJob ==
    ~orphan =>
      /\ Cardinality({p \in Pids : child[p] \notin Gone \cup {"exit"}}) <= 1
      /\ \A p \in Pids : child[p] = "build" /\ p \notin late
                             => record # None /\ record.pid = p

(* What the wait in from_env buys: a job that saw its record and completed *)
(* leaves none, whoever was killed or orphaned meanwhile; the `refreshing` *)
(* of its parent is not written over the removal.  The comment there says  *)
(* it of every small job, but the wait is bounded and the spawner is not:  *)
(* without `p \notin late` this is false, the spawner may publish after    *)
(* the child gave up, built and removed the record.                        *)
SeenRecordStaysRemoved ==
    \A p \in Pids : won[p] /\ p \notin late => record = None \/ record.pid # p

(* A stale index is refreshed again and again once nothing blocks it any   *)
(* more: no dead job, lost, late or left-over record, failed or unclean    *)
(* child, nor a rival or probe holding the writer lock for a while stops   *)
(* the refresh for ever.                                                   *)
RefreshHappens == <>[]~blocked => []<>~stale
=============================================================================
