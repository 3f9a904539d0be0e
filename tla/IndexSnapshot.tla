--------------------------- MODULE IndexSnapshot ---------------------------
(***************************************************************************)
(* The index store of one workspace: greppy processes that index it        *)
(* (dispatch_index, the inline index of a first query, the inline reindex  *)
(* of a stale one) and that answer queries from it, while files change.    *)
(*                                                                         *)
(* A file's state is a version number: content, metadata and existence at  *)
(* once, 0 being "not in the index".  An index file is an inode: a process *)
(* that opened it keeps it after a rename or an unlink of its path.  The   *)
(* per-file steps are single reads of the workspace: whatever compute_file *)
(* _diff and the extraction do with a file (stat, hash, stable read), the  *)
(* index ends up with the version of one instant of that work.  The shape  *)
(* of a version is what decides whether the indexer accepts it.            *)
(***************************************************************************)
EXTENDS Naturals, FiniteSets

CONSTANTS Files,        \* files of the workspace
          Procs,        \* slots for concurrent greppy processes
          Inodes,       \* slots for index files that are linked or open
          None,
          Shape(_, _),  \* Shape(f, v): "text", "absent", "large" (above the size
                        \* cap) or "broken" (unreadable, rejected by the parser)
          AutoReindex,  \* GREPPY_AUTO_REINDEX
          Background,   \* whether a drift may be too large to reindex inline
          Reverts,      \* whether an edit may restore an earlier version
          Limited,      \* whether a file limit or a time budget may cut a run
          Stranded,     \* whether the index may hold vectors of a model that is
                        \* no longer configured
          MaxVersion,   \* bound on the edits of a file
          MaxRuns,      \* bound on explicit `greppy index` runs
          MaxFaults     \* bound on crashes, damage, failed runs and reverts

ASSUME SnapshotAssumption ==
    /\ None \notin Procs \cup Inodes
    /\ AutoReindex \in BOOLEAN /\ Background \in BOOLEAN /\ Reverts \in BOOLEAN
    /\ Limited \in BOOLEAN /\ Stranded \in BOOLEAN
    /\ MaxVersion \in Nat \ {0} /\ MaxRuns \in Nat /\ MaxFaults \in Nat

VARIABLES
    ws,       \* [Files -> Nat]: the workspace
    disk,     \* [Inodes -> [content, gen, sane]]: index files
    active,   \* the inode at graph.db, or None
    temps,    \* the inodes at graph.db.next.*
    writer,   \* holder of the workspace's writer lock
    pc,       \* [Procs -> Labels]
    kind,     \* [Procs -> Kinds]: why a process indexes
    temp,     \* [Procs -> Inodes \cup {None}]: the snapshot it builds
    handle,   \* [Procs -> Inodes \cup {None}]: the index it queries
    todo,     \* [Procs -> SUBSET Files]: files left in the current loop
    drift,    \* [Procs -> BOOLEAN]: the comparison found a difference, or the
              \* report of the indexing is not clean
    attempt,  \* [Procs -> 1..2]: the loop of index_atomic_snapshot
    answer,   \* [Procs -> Answers]: what the process last returned
    runs, faults,
    cut,      \* history: the workspace when the last verification began
    begun     \* history: [Procs -> workspace when the freshness check began]

work == <<pc, kind, temp, handle, todo, drift, attempt, answer>>
files == <<disk, active, temps>>
vars == <<ws, files, writer, work, runs, faults, cut, begun>>

Labels == {"idle", "lock", "gate", "clean", "seed", "index", "verify",
           "prepare", "publish", "sweep", "open", "check", "serve"}
Kinds == {"none", "index", "auto", "reindex"}
Answers == {"none", "fresh", "refused", "error", "indexed"}
Workspace == [Files -> Nat]
IndexFile == [content : Workspace, gen : Nat, sane : BOOLEAN]

\* Labels at which the process holds the writer lock, and those at which it
\* owns a temporary snapshot.
Writing == {"gate", "clean", "seed", "index", "verify", "prepare", "publish",
            "sweep"}
Building == {"index", "verify", "prepare", "publish"}

TypeOK ==
    /\ ws \in Workspace
    /\ disk \in [Inodes -> IndexFile]
    /\ active \in Inodes \cup {None}
    /\ temps \subseteq Inodes
    /\ writer \in Procs \cup {None}
    /\ pc \in [Procs -> Labels]
    /\ kind \in [Procs -> Kinds]
    /\ temp \in [Procs -> Inodes \cup {None}]
    /\ handle \in [Procs -> Inodes \cup {None}]
    /\ todo \in [Procs -> SUBSET Files]
    /\ drift \in [Procs -> BOOLEAN]
    /\ attempt \in [Procs -> 1..2]
    /\ answer \in [Procs -> Answers]
    /\ runs \in 0..MaxRuns
    /\ faults \in 0..MaxFaults
    /\ cut \in Workspace
    /\ begun \in [Procs -> Workspace]

NoIndex == [content |-> [f \in Files |-> 0], gen |-> 0, sane |-> TRUE]

Init ==
    /\ ws = [f \in Files |-> 1]
    /\ disk = [n \in Inodes |-> NoIndex]
    /\ active = None /\ temps = {} /\ writer = None
    /\ pc = [p \in Procs |-> "idle"]
    /\ kind = [p \in Procs |-> "none"]
    /\ temp = [p \in Procs |-> None]
    /\ handle = [p \in Procs |-> None]
    /\ todo = [p \in Procs |-> {}]
    /\ drift = [p \in Procs |-> FALSE]
    /\ attempt = [p \in Procs |-> 1]
    /\ answer = [p \in Procs |-> "none"]
    /\ runs = 0 /\ faults = 0
    /\ cut = ws /\ begun = [p \in Procs |-> ws]

-----------------------------------------------------------------------------
Goto(p, l) == pc' = [pc EXCEPT ![p] = l]

\* The process returns a and gives up what it holds open.
Finish(p, a) ==
    /\ Goto(p, "idle")
    /\ answer' = [answer EXCEPT ![p] = a]
    /\ kind' = [kind EXCEPT ![p] = "none"]
    /\ temp' = [temp EXCEPT ![p] = None]
    /\ handle' = [handle EXCEPT ![p] = None]
    /\ todo' = [todo EXCEPT ![p] = {}]
    /\ drift' = [drift EXCEPT ![p] = FALSE]
    /\ attempt' = [attempt EXCEPT ![p] = 1]

\* A run that did not publish: what its caller makes of that.
GiveUp(p) ==
    /\ Finish(p, IF kind[p] = "reindex" THEN "refused" ELSE "error")
    /\ writer' = None

Fault == faults < MaxFaults /\ faults' = faults + 1

\* Loop over all files against index file n.
BeginLoop(p, l) ==
    /\ Goto(p, l)
    /\ todo' = [todo EXCEPT ![p] = Files]
    /\ drift' = [drift EXCEPT ![p] = FALSE]

\* The index has a file_state row for f: the version it holds is one that was
\* extracted, not the absence of a file or an oversize skip.
HasRow(n, f) == disk[n].content[f] # 0 /\ Shape(f, disk[n].content[f]) = "text"

\* compute_file_diff on one file.
Compare(p, f, n) ==
    /\ f \in todo[p]
    /\ todo' = [todo EXCEPT ![p] = @ \ {f}]
    /\ drift' = [drift EXCEPT ![p] = @ \/ disk[n].content[f] # ws[f]]
    /\ UNCHANGED <<ws, files, writer, pc, kind, temp, handle, attempt, answer,
                   runs, faults, cut, begun>>

-----------------------------------------------------------------------------
(* The workspace and the disk. *)

Edit(f) ==
    /\ ws[f] < MaxVersion
    /\ ws' = [ws EXCEPT ![f] = @ + 1]
    /\ UNCHANGED <<files, writer, work, runs, faults, cut, begun>>

Revert(f) ==
    /\ Reverts /\ Fault
    /\ ws[f] > 1
    /\ ws' = [ws EXCEPT ![f] = @ - 1]
    /\ UNCHANGED <<files, writer, work, runs, cut, begun>>

\* The published file is damaged: integrity_check fails from now on.
Corrupt ==
    /\ Fault
    /\ active # None /\ disk[active].sane
    /\ disk' = [disk EXCEPT ![active].sane = FALSE]
    /\ UNCHANGED <<ws, active, temps, writer, work, runs, cut, begun>>

\* Faulty form of Abandon: a lock that outlives its process.
AbandonKeepsLock(p) ==
    /\ Fault
    /\ pc[p] # "idle"
    /\ Finish(p, "error")
    /\ UNCHANGED <<ws, files, writer, runs, cut, begun>>

\* A process crashes, or an error leaves index_atomic_snapshot_attempt without
\* its cleanup: locks and handles close, files stay.
Abandon(p) ==
    /\ Fault
    /\ pc[p] # "idle"
    /\ Finish(p, "error")
    /\ writer' = IF writer = p THEN None ELSE writer
    /\ UNCHANGED <<ws, files, runs, cut, begun>>

-----------------------------------------------------------------------------
(* Indexing: dispatch_index, try_auto_index_inline, try_auto_reindex_inline. *)

StartIndex(p) ==
    /\ pc[p] = "idle" /\ runs < MaxRuns
    /\ runs' = runs + 1
    /\ kind' = [kind EXCEPT ![p] = "index"]
    /\ answer' = [answer EXCEPT ![p] = "none"]
    /\ Goto(p, "lock")
    /\ UNCHANGED <<ws, files, writer, temp, handle, todo, drift, attempt,
                   faults, cut, begun>>

\* Faulty form of Lock: a held lock is not an obstacle.
LockIgnoresHeld(p) ==
    /\ pc[p] = "lock"
    /\ writer' = p
    /\ Goto(p, "gate")
    /\ UNCHANGED <<kind, temp, handle, todo, drift, attempt, answer>>
    /\ UNCHANGED <<ws, files, runs, faults, cut, begun>>

\* try_acquire: nobody waits for the writer lock.
Lock(p) ==
    /\ pc[p] = "lock"
    /\ \/ /\ writer = None
          /\ writer' = p
          /\ Goto(p, "gate")
          /\ UNCHANGED <<kind, temp, handle, todo, drift, attempt, answer>>
       \/ /\ writer # None
          /\ Finish(p, IF kind[p] = "reindex" THEN "refused" ELSE "error")
          /\ UNCHANGED writer
    /\ UNCHANGED <<ws, files, runs, faults, cut, begun>>

Usable == active # None /\ disk[active].sane

\* What keeps an inline reindex from starting: the store cannot be opened, or it
\* has vectors and there is no model to rebuild them with.
MayNotReindex == ~Usable \/ Stranded

\* Faulty form of Gate: the first-use index trusts the check made before the
\* lock.
GateTrustsEarlierCheck(p) ==
    /\ pc[p] = "gate"
    /\ Goto(p, "clean")
    /\ UNCHANGED <<ws, files, writer, kind, temp, handle, todo, drift, attempt,
                   answer, runs, faults, cut, begun>>

\* With the lock held: a first-use index finds the store another process made,
\* an inline reindex looks at the store it is to replace.
Gate(p) ==
    /\ pc[p] = "gate"
    /\ \/ /\ kind[p] = "auto" /\ active # None
          /\ Goto(p, "open")
          /\ writer' = None
          /\ UNCHANGED <<kind, temp, handle, todo, drift, attempt, answer>>
       \/ kind[p] = "reindex" /\ MayNotReindex /\ GiveUp(p)
       \/ /\ ~(kind[p] = "auto" /\ active # None)
          /\ ~(kind[p] = "reindex" /\ active = None)
          /\ Goto(p, "clean")
          /\ UNCHANGED <<writer, kind, temp, handle, todo, drift, attempt, answer>>
    /\ UNCHANGED <<ws, files, runs, faults, cut, begun>>

\* Faulty form of Clean: snapshots left by crashed runs stay.
CleanNothing(p) ==
    /\ pc[p] = "clean"
    /\ Goto(p, "seed")
    /\ UNCHANGED <<ws, files, writer, kind, temp, handle, todo, drift,
                   attempt, answer, runs, faults, cut, begun>>

\* cleanup_stale_snapshot_artifacts removes every graph.db.next.*.
Clean(p) ==
    /\ pc[p] = "clean"
    /\ temps' = {}
    /\ Goto(p, "seed")
    /\ UNCHANGED <<ws, disk, active, writer, kind, temp, handle, todo, drift,
                   attempt, answer, runs, faults, cut, begun>>

Free == Inodes \ (temps \cup {active} \cup {handle[q] : q \in Procs}
                        \cup {temp[q] : q \in Procs})

\* Faulty form of Seed: the run works on the published file itself.
SeedInPlace(p) ==
    /\ pc[p] = "seed"
    /\ \E n \in IF Usable THEN {active} ELSE Free :
          /\ disk' = [disk EXCEPT ![n] =
                        [IF Usable THEN disk[active] ELSE NoIndex
                         EXCEPT !.gen = @ + 1]]
          /\ temp' = [temp EXCEPT ![p] = n]
          /\ temps' = temps \cup {n}
    /\ BeginLoop(p, "index")
    /\ UNCHANGED <<ws, active, writer, kind, handle, attempt, answer, runs,
                   faults, cut, begun>>

\* seed_temp_store_from_active_if_usable copies the published index into a new
\* file, or a new database is created; bump_generation.
Seed(p) ==
    /\ pc[p] = "seed"
    /\ \E n \in Free :
          /\ disk' = [disk EXCEPT ![n] =
                        [IF Usable THEN disk[active] ELSE NoIndex
                         EXCEPT !.gen = @ + 1]]
          /\ temp' = [temp EXCEPT ![p] = n]
          /\ temps' = temps \cup {n}
    /\ BeginLoop(p, "index")
    /\ UNCHANGED <<ws, active, writer, kind, handle, attempt, answer, runs,
                   faults, cut, begun>>

\* index_with_options brings one file of the index up to date.  A file that it
\* cannot read or parse makes the report unclean.  One that has outgrown the size
\* cap is skipped, but the row of its last small version stays, and with it the
\* version that the next comparison will find.
IndexOne(p, f) ==
    /\ pc[p] = "index"
    /\ f \in todo[p]
    /\ disk' = IF \/ Shape(f, ws[f]) = "broken"
                  \/ Shape(f, ws[f]) = "large" /\ HasRow(temp[p], f)
               THEN disk
               ELSE [disk EXCEPT ![temp[p]].content[f] = ws[f]]
    /\ drift' = [drift EXCEPT ![p] = @ \/ Shape(f, ws[f]) = "broken"]
    /\ todo' = [todo EXCEPT ![p] = @ \ {f}]
    /\ UNCHANGED <<ws, active, temps, writer, pc, kind, temp, handle, attempt,
                   answer, runs, faults, cut, begun>>

\* The report is not clean: the temporary snapshot is removed and nothing is
\* published, however often it is tried.
Unclean(p) ==
    /\ pc[p] = "index" /\ todo[p] = {} /\ drift[p]
    /\ temps' = temps \ {temp[p]}
    /\ GiveUp(p)
    /\ UNCHANGED <<ws, disk, active, runs, faults, cut, begun>>

\* A file limit, a time budget or an error has the same end.
IndexFails(p) ==
    /\ Fault \/ (Limited /\ UNCHANGED faults)
    /\ pc[p] = "index"
    /\ temps' = temps \ {temp[p]}
    /\ GiveUp(p)
    /\ UNCHANGED <<ws, disk, active, runs, cut, begun>>

\* Faulty form of BeginVerify: the snapshot is published as it was built.
BeginVerifySkipped(p) ==
    /\ pc[p] = "index" /\ todo[p] = {} /\ ~drift[p]
    /\ cut' = ws
    /\ Goto(p, "prepare")
    /\ UNCHANGED <<ws, files, writer, kind, temp, handle, todo, drift, attempt,
                   answer, runs, faults, begun>>

\* The snapshot is checkpointed, synced and reopened, then compared with the
\* workspace (check_files_report_with_ttl).
BeginVerify(p) ==
    /\ pc[p] = "index" /\ todo[p] = {} /\ ~drift[p]
    /\ cut' = ws
    /\ BeginLoop(p, "verify")
    /\ UNCHANGED <<ws, files, writer, kind, temp, handle, attempt, answer, runs,
                   faults, begun>>

VerifyFile(p, f) == pc[p] = "verify" /\ Compare(p, f, temp[p])

\* Faulty form of Verified: the loop has no second-attempt limit.
VerifiedRetriesOn(p) ==
    /\ pc[p] = "verify" /\ todo[p] = {}
    /\ \/ /\ ~drift[p]
          /\ Goto(p, "prepare")
          /\ UNCHANGED <<temps, temp, attempt>>
       \/ /\ drift[p]
          /\ temps' = temps \ {temp[p]}
          /\ attempt' = [attempt EXCEPT ![p] = @ + 1]
          /\ temp' = [temp EXCEPT ![p] = None]
          /\ Goto(p, "clean")
    /\ UNCHANGED <<writer, kind, handle, todo, drift, answer, ws, disk, active,
                   runs, faults, cut, begun>>

\* Fresh: go on to publish.  Otherwise (drift, or the check could not tell) the
\* snapshot is removed; index_atomic_snapshot tries once more.
Verified(p) ==
    /\ pc[p] = "verify" /\ todo[p] = {}
    /\ \/ /\ ~drift[p]
          /\ Goto(p, "prepare")
          /\ UNCHANGED <<temps, writer, kind, temp, handle, todo, drift, attempt,
                         answer, faults>>
       \/ /\ IF drift[p] THEN UNCHANGED faults ELSE Fault
          /\ temps' = temps \ {temp[p]}
          /\ \/ /\ attempt[p] = 1
                /\ attempt' = [attempt EXCEPT ![p] = 2]
                /\ temp' = [temp EXCEPT ![p] = None]
                /\ Goto(p, "clean")
                /\ UNCHANGED <<writer, kind, handle, todo, drift, answer>>
             \/ attempt[p] = 2 /\ GiveUp(p)
    /\ UNCHANGED <<ws, disk, active, runs, cut, begun>>

\* publish_store_snapshot checks the store it is about to replace and sets a
\* damaged one aside.
Prepare(p) ==
    /\ pc[p] = "prepare"
    /\ active' = IF Usable THEN active ELSE None
    /\ Goto(p, "publish")
    /\ UNCHANGED <<ws, disk, temps, writer, kind, temp, handle, todo, drift,
                   attempt, answer, runs, faults, cut, begun>>

\* rename(temp_path, active_path); LiveTempKept says that temp_path exists.
Publish(p) ==
    /\ pc[p] = "publish"
    /\ temp[p] \in temps
    /\ active' = temp[p]
    /\ temps' = temps \ {temp[p]}
    /\ temp' = [temp EXCEPT ![p] = None]
    /\ Goto(p, "sweep")
    /\ UNCHANGED <<ws, disk, writer, kind, handle, todo, drift, attempt, answer,
                   runs, faults, cut, begun>>

\* The second cleanup, and the guards are dropped.  A first-use index goes on
\* with its query; an inline reindex refuses it all the same ("refreshing").
Sweep(p) ==
    /\ pc[p] = "sweep"
    /\ temps' = {}
    /\ writer' = None
    /\ \/ /\ kind[p] = "auto"
          /\ Goto(p, "open")
          /\ kind' = [kind EXCEPT ![p] = "none"]
          /\ UNCHANGED <<temp, handle, todo, drift, attempt, answer>>
       \/ kind[p] = "index" /\ Finish(p, "indexed")
       \/ kind[p] = "reindex" /\ Finish(p, "refused")
    /\ UNCHANGED <<ws, disk, active, runs, faults, cut, begun>>

-----------------------------------------------------------------------------
(* Queries: open_default_store and freshness_serve_decision. *)

StartQuery(p) ==
    /\ pc[p] = "idle"
    /\ answer' = [answer EXCEPT ![p] = IF active = None /\ ~AutoReindex
                                       THEN "error" ELSE "none"]
    /\ \/ active # None /\ Goto(p, "open") /\ UNCHANGED kind
       \/ /\ active = None /\ AutoReindex
          /\ Goto(p, "lock")
          /\ kind' = [kind EXCEPT ![p] = "auto"]
       \/ active = None /\ ~AutoReindex /\ UNCHANGED <<pc, kind>>
    /\ UNCHANGED <<ws, files, writer, temp, handle, todo, drift, attempt, runs,
                   faults, cut, begun>>

\* Store::open_with(read_only): whatever is at the path now, if anything is.
Open(p) ==
    /\ pc[p] = "open"
    /\ \/ /\ active # None
          /\ handle' = [handle EXCEPT ![p] = active]
          /\ begun' = [begun EXCEPT ![p] = ws]
          /\ kind' = [kind EXCEPT ![p] = "none"]
          /\ attempt' = [attempt EXCEPT ![p] = 1]
          /\ BeginLoop(p, "check")
          /\ UNCHANGED <<temp, answer>>
       \/ /\ ~Usable
          /\ Finish(p, "error")
          /\ UNCHANGED begun
    /\ UNCHANGED <<ws, files, writer, runs, faults, cut>>

CheckFile(p, f) == pc[p] = "check" /\ Compare(p, f, handle[p])

\* Fresh: answer.  Stale: reindex inline and refuse.  Unknown (the time budget
\* ran out, the walk failed), or refreshing switched off: refuse.  So does a
\* drift above AUTO_REINDEX_MAX_FILES, after starting `greppy index` in another
\* process: a StartIndex.
Verdict(p) ==
    /\ pc[p] = "check" /\ todo[p] = {}
    /\ \/ /\ ~drift[p]
          /\ Goto(p, "serve")
          /\ UNCHANGED <<kind, temp, handle, todo, drift, attempt, answer, faults>>
       \/ /\ drift[p] /\ AutoReindex
          /\ Goto(p, "lock")
          /\ kind' = [kind EXCEPT ![p] = "reindex"]
          /\ UNCHANGED <<temp, handle, todo, drift, attempt, answer, faults>>
       \/ /\ drift[p] /\ (~AutoReindex \/ Background) /\ UNCHANGED faults
          /\ Finish(p, "refused")
       \/ Fault /\ Finish(p, "refused")
    /\ UNCHANGED <<ws, files, writer, runs, cut, begun>>

\* The rows are read from the index that was checked.
Serve(p) ==
    /\ pc[p] = "serve"
    /\ Finish(p, IF disk[handle[p]].sane THEN "fresh" ELSE "error")
    /\ UNCHANGED <<ws, files, writer, runs, faults, cut, begun>>

-----------------------------------------------------------------------------
Step(p) ==
    \/ Lock(p) \/ Gate(p) \/ Clean(p) \/ Seed(p) \/ Unclean(p) \/ BeginVerify(p)
    \/ Verified(p) \/ Prepare(p) \/ Publish(p) \/ Sweep(p) \/ Open(p) \/ Verdict(p) \/ Serve(p)
    \/ \E f \in Files : IndexOne(p, f) \/ VerifyFile(p, f) \/ CheckFile(p, f)

Next ==
    \/ \E f \in Files : Edit(f) \/ Revert(f)
    \/ Corrupt
    \/ \E p \in Procs : \/ StartIndex(p) \/ StartQuery(p) \/ Step(p)
                        \/ IndexFails(p) \/ Abandon(p)

Spec == Init /\ [][Next]_vars

\* Processes run to their end and queries keep coming.  Nothing is assumed of
\* edits, of explicit index runs or of faults.
FairSpec ==
    Spec /\ \A p \in Procs : WF_vars(Step(p)) /\ WF_vars(StartQuery(p))

-----------------------------------------------------------------------------
(* Properties. *)

\* A snapshot under construction is not removed by the cleanup of another run:
\* the writer lock keeps two runs from overlapping.
LiveTempKept == \A p \in Procs : pc[p] \in Building => temp[p] \in temps

\* Whatever crashed, at most one full-size temporary snapshot occupies disk.
OneTemp == \A m, n \in temps : m = n

\* An index that a query has open never changes under it.
HandleImmutable ==
    [][\A p \in Procs : handle[p] # None /\ handle'[p] = handle[p] =>
          /\ disk'[handle[p]].content = disk[handle[p]].content
          /\ disk'[handle[p]].gen = disk[handle[p]].gen]_vars

\* Rows served as fresh come from an index that equals the whole workspace as it
\* was at one instant after the query began, however files changed meanwhile.
FreshMeansCurrent ==
    [][\A p \in Procs : answer[p] # "fresh" /\ answer'[p] = "fresh" =>
          disk[handle[p]].content = begun[p]]_vars

\* Every index that replaces another one has a higher generation.
GenerationGrows ==
    [][active # active' /\ active # None /\ active' # None =>
          disk'[active'].gen > disk[active].gen]_vars

\* A first-use index never replaces a store that another process published.
FirstUseReplacesNothing ==
    [][\A p \in Procs : pc[p] = "publish" /\ kind[p] = "auto" /\ active' # active
          => active = None]_vars

\* What readers find at graph.db is what AtomicSnapshot promises.
Published == IF Usable THEN disk[active].content ELSE None
Abstract == INSTANCE AtomicSnapshot
               WITH captured <- cut, published <- Published, Missing <- None
ImplementsAtomicSnapshot == Abstract!Spec

\* The published file is damaged, which queries do not repair; a file that the
\* indexer rejects; a file with a row that has outgrown the size cap.
Damaged == active # None /\ ~Usable
Rejected == \E f \in Files : Shape(f, ws[f]) = "broken"
Outgrown == active # None /\ \E f \in Files : Shape(f, ws[f]) = "large" /\ HasRow(active, f)

\* Queries are answered as fresh again and again: no interleaving of edits,
\* refusals, contention and abandoned runs is permanent, unless it ends with the
\* index damaged or with a file that stays rejected or outgrown.  It is meant for
\* the inline refresh, without limits and with the model of the vectors at hand.
QueriesServed ==
    ~Background /\ ~Limited /\ ~Stranded =>
        \/ []<>(\E p \in Procs : answer[p] = "fresh")
        \/ <>[]Damaged \/ <>[]Rejected \/ <>[]Outgrown

\* A file above the size cap is skipped (MAX_FILE_SIZE_BYTES) and is no reason to
\* refuse queries for ever: it "must be Unchanged, not re-Modified every grep"
\* (oversize_file_is_diffed_by_stat_not_read).
OversizeFilesSkipped ==
    ~Background /\ ~Limited /\ ~Stranded =>
        \/ []<>(\E p \in Procs : answer[p] = "fresh")
        \/ <>[]Damaged \/ <>[]Rejected
=============================================================================
