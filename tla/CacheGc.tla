------------------------------ MODULE CacheGc ------------------------------
(***************************************************************************)
(* The managed cache under greppy's data root (crates/core/src/cache.rs):  *)
(* workspace stores and extracted models, the lifecycle leases of the      *)
(* processes that use them, and the collections that remove them through   *)
(* the trash: the throttled one every command starts with (maybe_gc),      *)
(* `greppy cache gc` (run_gc, with its dry run) and `greppy cache clear`.  *)
(*                                                                         *)
(* A directory is absent, bare (without the manifest or marker that makes  *)
(* it managed) or managed.  A scan, which reads one entry after the other, *)
(* is one step: what it reads of one entry does not depend on another.     *)
(***************************************************************************)
EXTENDS Integers, FiniteSets, FiniteSetsExt

CONSTANTS Stores,     \* workspace stores
          Models,     \* extracted models
          Procs,      \* slots for greppy processes, one command at a time
          None,       \* no entry, no process
          Kinds,      \* the collections that are run: some of Collections
          Size,       \* [Entries -> Nat]: bytes of an entry
          High, Low,  \* high and low water marks; High = 0: no quota
          Ttl,        \* 0: no expiry
          Gap,        \* LAST_USED_WRITE_GAP
          Grace,      \* ORPHAN_GRACE_SECS
          Interval,   \* time between two throttled collections
          MaxTime,    \* bound on the clock
          MaxFaults   \* bound on crashes and failed removals

Entries == Stores \cup Models

\* maybe_gc, run_gc, run_gc without removing, clear_cache.
Collections == {"auto", "gc", "dry", "clear"}

ASSUME CacheAssumption ==
    /\ Stores \cap Models = {} /\ None \notin Entries \cup Procs
    /\ IsFiniteSet(Entries)
    /\ Kinds \subseteq Collections
    /\ Size \in [Entries -> Nat]
    /\ {High, Low, Ttl, Gap, Grace, Interval, MaxTime, MaxFaults} \subseteq Nat
    /\ Low <= High        \* GcPolicy::from_env: nine tenths of High

Never == -1           \* no timestamp
Times == 0..MaxTime

Commands == {"none", "index", "query", "model"} \cup Collections
Labels == {"idle", "ensure", "touch", "touching", "index_lease", "build",
           "recheck", "manifest", "open_lease", "open", "using",
           "extract_lease", "extract", "model_lease", "gc_lock", "trash",
           "scan", "expire", "quota", "clear", "move", "delete", "report"}

VARIABLES
    dir,      \* [Entries -> {"none", "bare", "managed"}]
    db,       \* [Entries -> BOOLEAN]: graph.db, or the model file, is there
    last,     \* [Entries -> Times]: .lastused, or the directory's mtime
    exists,   \* [Stores -> BOOLEAN]: the workspace root exists
    orphan,   \* [Stores -> Times \cup {Never}]: .orphaned_since
    trash,    \* [Entries -> [full, partial : Nat]]: directories in the trash,
              \*   with their manifest and without it
    lease,    \* [Entries -> SUBSET Procs]: holders of the shared lease
    xlease,   \* [Entries -> Procs \cup {None}]: holder of the exclusive lease
    gcLock,   \* holder of the global.gc lock
    gcLast,   \* gc.state
    gc,       \* what the collection that holds global.gc has read and reported
    todo,     \* the entries it has not visited
    victim,   \* the entry it is removing
    pc, ret,  \* [Procs -> Labels]: next step, and where a call returns to
    cmd,      \* [Procs -> Commands]
    ent,      \* [Procs -> Entries \cup {None}]: the entry a command is about
    now,
    faults

vars == <<dir, db, last, exists, orphan, trash, lease, xlease, gcLock, gcLast,
          gc, todo, victim, pc, ret, cmd, ent, now, faults>>

disk == <<dir, db, last, orphan, trash>>
locks == <<lease, xlease, gcLock>>
pass == <<gc, todo, victim>>
world == <<exists, now>>

NoPass == [seen |-> [e \in Entries |-> Never], old |-> {}, remaining |-> 0,
           removed |-> {}, skipped |-> {}]

TypeOK ==
    /\ dir \in [Entries -> {"none", "bare", "managed"}]
    /\ db \in [Entries -> BOOLEAN]
    /\ last \in [Entries -> Times]
    /\ exists \in [Stores -> BOOLEAN]
    /\ orphan \in [Stores -> Times \cup {Never}]
    /\ trash \in [Entries -> [full : Nat, partial : Nat]]
    /\ lease \in [Entries -> SUBSET Procs]
    /\ xlease \in [Entries -> Procs \cup {None}]
    /\ gcLock \in Procs \cup {None}
    /\ gcLast \in Times \cup {Never}
    /\ gc \in [seen : [Entries -> Times \cup {Never}], old : SUBSET Entries,
               remaining : Nat, removed : SUBSET Entries,
               skipped : SUBSET Entries]
    /\ todo \in SUBSET Entries /\ victim \in Entries \cup {None}
    /\ pc \in [Procs -> Labels] /\ ret \in [Procs -> Labels]
    /\ cmd \in [Procs -> Commands]
    /\ ent \in [Procs -> Entries \cup {None}]
    /\ now \in Times /\ faults \in 0..MaxFaults

Init ==
    /\ dir = [e \in Entries |-> "none"]
    /\ db = [e \in Entries |-> FALSE]
    /\ last = [e \in Entries |-> 0]
    /\ exists = [s \in Stores |-> TRUE]
    /\ orphan = [s \in Stores |-> Never]
    /\ trash = [e \in Entries |-> [full |-> 0, partial |-> 0]]
    /\ lease = [e \in Entries |-> {}] /\ xlease = [e \in Entries |-> None]
    /\ gcLock = None /\ gcLast = Never
    /\ gc = NoPass /\ todo = {} /\ victim = None
    /\ pc = [p \in Procs |-> "idle"] /\ ret = [p \in Procs |-> "idle"]
    /\ cmd = [p \in Procs |-> "none"] /\ ent = [p \in Procs |-> None]
    /\ now = 0 /\ faults = 0

-----------------------------------------------------------------------------
(* Helpers. *)

Goto(p, l) == pc' = [pc EXCEPT ![p] = l] /\ UNCHANGED ret

\* Call touch_last_used_dir and continue at l when it returns.
CallTouch(p, l) ==
    /\ pc' = [pc EXCEPT ![p] = "touch"]
    /\ ret' = [ret EXCEPT ![p] = l]

Begin(p, c, e, l) ==
    /\ pc[p] = "idle"
    /\ pc' = [pc EXCEPT ![p] = l]
    /\ cmd' = [cmd EXCEPT ![p] = c]
    /\ ent' = [ent EXCEPT ![p] = e]
    /\ UNCHANGED ret

\* The command returns and its guards are dropped, or its process is killed:
\* either way the operating system releases its locks.
End(p) ==
    /\ pc' = [pc EXCEPT ![p] = "idle"] /\ ret' = [ret EXCEPT ![p] = "idle"]
    /\ cmd' = [cmd EXCEPT ![p] = "none"] /\ ent' = [ent EXCEPT ![p] = None]
    /\ lease' = [e \in Entries |-> lease[e] \ {p}]
    /\ xlease' = [e \in Entries |-> IF xlease[e] = p THEN None ELSE xlease[e]]
    /\ gcLock' = IF gcLock = p THEN None ELSE gcLock
    /\ gc' = IF gcLock = p THEN NoPass ELSE gc
    /\ todo' = IF gcLock = p THEN {} ELSE todo
    /\ victim' = IF gcLock = p THEN None ELSE victim

\* ensure_one_directory: create the directory if nothing is there.
MakeDir(e, as) ==
    /\ dir' = [dir EXCEPT ![e] = as]
    /\ last' = IF dir[e] = "none" THEN [last EXCEPT ![e] = now] ELSE last

-----------------------------------------------------------------------------
(* Users of the cache. *)

TouchCheck(p) ==
    /\ pc[p] = "touch"
    /\ IF dir[ent[p]] = "none" \/ now - last[ent[p]] < Gap
       THEN Goto(p, ret[p])
       ELSE Goto(p, "touching")
    /\ UNCHANGED <<disk, locks, gcLast, pass, cmd, ent, world, faults>>

\* atomic_write creates the directory again if it is gone by now.
TouchWrite(p) ==
    /\ pc[p] = "touching"
    /\ dir' = [dir EXCEPT ![ent[p]] = IF @ = "none" THEN "bare" ELSE @]
    /\ last' = [last EXCEPT ![ent[p]] = now]
    /\ Goto(p, ret[p])
    /\ UNCHANGED <<db, orphan, trash, locks, gcLast, pass, cmd, ent, world, faults>>

StartIndex(p, s) ==
    /\ exists[s]
    /\ Begin(p, "index", s, "ensure")
    /\ UNCHANGED <<disk, locks, gcLast, pass, world, faults>>

\* ensure_workspace_store, before any lease is held.
Ensure(p) ==
    /\ pc[p] = "ensure"
    /\ MakeDir(ent[p], "managed")
    /\ CallTouch(p, "index_lease")
    /\ UNCHANGED <<db, orphan, trash, locks, gcLast, pass, cmd, ent, world, faults>>

\* The blocking shared lease of p's entry; next: what it is taken for.
LeaseFor(p, l, next) ==
    /\ pc[p] = l
    /\ xlease[ent[p]] = None
    /\ lease' = [lease EXCEPT ![ent[p]] = @ \cup {p}]
    /\ Goto(p, next)
    /\ UNCHANGED <<disk, xlease, gcLock, gcLast, pass, cmd, ent, world, faults>>

IndexLease(p) == LeaseFor(p, "index_lease", "build")

\* index_atomic_snapshot; a run that is refused, fails or finds no directory
\* publishes nothing.  A first-use index returns to the query it serves.
Build(p) ==
    /\ pc[p] = "build"
    /\ \/ dir[ent[p]] # "none" /\ db' = [db EXCEPT ![ent[p]] = TRUE]
       \/ UNCHANGED db
    /\ IF cmd[p] = "query"
       THEN /\ Goto(p, "recheck")
            /\ lease' = [lease EXCEPT ![ent[p]] = @ \ {p}]
            /\ UNCHANGED <<xlease, gcLock, pass, cmd, ent>>
       ELSE End(p)
    /\ UNCHANGED <<dir, last, orphan, trash, gcLast, world, faults>>

\* open_default_store: ensure_store_dir, then the first-use index if needed.
StartQuery(p, s) ==
    /\ exists[s]
    /\ Begin(p, "query", s, IF db[s] THEN "manifest" ELSE "ensure")
    /\ MakeDir(s, IF dir[s] = "none" THEN "bare" ELSE dir[s])
    /\ UNCHANGED <<db, orphan, trash, locks, gcLast, pass, world, faults>>

Recheck(p) ==
    /\ pc[p] = "recheck"
    /\ IF db[ent[p]]
       THEN Goto(p, "manifest") /\ UNCHANGED <<locks, pass, cmd, ent>>
       ELSE End(p)
    /\ UNCHANGED <<disk, gcLast, world, faults>>

\* workspace_lifecycle_for_path: without a manifest the store is opened
\* without a lease.
ReadManifest(p) ==
    /\ pc[p] = "manifest"
    /\ Goto(p, IF dir[ent[p]] = "managed" THEN "open_lease" ELSE "open")
    /\ UNCHANGED <<disk, locks, gcLast, pass, cmd, ent, world, faults>>

OpenLease(p) == LeaseFor(p, "open_lease", "open")

\* Opening the database, or loading the model file, of p's entry.
Open(p) ==
    /\ pc[p] = "open"
    /\ IF db[ent[p]]
       THEN /\ IF cmd[p] = "query" THEN CallTouch(p, "using") ELSE Goto(p, "using")
            /\ UNCHANGED <<locks, pass, cmd, ent>>
       ELSE End(p)
    /\ UNCHANGED <<disk, gcLast, world, faults>>

Close(p) ==
    /\ pc[p] = "using"
    /\ End(p)
    /\ UNCHANGED <<disk, gcLast, world, faults>>

\* extract_embedded_asset, up to the exclusive lease.
StartModel(p, m) ==
    /\ pc[p] = "idle"
    /\ MakeDir(m, IF dir[m] = "none" THEN "bare" ELSE dir[m])
    /\ cmd' = [cmd EXCEPT ![p] = "model"]
    /\ ent' = [ent EXCEPT ![p] = m]
    /\ IF dir[m] = "managed" /\ db[m]
       THEN CallTouch(p, "model_lease")
       ELSE pc' = [pc EXCEPT ![p] = "extract_lease"] /\ UNCHANGED ret
    /\ UNCHANGED <<db, orphan, trash, locks, gcLast, pass, world, faults>>

ExtractLease(p) ==
    /\ pc[p] = "extract_lease"
    /\ lease[ent[p]] = {} /\ xlease[ent[p]] = None
    /\ xlease' = [xlease EXCEPT ![ent[p]] = p]
    /\ Goto(p, "extract")
    /\ UNCHANGED <<disk, lease, gcLock, gcLast, pass, cmd, ent, world, faults>>

\* Ensure the directory again, write the file and its marker, release.
Extract(p) ==
    /\ pc[p] = "extract"
    /\ dir' = [dir EXCEPT ![ent[p]] = "managed"]
    /\ db' = [db EXCEPT ![ent[p]] = TRUE]
    /\ last' = [last EXCEPT ![ent[p]] = now]
    /\ xlease' = [xlease EXCEPT ![ent[p]] = None]
    /\ CallTouch(p, "model_lease")
    /\ UNCHANGED <<orphan, trash, lease, gcLock, gcLast, pass, cmd, ent, world,
                   faults>>

\* The file or its marker could not be written.
ExtractFails(p) ==
    /\ pc[p] = "extract"
    /\ MakeDir(ent[p], IF dir[ent[p]] = "none" THEN "bare" ELSE dir[ent[p]])
    /\ End(p)
    /\ UNCHANGED <<db, orphan, trash, gcLast, world, faults>>

ModelLease(p) == LeaseFor(p, "model_lease", "open")

-----------------------------------------------------------------------------
(* Collections. *)

\* e is the current workspace, or the one workspace `cache clear` is about.
StartGc(p, c, e) ==
    /\ Begin(p, c, e, "gc_lock")
    /\ UNCHANGED <<disk, locks, gcLast, pass, world, faults>>

Throttled == gcLast # Never /\ now - gcLast < Interval

GcLock(p) ==
    /\ pc[p] = "gc_lock" /\ gcLock = None
    /\ cmd[p] = "auto" => ~Throttled
    /\ gcLock' = p
    /\ todo' = Entries
    /\ Goto(p, IF cmd[p] = "dry" THEN "scan" ELSE "trash")
    /\ UNCHANGED <<disk, gc, victim, lease, xlease, gcLast, cmd, ent, world, faults>>

\* maybe_gc returns at once while another collection runs, or too soon after.
GcThrottled(p) ==
    /\ pc[p] = "gc_lock" /\ cmd[p] = "auto"
    /\ gcLock # None \/ Throttled
    /\ End(p)
    /\ UNCHANGED <<disk, gcLast, world, faults>>

\* Faulty form of CleanTrash: interrupted removals are left behind.
CleanTrashNot(p) ==
    /\ pc[p] = "trash"
    /\ \E e \in todo : todo' = todo \ {e}
    /\ UNCHANGED <<disk, gc, victim, locks, gcLast, pc, ret, cmd, ent, world, faults>>

\* cleanup_trash, one entry: only directories that still hold their manifest
\* are verified and removed.
CleanTrash(p) ==
    /\ pc[p] = "trash"
    /\ \E e \in todo :
          /\ todo' = todo \ {e}
          /\ trash' = [trash EXCEPT ![e].full = 0]
    /\ UNCHANGED <<dir, db, last, orphan, gc, victim, locks, gcLast, pc, ret, cmd, ent,
                   world, faults>>

\* One of the removals fails half way; the error is ignored.
CleanTrashFails(p) ==
    /\ pc[p] = "trash"
    /\ faults < MaxFaults /\ faults' = faults + 1
    /\ \E e \in todo :
          /\ trash[e].full > 0
          /\ todo' = todo \ {e}
          /\ trash' = [trash EXCEPT ![e].full = 0, ![e].partial = @ + 1]
    /\ UNCHANGED <<dir, db, last, orphan, gc, victim, locks, gcLast, pc, ret, cmd, ent, world>>

CleanTrashDone(p) ==
    /\ pc[p] = "trash" /\ todo = {}
    /\ Goto(p, "scan")
    /\ UNCHANGED <<disk, locks, gcLast, pass, cmd, ent, world, faults>>

\* Faulty form of Managed: every directory with the right name is managed.
ManagedByName == {e \in Entries : dir[e] # "none"}

\* The directories whose manifest, or marker, is valid.
Managed == {e \in Entries : dir[e] = "managed"}

\* update_orphan_marker; only a collection that may remove makes new marks.
OrphanMarks(mark) ==
    [s \in Stores |->
        CASE s \notin Managed -> orphan[s]
          [] s \in Managed /\ exists[s] -> Never
          [] s \in Managed /\ ~exists[s] /\ orphan[s] # Never -> orphan[s]
          [] OTHER -> IF mark THEN now ELSE Never]

\* Last use or orphaned time beyond their limits, as gc_locked tests them.
Expired(e, marks) ==
    \/ Ttl > 0 /\ now - last[e] > Ttl
    \/ e \in Stores /\ marks[e] # Never /\ now - marks[e] > Grace

Total(S) == MapThenSumSet(LAMBDA e : Size[e], S)

\* The entries a pass of p may remove.
Eligible(p) ==
    IF cmd[p] # "clear" THEN Managed \ {ent[p]}
    ELSE IF ent[p] = None THEN Managed ELSE Managed \cap {ent[p]}

\* scan_entries
Scan(p) ==
    /\ pc[p] = "scan"
    /\ LET marks == OrphanMarks(cmd[p] \in {"auto", "gc"}) IN
          /\ orphan' = marks
          /\ gc' = [NoPass EXCEPT
                      !.seen = [e \in Entries |-> IF e \in Managed
                                                  THEN last[e] ELSE Never],
                      !.old = {e \in Managed : Expired(e, marks)},
                      !.remaining = Total(Managed)]
    /\ todo' = Eligible(p)
    /\ Goto(p, IF cmd[p] = "clear" THEN "clear" ELSE "expire")
    /\ UNCHANGED <<victim, dir, db, last, trash, locks, gcLast, cmd, ent, world, faults>>

\* The entries are visited by last use, as the scan read it.
Oldest(S) == {e \in S : \A f \in S : gc.seen[e] <= gc.seen[f]}

Unleased(e) == lease[e] = {} /\ xlease[e] = None

Freed(e) == IF gc.remaining > Size[e] THEN gc.remaining - Size[e] ELSE 0

\* Faulty form of TryRemove: a locked entry counts as reclaimed.
TryRemoveCountsLocked(p, e) ==
    /\ todo' = todo \ {e}
    /\ \/ /\ ~Unleased(e)
          /\ gc' = [gc EXCEPT !.skipped = @ \cup {e}, !.remaining = Freed(e)]
          /\ UNCHANGED <<victim, xlease, pc, ret>>
       \/ /\ Unleased(e)
          /\ victim' = e
          /\ xlease' = [xlease EXCEPT ![e] = p]
          /\ ret' = [ret EXCEPT ![p] = pc[p]]
          /\ pc' = [pc EXCEPT ![p] = "move"]
          /\ UNCHANGED gc

\* Faulty form of TryRemove: the exclusive lease is not asked for.
TryRemoveUnleased(p, e) ==
    /\ todo' = todo \ {e}
    /\ victim' = e
    /\ ret' = [ret EXCEPT ![p] = pc[p]]
    /\ pc' = [pc EXCEPT ![p] = "move"]
    /\ UNCHANGED <<gc, xlease>>

\* remove_managed_entry, and the body of clear_cache's loop, up to the rename.
TryRemove(p, e) ==
    /\ todo' = todo \ {e}
    /\ \/ /\ ~Unleased(e)
          /\ gc' = [gc EXCEPT !.skipped = @ \cup {e}]
          /\ UNCHANGED <<victim, xlease, pc, ret>>
       \/ /\ Unleased(e) /\ cmd[p] = "dry"
          /\ gc' = [gc EXCEPT !.removed = @ \cup {e}, !.remaining = Freed(e)]
          /\ UNCHANGED <<victim, xlease, pc, ret>>
       \/ /\ Unleased(e) /\ cmd[p] # "dry"
          /\ victim' = e
          /\ xlease' = [xlease EXCEPT ![e] = p]
          /\ ret' = [ret EXCEPT ![p] = pc[p]]
          /\ pc' = [pc EXCEPT ![p] = "move"]
          /\ UNCHANGED gc

\* One round of the loop at label l over the candidates S, then label next.
Round(p, l, S, next) ==
    /\ pc[p] = l
    /\ \/ \E e \in S : TryRemove(p, e)
       \/ S = {} /\ Goto(p, next) /\ UNCHANGED <<xlease, pass>>
    /\ UNCHANGED <<disk, lease, gcLock, gcLast, cmd, ent, world, faults>>

OverQuota == High > 0 /\ gc.remaining > High

Expire(p) ==
    Round(p, "expire", Oldest(todo \cap gc.old),
          IF OverQuota THEN "quota" ELSE "report")

Quota(p) ==
    Round(p, "quota", IF gc.remaining <= Low THEN {} ELSE Oldest(todo), "report")

\* clear_cache visits the entries in the order of the directory listing.
Clear(p) == Round(p, "clear", todo, "report")

\* move_to_trash: one rename takes everything in the directory along.
MoveToTrash(p) ==
    /\ pc[p] = "move"
    /\ dir' = [dir EXCEPT ![victim] = "none"]
    /\ db' = [db EXCEPT ![victim] = FALSE]
    /\ last' = [last EXCEPT ![victim] = 0]
    /\ orphan' = [s \in Stores |-> IF s = victim THEN Never ELSE orphan[s]]
    /\ trash' = [trash EXCEPT ![victim].full = @ + 1]
    /\ Goto(p, "delete")
    /\ UNCHANGED <<locks, gcLast, pass, cmd, ent, world, faults>>

\* Faulty form of MoveFails: the error of the rename is ignored.
MoveFailsIgnored(p) ==
    /\ pc[p] = "move"
    /\ faults < MaxFaults /\ faults' = faults + 1
    /\ Goto(p, "delete")
    /\ UNCHANGED <<disk, locks, gcLast, pass, cmd, ent, world>>

\* The rename fails: the collection returns the error.
MoveFails(p) ==
    /\ pc[p] = "move"
    /\ faults < MaxFaults /\ faults' = faults + 1
    /\ End(p)
    /\ UNCHANGED <<disk, gcLast, world>>

\* The lease guard of the entry is dropped, the loop goes on.
NextEntry(p) ==
    /\ xlease' = [xlease EXCEPT ![victim] = None]
    /\ victim' = None
    /\ pc' = [pc EXCEPT ![p] = ret[p]] /\ ret' = [ret EXCEPT ![p] = "idle"]
    /\ UNCHANGED <<lease, gcLock, todo, cmd, ent>>

Delete(p) ==
    /\ pc[p] = "delete"
    /\ trash' = [trash EXCEPT ![victim].full = @ - 1]
    /\ gc' = [gc EXCEPT !.removed = @ \cup {victim}, !.remaining = Freed(victim)]
    /\ NextEntry(p)
    /\ UNCHANGED <<dir, db, last, orphan, gcLast, world, faults>>

\* The removal fails, before or after it has removed the manifest: gc goes on
\* without counting the entry, clear returns the error.
DeleteFails(p) ==
    /\ pc[p] = "delete"
    /\ faults < MaxFaults /\ faults' = faults + 1
    /\ \/ UNCHANGED trash
       \/ trash' = [trash EXCEPT ![victim].full = @ - 1,
                                 ![victim].partial = @ + 1]
    /\ IF cmd[p] = "clear"
       THEN End(p)
       ELSE NextEntry(p) /\ UNCHANGED gc
    /\ UNCHANGED <<dir, db, last, orphan, gcLast, world>>

\* maybe_gc records the time of the pass; the global lock is dropped.
GcDone(p) ==
    /\ pc[p] = "report"
    /\ gcLast' = IF cmd[p] = "auto" THEN now ELSE gcLast
    /\ End(p)
    /\ UNCHANGED <<disk, world, faults>>

-----------------------------------------------------------------------------
(* The environment. *)

\* Faulty form of Crash: a lock is the existence of its file, which a killed
\* process leaves behind.
CrashKeepsLocks(p) ==
    /\ pc[p] # "idle"
    /\ faults < MaxFaults /\ faults' = faults + 1
    /\ pc' = [pc EXCEPT ![p] = "idle"] /\ ret' = [ret EXCEPT ![p] = "idle"]
    /\ cmd' = [cmd EXCEPT ![p] = "none"] /\ ent' = [ent EXCEPT ![p] = None]
    /\ UNCHANGED <<disk, locks, pass, gcLast, world>>

\* The directories in the trash that p is removing.
Removing(p) ==
    CASE pc[p] = "delete" -> {victim}
      [] pc[p] = "trash" -> {e \in todo : trash[e].full > 0}
      [] OTHER -> {}

\* A process is killed: its locks are flock locks (lock_file) and go with it.  If
\* it was removing a directory, the manifest of that directory may be gone.
Crash(p) ==
    /\ pc[p] # "idle"
    /\ faults < MaxFaults /\ faults' = faults + 1
    /\ \/ UNCHANGED trash
       \/ \E e \in Removing(p) :
            trash' = [trash EXCEPT ![e].full = @ - 1, ![e].partial = @ + 1]
    /\ End(p)
    /\ UNCHANGED <<dir, db, last, orphan, gcLast, world>>

Tick ==
    /\ now < MaxTime /\ now' = now + 1
    /\ UNCHANGED <<disk, locks, gcLast, pass, pc, ret, cmd, ent, exists, faults>>

\* The workspace root is deleted, or comes back (a mounted disk).
RootChanges(s) ==
    /\ exists' = [exists EXCEPT ![s] = ~@]
    /\ UNCHANGED <<disk, locks, gcLast, pass, pc, ret, cmd, ent, now, faults>>

UserStep(p) ==
    \/ TouchCheck(p) \/ TouchWrite(p) \/ Ensure(p) \/ IndexLease(p) \/ Build(p)
    \/ Recheck(p) \/ ReadManifest(p) \/ OpenLease(p) \/ Open(p) \/ Close(p)
    \/ ExtractLease(p) \/ Extract(p) \/ ExtractFails(p) \/ ModelLease(p)

GcStep(p) ==
    \/ GcLock(p) \/ GcThrottled(p) \/ CleanTrash(p) \/ CleanTrashDone(p) \/ Scan(p)
    \/ Expire(p) \/ Quota(p) \/ Clear(p) \/ MoveToTrash(p) \/ Delete(p) \/ GcDone(p)

Start(p) ==
    \/ \E s \in Stores : StartIndex(p, s) \/ StartQuery(p, s)
    \/ \E m \in Models : StartModel(p, m)
    \/ \E c \in Kinds, s \in Stores \cup {None} : StartGc(p, c, s)

Fault(p) == CleanTrashFails(p) \/ MoveFails(p) \/ DeleteFails(p) \/ Crash(p)

Next ==
    \/ \E p \in Procs : Start(p) \/ UserStep(p) \/ GcStep(p) \/ Fault(p)
    \/ Tick
    \/ \E s \in Stores : RootChanges(s)

Spec == Init /\ [][Next]_vars

\* Processes are scheduled, uses end, a released lock goes to its waiters, and
\* greppy keeps being run: every command starts with a collection of its own.
FairSpec ==
    /\ Spec
    /\ \A p \in Procs :
          /\ WF_vars(UserStep(p) \/ GcStep(p))
          /\ SF_vars(IndexLease(p) \/ OpenLease(p) \/ GcLock(p))
    /\ SF_vars(\E p \in Procs, s \in Stores : StartGc(p, "auto", s))

-----------------------------------------------------------------------------
(* Properties. *)

\* p has the database, or the model file, of its entry open.
Opened(p) ==
    \/ pc[p] = "using"
    \/ pc[p] \in {"touch", "touching"} /\ ret[p] = "using"

\* What a process has open under a shared lease stays where it is: no
\* collection, whatever it read in its scan, renames it away (try_entry_lock).
LeasedKept ==
    \A p \in Procs : Opened(p) /\ p \in lease[ent[p]] => db[ent[p]]

\* A collection removes only directories that carry a valid manifest or
\* marker, and gc never the workspace it is run for (scan_entries, gc_locked).
OnlyVerifiedRemoved ==
    [][\A e \in Entries : dir[e] # "none" /\ dir'[e] = "none" =>
          /\ dir[e] = "managed"
          /\ cmd[gcLock] = "clear" \/ e # ent[gcLock]]_vars

\* When a collection without failures ends, what it left is within the quota,
\* or every entry it left is in use or the current workspace: locked entries
\* do not make it stop early (the loop of gc_locked).
QuotaMet ==
    \A p \in Procs :
        LET left == {e \in Entries : gc.seen[e] # Never} \ gc.removed
        IN  pc[p] = "report" /\ cmd[p] # "clear" /\ faults = 0 /\ High > 0
              => Total(left) <= High \/ left \subseteq gc.skipped \cup {ent[p]}

\* A directory that was renamed to the trash and whose removal was interrupted
\* is removed by a later collection, as long as its manifest is still there
\* (cleanup_trash, trash_entry_is_verified).
TrashResumed ==
    \A e \in Entries : trash[e].full > 0 ~> trash[e].full = 0

\* Every command returns: no process waits for ever for a lease or for the
\* collection lock (acquire_named_lock), except possibly for the exclusive
\* lease of an extraction, which shared holders may keep away.
CommandsReturn ==
    \A p \in Procs : cmd[p] \notin {"none", "model"} ~> cmd[p] = "none"
=============================================================================
