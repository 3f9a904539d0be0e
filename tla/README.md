# Verification of greppy

TLA+ models of [greppy](../src/README.md): a `grep` replacement that keeps a
precomputed code graph of a workspace and two local inference daemons. The
modules model the parts in which several processes or threads share state, and
the two algorithms whose answers must agree with a simpler definition
(incremental indexing, bounded graph traversal); TLC checks them on small
instances, TLAPS proves their safety properties for every size.

## 1. The system

| Part | State it keeps | Operations | Interacts with |
|---|---|---|---|
| Query commands (`crates/cli/src/lib.rs`) | an open read-only store | `open_default_store`, `freshness_serve_decision_with_policy` | store, freshness check, snapshot publication, background jobs, daemons |
| Snapshot publication (`crates/cli/src/lib.rs`, `crates/freshness/src/lock.rs`) | `graph.db`, `graph.db.next.*`, `graph.db.corrupt.*`, the writer lock | `dispatch_index`, `try_auto_index_inline`, `try_auto_reindex_inline`, `index_atomic_snapshot`, `publish_store_snapshot`, `cleanup_stale_snapshot_artifacts` | indexer, freshness check, store |
| Freshness check (`crates/freshness`) | git fingerprint, TTL stamp | `check_files_report_with_ttl`, `compute_file_diff`, `refresh_fingerprint_metadata` | discover, store |
| Indexer (`crates/indexer`, `crates/parser`, `crates/resolver`, `crates/discover`) | rows of the store it is given | `index_with_options`, `run_full`, `run_incremental`, edge resolution, embedding | store |
| Store (`crates/store`) | one SQLite database, graph generation, query cache, expand packs | row access, `bump_generation` | all of the above |
| Background jobs (`crates/cli/src/lib.rs`) | job record, job-spawn lock | `spawn_background_job`, `BackgroundJobGuard` | snapshot publication |
| Cache (`crates/core/src/cache.rs`) | store and model directories, manifests, `.lastused` and orphan marks, leases, trash, `gc.state` | `ensure_workspace_store`, `touch_last_used_dir`, `extract_embedded_asset`, `maybe_gc`, `run_gc`, `clear_cache` | every process that opens a store or a model |
| Inference daemon (`crates/cli/src/inference_daemon.rs`) | two bounded queues, pending counter, status record, the loaded model | accept, read, queue, serve, evict, idle exit, watchdog | its clients |
| Daemon clients (`embed_daemon.rs`, `summarize_daemon.rs`) | socket path, owner and spawn locks, cooldown file | `request`, `spawn_once`, `record_spawn_failure`, fallback | daemons of other clients |
| Graph queries (`crates/search/src/graph.rs`, `trace.rs`) | none: a queue and a visited set per call | `reachable_within`, `path_query`, `trace_path`, `call_tree`, `call_hierarchy`, `dependency_cluster`, `subgraph_around`, `cycles` | store |
| Text and vector search, passthrough, native inference | none shared | pure functions, read-only queries | |

What is hard about it:

* **Concurrency between processes.** Any number of `greppy` processes index and
  query the same workspace. They coordinate through advisory file locks, renames
  and unlinks only, and nobody waits for the writer lock.
* **A moving workspace.** Files change while they are indexed, while the new
  index is verified, and while a query decides whether its index is current.
* **Crashes.** A process may die at any point and leave temporary databases, a
  stale socket or a quarantined store.
* **Threads in the daemon.** Accept thread, readers, main thread and watchdog
  share a counter, two queues and a status record, and decide from separate
  reads of them whether to exit or to kill the process.
* **Timeouts and retries.** Deadlines in queues, capacity responses, spawn
  retries, the cooldown after a failed spawn.

What makes each part correct:

* snapshot publication: readers only ever see a whole state of the workspace,
  never a mixture; an open index does not change; generations grow; nothing a
  run builds is removed by another; crashed runs leave bounded garbage;
* query serving: rows are shown only if they describe the whole workspace at one
  instant of the query; refusals are not permanent;
* daemon: each request is answered at most once and eventually closed; the
  pending counter is exact; the daemon exits when idle, not under load, and is
  killed only when it hangs;
* clients and endpoint: one daemon (one model) per endpoint; a serving daemon is
  reachable; crashes do not brick the service;
* cache: what a process has open under a lease is never removed; only verified
  directories are removed; the quota is met although entries are locked; an
  interrupted removal is finished later; nobody waits for a lock for ever;
* background jobs: one refresh per worktree at a time, its record describes a job
  that runs or has failed, and a stale index is refreshed in the end;
* incremental indexing: after any history of edits and runs the nodes and edges
  are those of a full index; a stored hash vouches for the rows kept with it;
* graph queries: a bounded traversal returns exactly what lies within its bound,
  and a limit removes only what sorts last.

## 2. Modules

| Module | Models | Code |
|---|---|---|
| `InferenceDaemon` | one daemon process | `inference_daemon.rs`: `run_server`, `spawn_accept_loop`, `spawn_reader_workers`, `read_and_queue`, `finish_request`, `complete`, `spawn_hung_worker_watchdog` |
| `DaemonEndpoint` | clients and successive daemons of one endpoint | `inference_daemon.rs`: `request`, `spawn_once`, `record_spawn_failure`, start and end of `run_server`, `bind`, `EndpointGuard`; `embed_daemon.rs`: `embed_query_via_daemon_result` |
| `AtomicSnapshot` | abstract: what the index store promises its readers | |
| `IndexSnapshot` | indexing and querying processes of one workspace | `lib.rs`: `dispatch_index`, `try_auto_index_inline`, `try_auto_reindex_inline`, `index_atomic_snapshot`, `publish_store_snapshot`, `open_default_store`, `freshness_serve_decision_with_policy`; `freshness`; `indexer` |
| `CacheGc` | the users of the managed cache and its collections | `core/src/cache.rs`: `ensure_workspace_store`, `acquire_named_lock`, `maybe_gc`, `run_gc`, `gc_locked`, `clear_cache`, `cleanup_trash`; `workspace.rs`: `touch_last_used_dir`; `store.rs`: `open_with`; `lib.rs`: `open_default_store`, `extract_embedded_asset` |
| `IncrementalIndex` | full and incremental index runs over one store, with edits at any time | `indexer/src/lib.rs`: `index_with_options`, `run_full`, `run_incremental`, `extract_one`, `apply_file_nodes`, the edge resolution; `structural.rs`; `freshness/src/incremental.rs`: `compute_file_diff` |
| `BackgroundJob` | queries, detached children and foreground runs of one worktree | `lib.rs`: `spawn_background_job`, `workspace_writer_active`, `BackgroundJobGuard`, the child's part of `dispatch_index` |
| `GraphTraversal` | one graph query from its start to its answer | `search/src/graph.rs`: `reachable_within_any_edge_type`, `path_query`, `dependency_cluster`, `subgraph_around`, `cycles`; `trace.rs`: `trace_path`, `call_tree`, `call_hierarchy` |
| `InferenceDaemonProofs`, `DaemonEndpointProofs`, `IndexSnapshotProofs`, `CacheGcProofs`, `IncrementalIndexProofs`, `BackgroundJobProofs`, `GraphTraversalProofs` | the theorems and their proofs | |
| `GraphTraversalLemmas` | what the operators of `GraphTraversal` compute | |
| `MC*` | instances for TLC | |

### InferenceDaemon

A connection is one request; its payload is abstracted to the branch it makes
the daemon take (bad frame, status, valid request, ...), and clocks to whether
the elapsed time has reached the limit it is compared with (`recent`,
`modelRecent`). Each thread has a label and one step per access to shared
state: `finish_request` is two steps (the atomic decrement, then the activity
stamp), and the exit condition of the main loop is two reads (`IdleCheck`,
`PendingCheck`), because that is where the interleavings are. A model call
(`Prewarm`, `Load`, `Handle`) may succeed, fail or never return. The watchdog
decides and kills in two steps, because the process goes on in between.

### DaemonEndpoint

A daemon slot goes through the start of `run_server` (owner lock, probe of the
socket path, bind, removal of the cooldown file), serves, and goes through its
end (endpoint guard, then owner lock). The listening socket of a stopping daemon
may or may not still accept. A client goes through
`embed_query_via_daemon_result`: request, `spawn_once`, retries,
`record_spawn_failure` (check and write are two steps), and the outcome that
decides whether the model is loaded in the client's own process. Daemons are
killed at any point; clients are not (a client that dies drops the spawn lock,
which the others take without looking at who had it). The summary clients run the same steps and never fall back.

### IndexSnapshot

The workspace maps each file to a version, which stands for its content,
metadata and existence together; `Shape` says of each version whether it is a
text, absent, above the size cap or one the indexer rejects. An index file is an inode: a process that
opened it keeps it when its path is renamed or removed. One action per step of
`index_atomic_snapshot_attempt`: `Lock`, `Gate` (the test made with the lock
held), `Clean`, `Seed`, one `IndexOne` per file, `Unclean` (the report is not
clean: nothing is published) or `BeginVerify`, one `VerifyFile` per file,
`Verified`, `Prepare`, `Publish`, `Sweep`; queries take `StartQuery`,
`Open`, one `CheckFile` per file, `Verdict`, `Serve`. Edits happen between any
two of them. Two outcomes of `IndexOne` are no ordinary update: a rejected file
makes the report unclean, every time; a file that has outgrown the size cap is
skipped but keeps the row of its last small version (`HasRow`), so that every
later comparison finds it modified. Two constants stand for settings under which
no inline run can publish: `Limited` (a file limit or time budget cuts a run) and
`Stranded` (the store has vectors and no model is configured to rebuild them).
`cut` and `begun` are history variables (the workspace when the
last verification, or the check of a query, began); no action reads them.

Left out of this module: the embedding pass inside a snapshot run (it adds rows
to the same temporary database and can only make the run fail); the
metadata-only fingerprint refresh (it changes no graph row); the TTL stamp (off
by default); SQLite's write-ahead log; the Windows fallback of the rename. A
drift too large to reindex inline starts `greppy index` in another process:
that is a `StartIndex` of another slot.

`AtomicSnapshot` has three variables: the workspace, the last whole state of it
that was captured, and what is published. `IndexSnapshot` implements it with
`captured <- cut` and `published <-` the content of an undamaged `graph.db`.

### CacheGc

An entry is a workspace store or an extracted model. Its directory is absent,
bare (without a valid manifest or marker) or managed; `db` says whether the
database or model file is in it, `last` is its `.lastused` time. `lease` and
`xlease` are the shared and exclusive holders of its lifecycle lock, `gcLock` the
holder of `global.gc`; the operating system releases all of them when a process
ends or is killed (`End`, `Crash`).

A process runs one command at a time: index (`Ensure`, touch, `IndexLease`,
`Build`), query (`StartQuery`, a first-use index where there is none,
`ReadManifest`, `OpenLease`, `Open`, `Close`), model (`StartModel`,
`ExtractLease`, `Extract`, `ModelLease`, `Open`, `Close`) or a collection. The
constant `Kinds` selects which collections an instance runs: the throttled
`maybe_gc` ("auto"), `run_gc` ("gc"), its dry run ("dry"), `clear_cache`
("clear"). A collection takes the lock, resumes the trash, scans, visits
expired entries and then, over quota, entries by last use; each visit is a round
(`Round`, `TryRemove`), a rename (`MoveToTrash`) and a removal (`Delete`), and
every other process runs in between. The steps up to a lease are separate steps
because that is where directories disappear: `Ensure` writes the manifest before
its caller holds the lease, and `touch_last_used_dir` checks and writes in two
steps, where the write creates the directory again.

The scan is one step although the code reads one entry after the other. What it
reads of an entry does not depend on another, and the properties are about each
entry by itself or, for `QuotaMet`, about what the scan read: for each of them
the instant at which its entry is read is the one that matters, and users run
before and after it. `faults` counts crashes, failed renames and failed removals; a
failed or killed removal may already have deleted the manifest, and then leaves
a trash directory that no later collection recognises (`partial`), as in the
code.

Left out: `cache_status` (it only reads), the adoption of stores in older
layouts, the pruning of evidence packs, the checks for symbolic links and names
(pure tests on paths), and the byte counts in the report.

### IncrementalIndex

A file's text is reduced to what the indexer gets out of it: definitions, raw
(unresolved) edges, whether it is over the size cap, whether it parses, and a
body that only its hash sees. `row` and `skip` are the `file_state` and
`index_skips` rows, each with whether the stored stat identity is still the
file's; `nodes`, `edges` and `raws` are the tables. A run begins with the walk
and the diff in one step (`BeginFull`, `BeginIncremental`, which also drop what
belongs to removed, oversize and changed files), reads its files one by one in
the parallel phase (`Extract`, or `ReadFails` and `Rejected`, which only note
that the file was given up), then records the skips in the serial one
(`RecordSkip`, under the stat identity of whatever is at the path by then) and ends with the spine, the cleanup of
stale nodes and the edge resolution (`Finish`). `Edit` happens between any two
steps. Deleting a file's nodes cascades to every edge that touches them, which
is why edges of files that did not change have to be found and resolved again:
all of them when the set of definitions changed, otherwise the candidates
`edge_references_name` selects. The reference is `FreshEdges`: what a full index
of the same texts gives. The walk and the diff are one step because a run's
transaction reads each file once for them; an edit after it is seen by the
extraction or by the next run. `Fragile` bounds which files' reads may fail: in
the instances one of the two libraries, whose loss the others notice.

Left out: store errors. `apply_file_nodes` deletes a file's nodes before it
writes the new ones and not in one transaction, so an error in between (counted
as an unreadable file, without a skip) leaves a row whose nodes are gone; the
commands discard such a run. `OneFileNodePerPath` excludes siblings such as `a.c`
and `a.h`, whose File nodes share a qualified name.

### BackgroundJob

A query that finds the index stale waits for the spawn lock, looks at the job
record, spawns the child and then writes the record (`Spawn`, `Publish` are two
steps: the child runs in between). The child waits for its record: `Starts` when
it sees it, `TimesOut` when the wait of 100 times 10 ms ends first (`late`
remembers it). It takes the writer lock or gives up, builds, publishes its
snapshot and removes the record; on any other way out `Drop` writes it as failed
or cannot. `blocked` says that the workspace holds something that no run can
publish (a rejected or an outgrown file, a limit): a build then fails without
any fault (`Unclean`, before publication, so that the index stays stale), as
often as it is tried; edits set and clear it. Status queries probe the writer
lock by taking it for a moment; foreground runs hold it; both are finitely many
at a time. Every process may be killed between two steps, and the kernel then
drops its locks. `orphan` is a history variable: some query died or failed after
it spawned a child and before it recorded it. `OneJob` is stated for histories
without one, since nothing in the code finds such a child. A process id is
not used again while the record names it.

### GraphTraversal

One query over one graph. A step of the breadth-first walks takes an entry off
the queue and runs over its neighbours in edge-id order: `Discover` states the
outcome of that loop (the neighbours not seen before, each once, in order, as
many as the budget has room for, are recorded and queued one level deeper). A
step of the depth-first ones looks at one edge (`path` is the recursion's stack, `rest` the
edges each frame has left). Nodes are marked where the code marks them: when
they are queued (reach, path, tree, cluster, subgraph) or when they leave the
queue (trace). The graph holds the edges of the types asked for, and the
fan-out caps (1024, 4096, 10000 edges of one node) are above every degree.
`PathStep` finishes the loop in which the goal is first seen, where the code
returns at once; the predecessors on the path are recorded by then.
`GraphAssumption` says that node ids are naturals and finitely many, that a query
has the fields its function takes (the start may name no node, any bound may be
0), and that the four caps are positive.
`subgraph_around` with several edge types visits a node's neighbours type by
type, which the model does not tell apart. Each property compares an answer with
a definition that has no queue: balls of radius k, simple cycles and walks
enumerated outright. `BreadthFirstExact`, `BudgetHonest` and `DepthFirstExact`
gather them by the kind of walk. `CyclesExact`, a part of the last, is about the
cycles among the rows that the search looks at; `CyclesComplete` is what the
function's documentation says (finding 3).

## 3. Runs

| Run | Instance | Checks |
|---|---|---|
| `daemon` | 2 connections, 2 readers, both queues of length 1 | counter exact and never below zero, reported state, exit only when drained, watchdog sound, one reply each; accepted connections are closed, an idle daemon exits |
| `endpoint` | 2 clients, 2 daemon slots, 1 retry, 1 fault | one owner, serving daemon reachable, the service recovers, calls return |
| `snapshot` | 2 files, 2 processes, 3 inodes, 1 edit of each file, 1 explicit run, 1 fault | all safety properties of the index store and the refinement of `AtomicSnapshot` |
| `snapshot_live` | 1 file that is a text, grows above the size cap and is broken, 2 processes, 1 fault or revert | queries are answered again and again, unless the index stays damaged or the file stays rejected or outgrown |
| `snapshot_outgrown` | the same without faults, 1 process | *violation*: a file that outgrew the size cap ends all service (finding 2) |
| `cache` | 1 store, 1 model, 2 processes, clock 0..2, TTL and grace 1, quota 1 down to 0; auto, dry and clear; no faults | leased entries stay, only verified ones are removed, the quota is met |
| `cache_live` | 1 store, 2 processes, 2 faults; auto and clear, not throttled | interrupted removals are finished, commands return |
| `index` | 5 files (a caller, two libraries, one over the size cap, one without a provider), 2 texts or 3 each, file limit 2 or none | nodes, calls, imports and spine equal a full index, usage edges are sound, rows truthful |
| `index_usage` | the same | *violation*: usage edges lost by a body edit (finding 1) |
| `jobs` | 2 queries, 2 child process ids, 1 foreground run, 2 faults | one job, record and build agree, no record after the success of a child that saw it; a stale index is refreshed once nothing blocks it for good |
| `queries` | 1 query over every graph of up to 4 edges on 4 nodes and every part of a 6-edge graph on 5, both edge orders; hops clamped at 3, results at 4, cycles at 3, 4 rows in scope | every traversal against its definition |
| `queries_cycles` | the same with at most 1 edge on 4 nodes | *violation*: a cycle outside the rows looked at (finding 3) |

Why these bounds are enough for the interesting cases: queues of length 1 are
full with one request waiting, and the second connection meets them full; two
clients race for the spawn lock, two daemons for the owner lock, and a fault
makes the first one stale while the second starts; two files make a torn
snapshot visible (one file before an edit, the other after it), two processes
make every pair of runs and queries overlap, and three inodes hold the published
file, a temporary one and an older one that a query still has open; two
processes put a user between any two steps of a collection, two entries make the
quota loop pass over a locked one and go on, and a fault interrupts a removal
before or after its manifest is gone, a second one also the removal that resumes
it. `run_gc` does what an unthrottled `maybe_gc` does after waiting for the lock
as `clear_cache` and the dry run do, so the instances run those three. Two
children, whose ids are used again once the record names another job, follow and
overlap each other in any number, one orphaned, failed, killed or late and one
that succeeds, with a second query between any two of their steps. The one file of `snapshot_live` is indexed first as a text, or
above the cap, or not at all while it is broken, and leaves each of these states
by an edit or the revert. Two libraries that define the same
names make a reference ambiguous, and a text that differs only in its body
separates the candidate path from the full resolution; histories are not
bounded. The 6-edge graph has a short and a long way to the same node, which the
order of a queue must tell apart, and a node one hop beyond the clamp; the rest
is every small graph, self-loops included. The safety theorems of section 4 do
not depend on any of these bounds.

Deadlock is checked where the system cannot stop (a query that has its answer
stays so: `Answered`); a daemon that has exited and
a workspace whose bounded edits and runs are used up may stop.

Fairness. Threads and processes are scheduled (weak fairness of each one's
steps), time passes (an idle time, a cooldown or a deadline is eventually
reached), clients keep calling and queries keep coming where the property is
about them. Nothing is assumed of model calls (they may hang), of daemons'
answers, of the idle exit, of edits, of explicit index runs or of faults. The
watchdog is fair because its thread only sleeps and reads a clock. In `CacheGc`
blocking lock calls are strongly fair: `flock` wakes its waiters, so a process
that finds the lock free again and again gets it. The exclusive lease of an
extraction is not, since overlapping shared holders may keep it away, and
`CommandsReturn` leaves it out. In `BackgroundJob` queries keep coming while the
index is stale, spawners, probes and children run on, and a foreground run ends;
no query is promised the spawn lock. `TrashResumed` needs that collections keep being
started: every greppy command starts with `maybe_gc`.

### Findings

1. `index_usage`: `edge_references_name` never selects a raw edge of type USAGE.
   A body-only edit of the file that defines the target removes, by the cascade,
   the USAGE edges other files have to it, and they are not resolved again until
   those files change or a definition does; the comment promises a graph
   "byte-for-byte identical to a full reindex". `UsageSound` shows that edges are
   only lost, never wrong.
2. `snapshot_outgrown`: when an indexed file outgrows the size cap an incremental
   run drops its nodes and records a skip, but leaves its `file_state` row. The row
   wins over the skip and never matches the file's stat, so the verification of
   every snapshot is Stale, both attempts are discarded and every query of the
   workspace is refused until the file shrinks or the store is removed. The
   indexer's documentation says such files "are skipped with a count", and a
   comment in `compute_file_diff` that skipped files "have no file_state row".
3. `queries_cycles`: `cycles` looks at the first 10000 rows of `search_graph` in
   name order and at no others, and does not say so; its documentation promises
   every distinct simple cycle of the project.

Seen while modelling; these steps are in the models, no run is about them:

* The row that an outgrown file keeps (finding 2) also matters inside the
  indexer: if the file shrinks back to the old text the diff reports it as
  unchanged and it stays out of the graph. `StableSize` excludes it from the
  theorems, and no text of the run `index` crosses the cap.
* A text is rejected in the parallel phase and its skip is recorded in the serial
  one, with the stat of the file as it is then. A new file that is repaired in
  between is skipped under the identity of its good text, and the diff accepts
  that for ever, against its comment that "any uncertainty" makes it look again.
  The commands discard the run (its report is not clean), so that only a caller of
  the indexer itself meets it. `GraphMatchesFull` counts such a file with its last
  accepted text (`Seen`).
* The background child waits at most a second for its record and then goes on. A
  spawner that is slower writes `refreshing` after the child has completed and
  cleared the record, which the comment in `from_env` says the wait prevents. The
  record names a finished process until a later query looks at it.
  `SeenRecordStaysRemoved` says what the wait does give, and is false without its
  exception for children that gave up.
* The daemon's exit condition reads the idle time, then the pending counter. A
  request accepted and finished in between does not keep the daemon alive: it
  exits right after having served it. The next client pays a cold start.
* A client whose own spawn failed reports `NoDaemon` after its retries even if
  another client's daemon owns the model by then, and loads a second instance,
  which the comment in `embed_query_cached` excludes.
* `Store::open_with` takes no lease for a store directory without a manifest, and
  such a directory can be published into (the manifest is written before the
  lease is held, a clear in between removes it, the next `mkdir` brings the
  directory back bare). Once another process has written the manifest, a clear
  removes the store under its reader.
* `gc_locked` decides on the last use the scan read and does not read it again
  under the entry's lease: a store used and released in between is evicted.
* Content that goes back to an earlier version between the indexing and the
  verification of a snapshot is accepted by its hash, and the snapshot may then
  mix two states of the workspace (`Reverts`; see section 4).
* A file without definitions (of a language without provider, rejected, over the
  size cap) that is added and shares its stem with a file that others import
  makes that import ambiguous. `resolve_file_imports` of a full index then gives
  no edge; an incremental run keeps the old one, against the comment that the
  result is "byte-for-byte identical to a full reindex". The attempt to prove
  `GraphMatchesFull` showed it, and TLC confirms it when the files of the run
  `index` share a stem; `UnambiguousImports` excludes it.
* A call tree lists nodes that were placed before as children too (`TreeSpans`),
  so that following `children` need not end; its comment says the children are
  one level deeper.

Excluded by name from `QueriesServed`: a damaged `graph.db` is not repaired by
queries (they open read-only and auto-index only when the path is absent; an
explicit `greppy index` sets it aside); a file that stays rejected, since a report
that is not clean is never published; a file that stays outgrown (finding 2);
`Limited` and `Stranded`; and a drift too large for the inline refresh, which is
the subject of `BackgroundJob`. `RefreshHappens` excludes the first four as
`blocked`.

## 4. Proofs

Every invariant and action property that a run expected to pass checks is
proved; only liveness is left to TLC alone. The theorems hold for every value of the constants that
satisfies the `ASSUME`s of the modules; where one has a further hypothesis, it
is named.

`InferenceDaemonProofs` proves, for any number of connections and readers and any
queue lengths, from `DaemonAssumption`:

* `Typing` and `PendingIsExact`. That `pending_requests` is the number of counted
  and unfinished requests needs to know where every stream is: it belongs to one
  thread or to one place in one queue (`Owned`, `Queued`), a thread holds one
  exactly at the labels in `Owning`, and no queue holds a stream twice, so that a
  receive takes one element out of the set that is counted (`Counter`).
* `ExitIsDrained`, from the exactness of the counter at the step that reads it,
  and `RepliesOnce`, from `Unanswered` in addition: a stream that waits, or whose
  owner is still to write, has no response yet.
* `ReadyIsLoaded` and `WatchdogIsSound`, from `StatusTruthful` and
  `ModelTruthful`: what the status record says of the main thread at each of its
  labels.

`DaemonEndpointProofs` proves, for any number of clients, daemons, retries and
faults, from `EndpointAssumption` only:

* `Typing`: the type invariant. `tries \in 0..Retries` is not inductive by
  itself: the retry loop decrements, so the invariant adds `RetryLeft` (a client
  that has spawned and connects again has a retry left).
* `AtMostOneOwner` and `ServerStaysReachable`, from the inductive `LockInv`: a
  daemon past the owner lock is its holder (`HoldsLock`), and a socket path that
  names a daemon in its bound or serving state is its own.

`IndexSnapshotProofs` proves, for any set of files, processes and inodes and any
bounds, from `SnapshotAssumption`:

* `Typing`, `LiveTempKeptAlways`, `OneTempAlways`, `FirstUseIsFirst`,
  `HandlesAreImmutable` from `Structure`: the process at a writing label holds
  the lock (`Exclusive`), a snapshot under construction is linked
  (`LiveTempKept`), temporary, published and open files are disjoint (`Apart`),
  nothing temporary is left once cleaned (`Swept`), a checking query has a file
  (`Opened`), a first-use run past its gate finds no store (`FirstUse`);
* `GenerationsGrow` from `Newer` in addition: the snapshot a run builds is above
  the published generation;
* `FreshIsCurrent` and `Refinement`, assuming `~Reverts`: versions only grow, so
  every index is behind the workspace (`Behind`); a file compared equal at a
  later moment was equal when the comparison began, because a version squeezed
  between two equal ones is that version (`Squeeze`); the loops accumulate this
  per file (`VerifiedSoFar`, `CheckedSoFar`). The assumption is needed: content
  that goes back to an earlier state between indexing and verification is
  accepted by the hash comparison, and the snapshot may then mix two states.
  `Refinement` maps `Publish` to the abstract `Publish`, `BeginVerify` to
  `Capture`, `Edit` to `Edit`, `Corrupt` and `Prepare` of a damaged store to
  `Lose` or a stutter, everything else to a stutter.

`CacheGcProofs` proves, for any stores, models, processes, sizes and limits, from
`CacheAssumption`:

* `LeasedIsKept`, from `Shape` and `Exclusion`. `LeasedKept` alone is not
  inductive: a collection that is about to rename could meet a shared holder.
  `Exclusion` says that an exclusively held lease has no shared holder and that
  the process at the rename or at an extraction is the exclusive holder; for
  that `Shape` has to say that the process in a collection's steps holds
  `global.gc`, since the collection's variables are those of the holder.
* `RemovesOnlyVerified`, from `Shape` and `Verified`: what a collection still has
  to visit, or is about to rename, is managed, and only clear visits the current
  workspace. The scan that established this may be old by then; it stays true
  because nothing but a rename under `global.gc` takes a manifest away.

* `Typing`, from `Stock`: that the trash counters stay natural numbers needs that
  what a process deletes is in the trash, which only the holder of `global.gc`
  may take out.
* `QuotaIsMet`, from `Balanced`: in a gc without failures the running total is the
  sum of the sizes of what is left, and every entry that is left is yet to be
  visited, being removed, found in use or the current workspace. The loop ends
  below the low-water mark, which is at most the high one (`GcPolicy::from_env`
  takes nine tenths of it, hence the conjunct `Low <= High` of
  `CacheAssumption`), or with nothing left to visit, since a set that is not
  empty has a least recently used element (`OldestExists`). The saturating
  subtraction is exact because removing any entry lowers the sum by its size
  (`TotalRemove`).

`Total` is a fold of the community modules, that is, a recursive function over
subsets. The library's induction theorems cannot be used (they take an operator
as parameter), so what it computes is proved from a smallest set on which the
claim fails (`Minimal`, by the well-foundedness of strict inclusion between
finite sets): the function exists and is unique, and any element may be taken
out first. `RoundCases` and `RoundBooks` reduce a round of the three loops to its
outcomes, which is all the invariants see of the order of the visits.

`IncrementalIndexProofs` proves, for any files, directories, texts and limits and
any interleaving of edits and runs, from `OneFileNodePerPath`, `NoneIsNoReason`,
`TextsAssumption` and `TreeAssumption` (what is extracted from a file belongs to it and is no node
of the structural spine; directories form a tree):

* `Typing`, with no further hypothesis: the cascades, the candidate resolution
  and the rebuilt spine never leave a dangling edge (`Closed`).
* `RowsAreTruthful`, assuming `StableSize` (no file is over the size cap with one
  text and below it with another). The hypothesis excludes the outgrown file, whose row
  vouches for a graph that is gone. The invariant (`StoreInv`) says what each row
  stands for: rows record accepted texts (`Recorded`), every definition and raw
  edge belongs to a file with a row (`Owned`), files without a visit have none
  (`Visited`), a stat identity that still matches vouches for the text on disk
  (`Trusted`), and in a run without edits what is done is up to date
  (`UpToDate`).
* `IncrementalMatchesFull` and `UsagesAreSound`, assuming also
  `UnambiguousImports` (no import names the stem of two files). The full index
  they compare with is that of the workspace as the indexer could see it (`Seen`):
  a file whose skip row still matches it counts with its last accepted text, or
  with none. Whether such a file should have been given up is another question
  (it may have been repaired in time, see section 3). Between runs the
  edges are those that a full resolution of the stored raw edges gives; during a
  run they are those of the definitions before it, without what the changed files
  touch: every edge has a raw edge that explains it (`Explained`), every edge
  between files that did not change is there (`Complete`), and those files keep
  their definitions (`Kept`). At the end, if the set of definitions is the old
  one, an edge that is missing starts or ends in a changed file and is among the
  candidates, unless it is a usage (`CandidatesComplete`, which is where finding 1
  shows); otherwise everything is resolved again. `ResolveLocal` and
  `ResolveDefinitions` say why that is enough: what a raw edge resolves to depends
  on the definitions and on the imports of its own file only.

Both hypotheses hold in the instance of the run `index`, with a file over the cap
and imports of other files.

`BackgroundJobProofs` proves, for any queries, children and other holders of the
writer lock and any number of kills, from `Bounds` and `NoneIsNothing`:

* `Typing`, with `SpawnLockHeld`: a query that checks the record or has spawned
  holds the spawn lock.
* `AtMostOneChild`: unless a query lost the child it spawned, one child at most is
  at work, whether or not its record is late.
* `OneJobAtATime`: it is also the one the record names, if it waited for it.
* `NoRecordAfterCompletion`: a child that saw its record and completed leaves
  none, since the spawn lock keeps every other writer of the record away until it
  is written. For a child that stopped waiting this is false (section 3).

`GraphTraversalProofs` proves, for every finite set of nodes, every graph over
them, every query and every value of the caps, from `GraphAssumption`:

* `BreadthFirstCorrect`. `Marked` is the invariant of a walk that marks a node
  when it queues it. The queue spans at most two depths, nearest first
  (`Layered`); a marked node is marked with its exact distance, and every node
  nearer than a marked one is marked; a marked node that has left the queue has
  its neighbours marked, as long as the budget lasts. That a depth is the *exact*
  distance needs the second of these, which in turn needs the order of the queue:
  this is where a stack in its place breaks the proof, and the mutant `PushFront`
  breaks the run. A path adds that each predecessor is one edge nearer
  (`Preceded`), so that walking back from a goal at distance d reaches the start
  in d steps (`BackPath`, `PathPreceded`); a tree adds a row per marked node,
  whose children are its neighbours once it has been expanded (`TreeRows`).
  `trace_path` marks when it dequeues, so that depths in the queue are only upper
  bounds and a node may wait several times; `Traced` says that a neighbour of a
  marked node is marked or waits at most one level deeper, and that nothing
  waiting is nearer than what was listed, which makes the head's depth exact when
  it is taken (`TracedMark`).
* `BudgetCorrect`. For the cluster, `Collected`: the collected nodes are connected
  among themselves, and `truncated` is set exactly when the budget is filled and
  some edge leaves them, otherwise they are closed but for the queue. A closed
  connected part is the component, and a part that some edge leaves is smaller
  (`ComponentClosed` and its companions). For the subgraph, `Marked` with its
  clauses on the budget: a full set of nodes contains a ball or lies within it.
* `DepthFirstCorrect`. The stack is a simple path along edges and `rest` holds
  neighbours that are left (`Stack`). `Searching`: every simple cycle up to the
  length bound is found, starts at a start that is left, or is *ahead*, that is,
  the stack begins it up to some frame whose remaining edges hold its next node
  (`CycleAhead`). A step that skips an edge may do so only because no cycle
  ahead needs it: the skipped node is below the start, on the path, or beyond the
  length bound. `Exploring` says the same of the hierarchy's walks (`WalkAhead`),
  where a walk that is listed already need not be ahead again.

`GraphTraversalLemmas` has what these rest on. A sorted result is given by, for
each row, the set of rows that sort before it (`Enumerate`); for a strict total
order on a finite set this is a sequence that holds each element once, in order,
and its prefix leaves out only what sorts later. Balls are recursive functions
over the naturals. As for `Total`, induction is taken from the well-foundedness of
`<` (`LeastNat`, `NatInSet`) and applied to sets of numbers instead of predicates,
which the provers can instantiate.

Only model-checked: liveness (`EventuallyClosed`, `EventuallyExits`,
`ServiceRecovers`, `CallReturns`, `QueriesServed`, `TrashResumed`,
`CommandsReturn`, `RefreshHappens`), which is out of the prover's reach.

## 5. Plan

1. `InferenceDaemon` (done), 2. `DaemonEndpoint` with proofs (done),
3. `IndexSnapshot`, `AtomicSnapshot`, refinement and proofs (done).
4. `CacheGc` with proofs of its lease and removal guarantees (done).
5. `IncrementalIndex` against a full index (done), 6. `BackgroundJob` (done),
7. `GraphTraversal` (done).
8. Proofs of `InferenceDaemon`, `BackgroundJob`, `IncrementalIndex` and of the
   quota of `CacheGc` (done), then of `GraphTraversal` (done).
9. Open hazards: `WalSidecars` (query writers without the writer lock against
   checkpoint, sidecar removal and rename; expand packs), and the git fingerprint
   and TTL stamp of the freshness check.

### Not modelled

Most of the repository's lines are not a system of states. About two fifths
of the Rust code are numeric kernels and their dispatch for CPU,
Metal and CUDA (`embed-native`, `qwen35-native`); a fifth is the extraction of
nodes and edges from syntax trees, language by language (`parser`), sequential
text processing over tables; much of `cli/src/lib.rs` is argument parsing,
output formatting and its unit tests. What these parts hand to the rest is in the
models (a text's definitions and references, a model call that succeeds, fails
or hangs); their insides could only be transcribed. Also left out: queries that
are one SQL statement (references, fan-in, counts, co-change), lexical and vector
ranking, the directory walk and its skip patterns, migrations, the grep
passthrough, benchmarks.
