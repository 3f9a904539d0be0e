-------------------------- MODULE InferenceDaemon --------------------------
(***************************************************************************)
(* One inference daemon process (crates/cli/src/inference_daemon.rs,       *)
(* run_server): an accept thread, READER_WORKERS reader threads, the main  *)
(* thread that owns the model, and the hung-worker watchdog.  The threads  *)
(* share two bounded channels, the pending_requests counter, last_activity *)
(* and the RuntimeStatus record.                                           *)
(*                                                                         *)
(* A connection stands for one client request.  Payloads are abstracted to *)
(* the branch they make the daemon take, and clocks to whether the elapsed *)
(* time has reached the limit it is compared with.                         *)
(***************************************************************************)
EXTENDS Integers, Sequences, FiniteSets

CONSTANTS Conns,        \* the client connections
          Readers,      \* the reader threads (READER_WORKERS of them)
          NoConn,       \* "no connection"
          AcceptCap,    \* ACCEPT_QUEUE_LENGTH
          JobCap        \* INFERENCE_QUEUE_LENGTH

Acceptor == "acceptor"
Worker == "worker"      \* the main thread of run_server
Watchdog == "watchdog"
Threads == {Acceptor, Worker, Watchdog} \cup Readers

ASSUME DaemonAssumption ==
    /\ IsFiniteSet(Conns) /\ NoConn \notin Conns
    /\ Readers # {} /\ Readers \cap {Acceptor, Worker, Watchdog} = {}
    /\ AcceptCap \in Nat \ {0} /\ JobCap \in Nat \ {0}

Phases == {"new", "backlog", "taken", "accept_queue", "job_queue", "held",
           "finished", "dropped"}
Replies == {"none", "capacity", "rejected", "info", "load_error", "result"}
LifecycleState == {"starting", "loading", "ready", "evicted", "faulted"}
Labels == {"start", "prewarm", "check", "accept", "count", "send", "recv",
           "read", "validate", "load", "handle", "complete", "finish",
           "stamp", "evict", "idle", "pending", "stop", "close", "returned",
           "stopped", "kill"}

VARIABLES
    phase,       \* [Conns -> Phases]: where a connection is
    reply,       \* [Conns -> Replies]: the response written to it
    accepted,    \* the channel from the accept thread to the readers
    jobs,        \* the channel from the readers to the main thread
    pc,          \* [Threads -> Labels]
    conn,        \* [Threads -> Conns \cup {NoConn}]: the stream a thread owns
    ret,         \* [Threads -> Labels]: where finish_request returns to
    pendingRequests, \* the atomic counter
    recent,      \* last_activity is younger than exit_ttl
    modelRecent, \* last_model_completed is younger than model_ttl
    model,       \* the model is loaded
    status,      \* the RuntimeStatus record
    stop,        \* the stop flag
    linked,      \* the socket file exists (EndpointGuard not dropped)
    exit         \* "running", or the process exit: "idle_exit", "hung_exit"

vars == <<phase, reply, accepted, jobs, pc, conn, ret, pendingRequests, recent,
          modelRecent, model, status, stop, linked, exit>>

\* The connections pending_requests stands for: counted, not yet finished.
Counted == {c \in Conns : phase[c] \in {"accept_queue", "job_queue", "held"}}

TypeOK ==
    /\ phase \in [Conns -> Phases]
    /\ reply \in [Conns -> Replies]
    /\ accepted \in Seq(Conns) /\ jobs \in Seq(Conns)
    /\ pc \in [Threads -> Labels]
    /\ conn \in [Threads -> Conns \cup {NoConn}]
    /\ ret \in [Threads -> Labels]
    /\ pendingRequests \in Nat
    /\ recent \in BOOLEAN /\ modelRecent \in BOOLEAN /\ model \in BOOLEAN
    /\ status \in [state : LifecycleState, active : Conns \cup {NoConn},
                   completed : Nat, rejected : Nat]
    /\ stop \in BOOLEAN /\ linked \in BOOLEAN
    /\ exit \in {"running", "idle_exit", "hung_exit"}

Init ==
    /\ phase = [c \in Conns |-> "new"]
    /\ reply = [c \in Conns |-> "none"]
    /\ accepted = <<>> /\ jobs = <<>>
    /\ pc = [t \in Threads |-> IF t = Worker THEN "start" ELSE "check"]
    /\ conn = [t \in Threads |-> NoConn]
    /\ ret = [t \in Threads |-> "check"]
    /\ pendingRequests = 0
    /\ recent = TRUE /\ modelRecent = TRUE /\ model = FALSE
    /\ status = [state |-> "starting", active |-> NoConn,
                 completed |-> 0, rejected |-> 0]
    /\ stop = FALSE /\ linked = TRUE /\ exit = "running"

-----------------------------------------------------------------------------
(* Helpers shared by the threads. *)

At(t, l) == exit = "running" /\ pc[t] = l

Goto(t, l) == pc' = [pc EXCEPT ![t] = l] /\ UNCHANGED ret

\* Call finish_request and continue at l when it returns.
CallFinish(t, l) ==
    /\ pc' = [pc EXCEPT ![t] = "finish"]
    /\ ret' = [ret EXCEPT ![t] = l]

\* write_response on the stream thread t owns.
Write(t, r) == reply' = [reply EXCEPT ![conn[t]] = r]

Rejected == [status EXCEPT !.rejected = @ + 1]

queues == <<accepted, jobs>>
clocks == <<recent, modelRecent>>
process == <<stop, linked, exit>>

\* finish_request, first half: the atomic decrement.
FinishSub(t) ==
    /\ At(t, "finish")
    /\ pendingRequests' = pendingRequests - 1
    /\ phase' = [phase EXCEPT ![conn[t]] = "finished"]
    /\ conn' = [conn EXCEPT ![t] = NoConn]
    /\ Goto(t, "stamp")
    /\ UNCHANGED <<reply, queues, clocks, model, status, process>>

\* finish_request, second half: last_activity = now, and the return.
FinishStamp(t) ==
    /\ At(t, "stamp")
    /\ recent' = TRUE
    /\ Goto(t, ret[t])
    /\ UNCHANGED <<phase, reply, queues, conn, pendingRequests, modelRecent,
                   model, status, process>>

-----------------------------------------------------------------------------
(* Clients and clocks. *)

Connect(c) ==
    /\ exit = "running" /\ linked
    /\ pc[Acceptor] # "stopped"
    /\ phase[c] = "new"
    /\ phase' = [phase EXCEPT ![c] = "backlog"]
    /\ UNCHANGED <<reply, queues, pc, conn, ret, pendingRequests, clocks, model,
                   status, process>>

ActivityExpires ==
    /\ exit = "running" /\ recent /\ recent' = FALSE
    /\ UNCHANGED <<phase, reply, queues, pc, conn, ret, pendingRequests,
                   modelRecent, model, status, process>>

ModelExpires ==
    /\ exit = "running" /\ modelRecent /\ modelRecent' = FALSE
    /\ UNCHANGED <<phase, reply, queues, pc, conn, ret, pendingRequests,
                   recent, model, status, process>>

-----------------------------------------------------------------------------
(* The accept thread (spawn_accept_loop). *)

\* Leaving the loop drops the listener: connections in its backlog are reset.
AcceptCheck ==
    /\ At(Acceptor, "check")
    /\ IF stop
       THEN /\ Goto(Acceptor, "stopped")
            /\ phase' = [c \in Conns |-> IF phase[c] = "backlog"
                                         THEN "dropped" ELSE phase[c]]
       ELSE Goto(Acceptor, "accept") /\ UNCHANGED phase
    /\ UNCHANGED <<reply, queues, conn, pendingRequests, clocks, model, status,
                   process>>

Accept ==
    /\ At(Acceptor, "accept")
    /\ \/ \E c \in Conns :
            /\ phase[c] = "backlog"
            /\ phase' = [phase EXCEPT ![c] = "taken"]
            /\ conn' = [conn EXCEPT ![Acceptor] = c]
            /\ Goto(Acceptor, "count")
       \/ /\ \A c \in Conns : phase[c] # "backlog"      \* WouldBlock
          /\ Goto(Acceptor, "check")
          /\ UNCHANGED <<phase, conn>>
    /\ UNCHANGED <<reply, queues, pendingRequests, clocks, model, status,
                   process>>

\* Faulty form of AcceptCount: the request is never counted.
AcceptCountMissing ==
    /\ At(Acceptor, "count")
    /\ phase' = [phase EXCEPT ![conn[Acceptor]] = "held"]
    /\ Goto(Acceptor, "send")
    /\ UNCHANGED <<reply, queues, conn, pendingRequests, clocks, model, status,
                   process>>

AcceptCount ==
    /\ At(Acceptor, "count")
    /\ pendingRequests' = pendingRequests + 1
    /\ phase' = [phase EXCEPT ![conn[Acceptor]] = "held"]
    /\ Goto(Acceptor, "send")
    /\ UNCHANGED <<reply, queues, conn, clocks, model, status, process>>

\* The readers own the receiving end: it is gone once they all stopped.
ReadersGone == \A r \in Readers : pc[r] = "stopped"

AcceptSend ==
    /\ At(Acceptor, "send")
    /\ \/ /\ ~ReadersGone /\ Len(accepted) < AcceptCap
          /\ accepted' = Append(accepted, conn[Acceptor])
          /\ phase' = [phase EXCEPT ![conn[Acceptor]] = "accept_queue"]
          /\ conn' = [conn EXCEPT ![Acceptor] = NoConn]
          /\ Goto(Acceptor, "check")
          /\ UNCHANGED <<reply, status>>
       \/ /\ ~ReadersGone /\ Len(accepted) >= AcceptCap    \* Full
          /\ status' = Rejected
          /\ Write(Acceptor, "capacity")
          /\ CallFinish(Acceptor, "check")
          /\ UNCHANGED <<phase, accepted, conn>>
       \/ /\ ReadersGone                                   \* Disconnected
          /\ CallFinish(Acceptor, "stopped")
          /\ UNCHANGED <<phase, reply, accepted, conn, status>>
    /\ UNCHANGED <<jobs, pendingRequests, clocks, model, process>>

-----------------------------------------------------------------------------
(* The reader threads (spawn_reader_workers, read_and_queue). *)

ReaderCheck(r) ==
    /\ At(r, "check")
    /\ Goto(r, IF stop THEN "stopped" ELSE "recv")
    /\ UNCHANGED <<phase, reply, queues, conn, pendingRequests, clocks, model,
                   status, process>>

ReaderRecv(r) ==
    /\ At(r, "recv")
    /\ \/ /\ accepted # <<>>
          /\ conn' = [conn EXCEPT ![r] = Head(accepted)]
          /\ phase' = [phase EXCEPT ![Head(accepted)] = "held"]
          /\ accepted' = Tail(accepted)
          /\ Goto(r, "read")
       \/ /\ accepted = <<>> /\ pc[Acceptor] = "stopped"
          /\ Goto(r, "stopped")
          /\ UNCHANGED <<phase, accepted, conn>>
    /\ UNCHANGED <<reply, jobs, pendingRequests, clocks, model, status, process>>

\* Faulty form of ReaderAnswers: an early return that forgets finish_request.
ReaderAnswersForgets(r) ==
    /\ At(r, "read")
    /\ Write(r, "info")
    /\ Goto(r, "check")
    /\ phase' = [phase EXCEPT ![conn[r]] = "finished"]
    /\ conn' = [conn EXCEPT ![r] = NoConn]
    /\ UNCHANGED <<queues, pendingRequests, clocks, model, status, process>>

\* Every exit of read_and_queue that does not enqueue a job.
ReaderAnswers(r) ==
    /\ At(r, "read")
    /\ \/ UNCHANGED <<reply, status>>               \* set_timeouts failed
       \/ Write(r, "rejected") /\ status' = Rejected \* bad frame, JSON, protocol
       \/ Write(r, "info") /\ UNCHANGED status       \* ping, status
    /\ CallFinish(r, "check")
    /\ UNCHANGED <<phase, queues, conn, pendingRequests, clocks, model, process>>

\* The main thread drops job_rx when run_server returns.
WorkerGone == pc[Worker] = "returned"

ReaderQueues(r) ==
    /\ At(r, "read")
    /\ \/ /\ ~WorkerGone /\ Len(jobs) < JobCap
          /\ jobs' = Append(jobs, conn[r])
          /\ phase' = [phase EXCEPT ![conn[r]] = "job_queue"]
          /\ conn' = [conn EXCEPT ![r] = NoConn]
          /\ Goto(r, "check")
          /\ UNCHANGED <<reply, status>>
       \/ /\ ~WorkerGone /\ Len(jobs) >= JobCap     \* Full
          /\ status' = Rejected
          /\ Write(r, "capacity")
          /\ CallFinish(r, "check")
          /\ UNCHANGED <<phase, jobs, conn>>
       \/ /\ WorkerGone                             \* Disconnected
          /\ CallFinish(r, "check")
          /\ UNCHANGED <<phase, reply, jobs, conn, status>>
    /\ UNCHANGED <<accepted, pendingRequests, clocks, model, process>>

-----------------------------------------------------------------------------
(* The main thread (run_server). *)

WorkerStart ==
    /\ At(Worker, "start")
    /\ \/ Goto(Worker, "recv") /\ UNCHANGED status
       \/ /\ Goto(Worker, "prewarm")
          /\ status' = [status EXCEPT !.state = "loading"]
    /\ UNCHANGED <<phase, reply, queues, conn, pendingRequests, clocks, model,
                   process>>

Prewarm ==
    /\ At(Worker, "prewarm")
    /\ model' \in BOOLEAN
    /\ status' = [status EXCEPT !.state = IF model' THEN "ready" ELSE "faulted"]
    /\ modelRecent' = TRUE
    /\ Goto(Worker, "recv")
    /\ UNCHANGED <<phase, reply, queues, conn, pendingRequests, recent, process>>

\* recv_timeout returned a job; Dequeue takes its stream from the channel.
Dequeue ==
    /\ jobs # <<>>
    /\ conn' = [conn EXCEPT ![Worker] = Head(jobs)]
    /\ phase' = [phase EXCEPT ![Head(jobs)] = "held"]
    /\ jobs' = Tail(jobs)

\* Faulty form of RecvExpired: no continue after the deadline response.
RecvExpiredFallsThrough ==
    /\ At(Worker, "recv")
    /\ Dequeue
    /\ status' = [Rejected EXCEPT !.active = Head(jobs)]
    /\ reply' = [reply EXCEPT ![Head(jobs)] = "rejected"]
    /\ Goto(Worker, "validate")
    /\ UNCHANGED <<accepted, pendingRequests, clocks, model, process>>

RecvExpired ==
    /\ At(Worker, "recv")
    /\ Dequeue
    /\ status' = Rejected
    /\ reply' = [reply EXCEPT ![Head(jobs)] = "rejected"]
    /\ CallFinish(Worker, "recv")                   \* continue
    /\ UNCHANGED <<accepted, pendingRequests, clocks, model, process>>

RecvJob ==
    /\ At(Worker, "recv")
    /\ Dequeue
    /\ status' = [status EXCEPT !.active = Head(jobs)]
    /\ Goto(Worker, "validate")
    /\ UNCHANGED <<reply, accepted, pendingRequests, clocks, model, process>>

RecvTimeout ==
    /\ At(Worker, "recv")
    /\ jobs = <<>>
    /\ Goto(Worker, "evict")
    /\ UNCHANGED <<phase, reply, queues, conn, pendingRequests, clocks, model,
                   status, process>>

Validate ==
    /\ At(Worker, "validate")
    /\ \/ /\ status' = [Rejected EXCEPT !.active = NoConn]
          /\ Write(Worker, "rejected")
          /\ CallFinish(Worker, "recv")             \* continue
       \/ /\ model
          /\ Goto(Worker, "handle")
          /\ UNCHANGED <<reply, status>>
       \/ /\ ~model
          /\ status' = [status EXCEPT !.state = "loading"]
          /\ Goto(Worker, "load")
          /\ UNCHANGED reply
    /\ UNCHANGED <<phase, queues, conn, pendingRequests, clocks, model, process>>

\* Faulty form of Load: a failed load leaves the request marked active.
LoadKeepsActive ==
    /\ At(Worker, "load")
    /\ \/ /\ model' = TRUE
          /\ Goto(Worker, "handle")
          /\ UNCHANGED <<reply, status>>
       \/ /\ status' = [status EXCEPT !.state = "faulted"]
          /\ Write(Worker, "load_error")
          /\ CallFinish(Worker, "recv")
          /\ UNCHANGED model
    /\ UNCHANGED <<phase, queues, conn, pendingRequests, clocks, process>>

Load ==
    /\ At(Worker, "load")
    /\ \/ /\ model' = TRUE
          /\ Goto(Worker, "handle")
          /\ UNCHANGED <<reply, status>>
       \/ /\ status' = [status EXCEPT !.state = "faulted", !.active = NoConn]
          /\ Write(Worker, "load_error")
          /\ CallFinish(Worker, "recv")             \* continue
          /\ UNCHANGED model
    /\ UNCHANGED <<phase, queues, conn, pendingRequests, clocks, process>>

\* handle may drop the model (it failed), writes the response either way.
Handle ==
    /\ At(Worker, "handle")
    /\ model' \in BOOLEAN
    /\ Write(Worker, "result")
    /\ modelRecent' = TRUE
    /\ Goto(Worker, "complete")
    /\ UNCHANGED <<phase, queues, conn, pendingRequests, recent, status, process>>

\* Faulty form of Complete: ready is reported even if handle lost the model.
CompleteAlwaysReady ==
    /\ At(Worker, "complete")
    /\ status' = [status EXCEPT !.active = NoConn, !.completed = @ + 1,
                                !.state = "ready"]
    /\ CallFinish(Worker, "evict")
    /\ UNCHANGED <<phase, reply, queues, conn, pendingRequests, clocks, model,
                   process>>

Complete ==
    /\ At(Worker, "complete")
    /\ status' = [status EXCEPT !.active = NoConn, !.completed = @ + 1,
                                !.state = IF model THEN "ready" ELSE "faulted"]
    /\ CallFinish(Worker, "evict")
    /\ UNCHANGED <<phase, reply, queues, conn, pendingRequests, clocks, model,
                   process>>

EvictIdleModel ==
    /\ At(Worker, "evict")
    /\ IF model /\ ~modelRecent
       THEN model' = FALSE /\ status' = [status EXCEPT !.state = "evicted"]
       ELSE UNCHANGED <<model, status>>
    /\ Goto(Worker, "idle")
    /\ UNCHANGED <<phase, reply, queues, conn, pendingRequests, clocks, process>>

\* activity_idle() >= exit_ttl, then, as the second operand of &&, the counter.
IdleCheck ==
    /\ At(Worker, "idle")
    /\ Goto(Worker, IF recent THEN "recv" ELSE "pending")
    /\ UNCHANGED <<phase, reply, queues, conn, pendingRequests, clocks, model,
                   status, process>>

\* Faulty form of PendingCheck: idle time alone decides.
PendingUnchecked ==
    /\ At(Worker, "pending")
    /\ Goto(Worker, "stop")
    /\ UNCHANGED <<phase, reply, queues, conn, pendingRequests, clocks, model,
                   status, process>>

PendingCheck ==
    /\ At(Worker, "pending")
    /\ Goto(Worker, IF pendingRequests = 0 THEN "stop" ELSE "recv")
    /\ UNCHANGED <<phase, reply, queues, conn, pendingRequests, clocks, model,
                   status, process>>

StoreStop ==
    /\ At(Worker, "stop")
    /\ stop' = TRUE
    /\ Goto(Worker, "close")
    /\ UNCHANGED <<phase, reply, queues, conn, pendingRequests, clocks, model,
                   status, linked, exit>>

\* drop(model), drop(endpoint_guard), drop(owner_lock); run_server returns and
\* its locals go, the receiving end of the job channel among them.
CloseEndpoint ==
    /\ At(Worker, "close")
    /\ model' = FALSE
    /\ linked' = FALSE
    /\ jobs' = <<>>
    /\ phase' = [c \in Conns |-> IF phase[c] = "job_queue"
                                 THEN "dropped" ELSE phase[c]]
    /\ Goto(Worker, "returned")
    /\ UNCHANGED <<reply, accepted, conn, pendingRequests, clocks, status, stop,
                   exit>>

\* The process is gone: every open stream is closed by the kernel.
Die(how) ==
    /\ exit' = how
    /\ phase' = [c \in Conns |-> IF phase[c] \in {"new", "finished"}
                                 THEN phase[c] ELSE "dropped"]
    /\ UNCHANGED <<reply, queues, pc, conn, ret, pendingRequests, clocks, model,
                   status, stop, linked>>

ProcessExit == At(Worker, "returned") /\ Die("idle_exit")

-----------------------------------------------------------------------------
(* The watchdog (spawn_hung_worker_watchdog): once active_request_started or *)
(* a loading state is hard_request_timeout old, it records the failure and   *)
(* calls exit(70), whatever the main thread has done in the meantime.        *)

\* Faulty form of LooksHung: a load that serves no request is not watched.
LooksHungActiveOnly == status.active # NoConn

LooksHung == status.active # NoConn \/ status.state = "loading"

WatchdogCheck ==
    /\ At(Watchdog, "check") /\ ~stop
    /\ LooksHung
    /\ Goto(Watchdog, "kill")
    /\ UNCHANGED <<phase, reply, queues, conn, pendingRequests, clocks, model,
                   status, process>>

WatchdogExit == At(Watchdog, "kill") /\ Die("hung_exit")

-----------------------------------------------------------------------------
AcceptThread ==
    \/ AcceptCheck \/ Accept \/ AcceptCount \/ AcceptSend
    \/ FinishSub(Acceptor) \/ FinishStamp(Acceptor)

ReaderThread(r) ==
    \/ ReaderCheck(r) \/ ReaderRecv(r) \/ ReaderAnswers(r) \/ ReaderQueues(r)
    \/ FinishSub(r) \/ FinishStamp(r)

\* The main thread except the two calls into the model, which may never return.
WorkerThread ==
    \/ WorkerStart \/ RecvExpired \/ RecvJob \/ RecvTimeout \/ Validate
    \/ Complete \/ EvictIdleModel \/ IdleCheck \/ PendingCheck \/ StoreStop
    \/ CloseEndpoint \/ ProcessExit
    \/ FinishSub(Worker) \/ FinishStamp(Worker)

ModelCall == Prewarm \/ Load \/ Handle

Clock == ActivityExpires \/ ModelExpires

Next ==
    \/ \E c \in Conns : Connect(c)
    \/ Clock
    \/ AcceptThread
    \/ \E r \in Readers : ReaderThread(r)
    \/ WorkerThread
    \/ ModelCall
    \/ WatchdogCheck \/ WatchdogExit

Spec == Init /\ [][Next]_vars

\* The OS schedules every thread and time passes; a model call may hang.
Fairness ==
    /\ WF_vars(AcceptThread)
    /\ \A r \in Readers : WF_vars(ReaderThread(r))
    /\ WF_vars(WorkerThread)
    /\ WF_vars(WatchdogCheck \/ WatchdogExit)
    /\ WF_vars(ActivityExpires)

FairSpec == Spec /\ Fairness

-----------------------------------------------------------------------------
(* Properties. *)

\* pending_requests is exactly the number of connections counted by the accept
\* loop and not yet through finish_request, on every path through the readers,
\* the queues and the worker, until the process or its job queue goes away; and
\* the assertion in finish_request, "pending inference request counter
\* underflow", never fires, whichever threads finish concurrently.
PendingExact ==
    /\ exit = "running" /\ ~WorkerGone => pendingRequests = Cardinality(Counted)
    /\ \A t \in Threads : At(t, "finish") => pendingRequests > 0

\* The idle exit is only decided when no accepted request is outstanding: a
\* request in a queue, being read or being computed keeps the daemon alive.
ExitDrained ==
    [][pc[Worker] # "stop" /\ pc'[Worker] = "stop" => Counted = {}]_vars

\* The watchdog decides to kill the process only while the main thread really is
\* inside the work on a request or a model load: a status record that is stale on
\* some path never costs a healthy daemon its life.
WatchdogSound ==
    [][pc[Watchdog] = "check" /\ pc'[Watchdog] = "kill"
        => pc[Worker] \in {"prewarm", "validate", "load", "handle", "complete"}]_vars

\* Between requests the reported lifecycle state says whether a model is
\* resident: ready exactly when it is, so eviction and faults are visible.
ReadyMeansLoaded ==
    exit = "running" /\ pc[Worker] \in {"recv", "evict", "idle", "pending"}
        => (status.state = "ready" <=> model)

\* A connection is answered at most once: no path writes a second response.
ReplyOnce ==
    [][\A c \in Conns : reply[c] # "none" => reply'[c] = reply[c]]_vars

\* Every accepted connection is eventually finished, or closed by the exit of
\* the process, although a model call may hang: the watchdog is what ends it.
EventuallyClosed ==
    \A c \in Conns : phase[c] = "taken" ~> phase[c] \in {"finished", "dropped"}

\* Once clients stay away the daemon exits: a leaked count, a thread waiting
\* for ever or a lost wake-up would keep an idle process and its model resident.
EventuallyExits == <>(exit # "running")
=============================================================================
