----------------------- MODULE InferenceDaemonProofs -----------------------
(***************************************************************************)
(* Proofs about InferenceDaemon for any number of connections and readers  *)
(* and any lengths of the two queues.                                      *)
(***************************************************************************)
EXTENDS InferenceDaemon, TLAPS, FiniteSetTheorems, SequenceTheorems

\* The labels at which a thread owns a stream.
Owning == {"count", "send", "read", "validate", "load", "handle", "complete",
           "finish"}
\* The labels at which it owns one that no response was written to.
Unwritten == {"count", "send", "read", "validate", "load", "handle"}

\* The types of the threads and the streams, the steps each thread may be at
\* and the places finish_request returns to.
Threaded ==
    /\ phase \in [Conns -> Phases]
    /\ reply \in [Conns -> Replies]
    /\ accepted \in Seq(Conns) /\ jobs \in Seq(Conns)
    /\ pc \in [Threads -> Labels]
    /\ conn \in [Threads -> Conns \cup {NoConn}]
    /\ ret \in [Threads -> Labels]
    /\ \A t \in Threads : pc[t] \in Owning => conn[t] \in Conns
    /\ pc[Acceptor] \in {"check", "accept", "count", "send", "finish", "stamp",
                         "stopped"}
    /\ ret[Acceptor] \in {"check", "stopped"}
    /\ \A r \in Readers :
          /\ pc[r] \in {"check", "recv", "read", "finish", "stamp", "stopped"}
          /\ ret[r] = "check"
    /\ pc[Worker] \in {"start", "prewarm", "recv", "validate", "load", "handle",
                       "complete", "finish", "stamp", "evict", "idle",
                       "pending", "stop", "close", "returned"}
    /\ pc[Worker] \in {"finish", "stamp"} => ret[Worker] \in {"recv", "evict"}
    /\ pc[Watchdog] \in {"check", "kill"}

StatusType == [state : LifecycleState, active : Conns \cup {NoConn},
               completed : Nat, rejected : Nat]

\* The types of the rest but the counter.
Flags ==
    /\ recent \in BOOLEAN /\ modelRecent \in BOOLEAN /\ model \in BOOLEAN
    /\ stop \in BOOLEAN /\ linked \in BOOLEAN
    /\ exit \in {"running", "idle_exit", "hung_exit"}
    /\ status \in StatusType

\* The streams in a queue, each of them there once.
Elements(s) == {s[i] : i \in 1..Len(s)}
Distinct(s) == \A i, j \in 1..Len(s) : s[i] = s[j] => i = j

\* A stream belongs to one thread or to one place in one queue.
Owned ==
    /\ \A t \in Threads : pc[t] \in Owning =>
          phase[conn[t]] = IF pc[t] = "count" THEN "taken" ELSE "held"
    /\ \A t, u \in Threads :
          pc[t] \in Owning /\ pc[u] \in Owning /\ conn[t] = conn[u] => t = u
Queued ==
    /\ Distinct(accepted) /\ Distinct(jobs)
    /\ \A c \in Elements(accepted) : phase[c] = "accept_queue"
    /\ \A c \in Elements(jobs) : phase[c] = "job_queue"
Streams == exit = "running" => Owned /\ Queued

\* A stream that is waiting, or in the hands of a thread that is still to write
\* its response, was not answered.
Unanswered ==
    exit = "running" =>
      /\ \A c \in Conns :
            phase[c] \in {"new", "backlog", "taken", "accept_queue", "job_queue"}
               => reply[c] = "none"
      /\ \A t \in Threads : pc[t] \in Unwritten => reply[conn[t]] = "none"

\* The counter is exact until the job queue goes away, and never too low.
Counter ==
    /\ pendingRequests \in Nat
    /\ exit = "running" =>
          IF WorkerGone THEN pendingRequests >= Cardinality(Counted)
                        ELSE pendingRequests = Cardinality(Counted)

\* What the status record says of the main thread.
StatusTruthful ==
    /\ status.active # NoConn
          => pc[Worker] \in {"validate", "load", "handle", "complete"}
    /\ status.state = "loading"
          => pc[Worker] \in {"prewarm", "load", "handle", "complete"}

ModelTruthful ==
    /\ pc[Worker] \in {"start", "recv", "validate", "finish", "stamp", "evict",
                       "idle", "pending"} => (status.state = "ready" <=> model)
    /\ pc[Worker] = "load" => ~model

\* The threads stay within their types and labels.
LEMMA ThreadStep == Threaded /\ [Next]_vars => Threaded'
<1> SUFFICES ASSUME Threaded, [Next]_vars PROVE Threaded'
  OBVIOUS
<1> USE DaemonAssumption
<1> USE DEF Threaded, Threads, Acceptor, Worker, Watchdog, Labels, Phases,
            Replies, Owning, At, queues
<1>1. ASSUME NEW c \in Conns, Connect(c) PROVE Threaded'
  BY <1>1 DEF Connect
<1>2. ASSUME ActivityExpires PROVE Threaded'
  BY <1>2 DEF ActivityExpires
<1>3. ASSUME ModelExpires PROVE Threaded'
  BY <1>3 DEF ModelExpires
<1>4. ASSUME AcceptCheck PROVE Threaded'
  <2>1. /\ phase' \in [Conns -> Phases]
        /\ \E l \in {"stopped", "accept"} : pc' = [pc EXCEPT ![Acceptor] = l]
    BY <1>4 DEF AcceptCheck, Goto
  <2> QED
    BY <1>4, <2>1 DEF AcceptCheck, Goto
<1>5. ASSUME Accept PROVE Threaded'
  <2>1. ASSUME NEW c \in Conns, phase' = [phase EXCEPT ![c] = "taken"],
               conn' = [conn EXCEPT ![Acceptor] = c], Goto(Acceptor, "count")
        PROVE  Threaded'
    BY <1>5, <2>1 DEF Accept, Goto
  <2>2. CASE Goto(Acceptor, "check") /\ UNCHANGED <<phase, conn>>
    BY <1>5, <2>2 DEF Accept, Goto
  <2> QED
    BY <1>5, <2>1, <2>2 DEF Accept
<1>6. ASSUME AcceptCount PROVE Threaded'
  BY <1>6 DEF AcceptCount, Goto
<1>7. ASSUME AcceptSend PROVE Threaded'
  <2>1. pc[Acceptor] = "send" /\ conn[Acceptor] \in Conns /\ jobs' = jobs
    BY <1>7 DEF AcceptSend
  <2>2. CASE /\ accepted' = Append(accepted, conn[Acceptor])
             /\ phase' = [phase EXCEPT ![conn[Acceptor]] = "accept_queue"]
             /\ conn' = [conn EXCEPT ![Acceptor] = NoConn]
             /\ Goto(Acceptor, "check") /\ UNCHANGED reply
    <3>1. accepted' \in Seq(Conns)
      BY <2>1, <2>2
    <3> QED
      BY <2>1, <2>2, <3>1 DEF Goto
  <2>3. CASE /\ Write(Acceptor, "capacity") /\ CallFinish(Acceptor, "check")
             /\ UNCHANGED <<phase, accepted, conn>>
    BY <2>1, <2>3 DEF Write, CallFinish
  <2>4. CASE /\ CallFinish(Acceptor, "stopped")
             /\ UNCHANGED <<phase, reply, accepted, conn>>
    BY <2>1, <2>4 DEF CallFinish
  <2> QED
    BY <1>7, <2>2, <2>3, <2>4 DEF AcceptSend
<1>8. ASSUME NEW t \in Threads, FinishSub(t) PROVE Threaded'
  BY <1>8 DEF FinishSub, Goto
<1>9. ASSUME NEW t \in Threads, FinishStamp(t) PROVE Threaded'
  BY <1>9 DEF FinishStamp, Goto
<1>10. ASSUME NEW r \in Readers, ReaderCheck(r) PROVE Threaded'
  BY <1>10 DEF ReaderCheck, Goto
<1>11. ASSUME NEW r \in Readers, ReaderRecv(r) PROVE Threaded'
  <2>1. pc[r] = "recv" /\ UNCHANGED <<reply, jobs>>
    BY <1>11 DEF ReaderRecv
  <2>2. CASE /\ accepted # <<>>
             /\ conn' = [conn EXCEPT ![r] = Head(accepted)]
             /\ phase' = [phase EXCEPT ![Head(accepted)] = "held"]
             /\ accepted' = Tail(accepted) /\ Goto(r, "read")
    <3>1. Head(accepted) \in Conns /\ accepted' \in Seq(Conns)
      BY <2>2
    <3> QED
      BY <2>1, <2>2, <3>1 DEF Goto
  <2>3. CASE Goto(r, "stopped") /\ UNCHANGED <<phase, accepted, conn>>
    BY <2>1, <2>3 DEF Goto
  <2> QED
    BY <1>11, <2>2, <2>3 DEF ReaderRecv
<1>12. ASSUME NEW r \in Readers, ReaderAnswers(r) PROVE Threaded'
  BY <1>12 DEF ReaderAnswers, CallFinish, Write, Rejected
<1>13. ASSUME NEW r \in Readers, ReaderQueues(r) PROVE Threaded'
  <2>1. pc[r] = "read" /\ conn[r] \in Conns /\ accepted' = accepted
    BY <1>13 DEF ReaderQueues
  <2>2. CASE /\ jobs' = Append(jobs, conn[r])
             /\ phase' = [phase EXCEPT ![conn[r]] = "job_queue"]
             /\ conn' = [conn EXCEPT ![r] = NoConn]
             /\ Goto(r, "check") /\ UNCHANGED reply
    <3>1. jobs' \in Seq(Conns)
      BY <2>1, <2>2
    <3> QED
      BY <2>1, <2>2, <3>1 DEF Goto
  <2>3. CASE /\ Write(r, "capacity") /\ CallFinish(r, "check")
             /\ UNCHANGED <<phase, jobs, conn>>
    BY <2>1, <2>3 DEF Write, CallFinish
  <2>4. CASE CallFinish(r, "check") /\ UNCHANGED <<phase, reply, jobs, conn>>
    BY <2>1, <2>4 DEF CallFinish
  <2> QED
    BY <1>13, <2>2, <2>3, <2>4 DEF ReaderQueues
<1>14. ASSUME WorkerStart PROVE Threaded'
  BY <1>14 DEF WorkerStart, Goto
<1>15. ASSUME Prewarm PROVE Threaded'
  BY <1>15 DEF Prewarm, Goto
<1>16. ASSUME RecvExpired PROVE Threaded'
  BY <1>16 DEF RecvExpired, Dequeue, CallFinish, Rejected
<1>17. ASSUME RecvJob PROVE Threaded'
  BY <1>17 DEF RecvJob, Dequeue, Goto
<1>18. ASSUME RecvTimeout PROVE Threaded'
  BY <1>18 DEF RecvTimeout, Goto
<1>19. ASSUME Validate PROVE Threaded'
  BY <1>19 DEF Validate, Goto, CallFinish, Write, Rejected
<1>20. ASSUME Load PROVE Threaded'
  <2>1. /\ pc[Worker] = "load" /\ conn[Worker] \in Conns
        /\ UNCHANGED <<phase, accepted, jobs, conn>>
    BY <1>20 DEF Load
  <2>2. CASE Goto(Worker, "handle") /\ UNCHANGED reply
    BY <2>1, <2>2 DEF Goto
  <2>3. CASE Write(Worker, "load_error") /\ CallFinish(Worker, "recv")
    BY <2>1, <2>3 DEF Write, CallFinish
  <2> QED
    BY <1>20, <2>2, <2>3 DEF Load
<1>21. ASSUME Handle PROVE Threaded'
  BY <1>21 DEF Handle, Goto, Write
<1>22. ASSUME Complete PROVE Threaded'
  BY <1>22 DEF Complete, CallFinish
<1>23. ASSUME EvictIdleModel PROVE Threaded'
  BY <1>23 DEF EvictIdleModel, Goto
<1>24. ASSUME IdleCheck PROVE Threaded'
  BY <1>24 DEF IdleCheck, Goto
<1>25. ASSUME PendingCheck PROVE Threaded'
  BY <1>25 DEF PendingCheck, Goto
<1>26. ASSUME StoreStop PROVE Threaded'
  BY <1>26 DEF StoreStop, Goto
<1>27. ASSUME CloseEndpoint PROVE Threaded'
  BY <1>27 DEF CloseEndpoint, Goto
<1>28. ASSUME ProcessExit PROVE Threaded'
  BY <1>28 DEF ProcessExit, Die
<1>29. ASSUME WatchdogCheck PROVE Threaded'
  BY <1>29 DEF WatchdogCheck, Goto
<1>30. ASSUME WatchdogExit PROVE Threaded'
  BY <1>30 DEF WatchdogExit, Die
<1>31. CASE UNCHANGED vars
  BY <1>31 DEF vars
<1> QED
  BY <1>1, <1>2, <1>3, <1>4, <1>5, <1>6, <1>7, <1>8, <1>9, <1>10, <1>11, <1>12,
     <1>13, <1>14, <1>15, <1>16, <1>17, <1>18, <1>19, <1>20, <1>21, <1>22,
     <1>23, <1>24, <1>25, <1>26, <1>27, <1>28, <1>29, <1>30, <1>31
  DEF Next, Clock, AcceptThread, ReaderThread, WorkerThread, ModelCall, Threads

\* The flags, the exit and the status record stay within their types.
LEMMA FlagStep == Threaded /\ Flags /\ [Next]_vars => Flags'
<1> SUFFICES ASSUME Threaded, Flags, [Next]_vars PROVE Flags'
  OBVIOUS
<1> USE DEF Flags, StatusType, LifecycleState, At, clocks, process
<1>1. ASSUME NEW c \in Conns, Connect(c) PROVE Flags'
  BY <1>1 DEF Connect
<1>2. ASSUME ActivityExpires PROVE Flags'
  BY <1>2 DEF ActivityExpires
<1>3. ASSUME ModelExpires PROVE Flags'
  BY <1>3 DEF ModelExpires
<1>4. ASSUME AcceptCheck PROVE Flags'
  BY <1>4 DEF AcceptCheck, Goto
<1>5. ASSUME Accept PROVE Flags'
  BY <1>5 DEF Accept, Goto
<1>6. ASSUME AcceptCount PROVE Flags'
  BY <1>6 DEF AcceptCount, Goto
<1>7. ASSUME AcceptSend PROVE Flags'
  BY <1>7 DEF AcceptSend, Goto, CallFinish, Write, Rejected
<1>8. ASSUME NEW t \in Threads, FinishSub(t) PROVE Flags'
  BY <1>8 DEF FinishSub, Goto
<1>9. ASSUME NEW t \in Threads, FinishStamp(t) PROVE Flags'
  BY <1>9 DEF FinishStamp, Goto
<1>10. ASSUME NEW r \in Readers, ReaderCheck(r) PROVE Flags'
  BY <1>10 DEF ReaderCheck, Goto
<1>11. ASSUME NEW r \in Readers, ReaderRecv(r) PROVE Flags'
  BY <1>11 DEF ReaderRecv, Goto
<1>12. ASSUME NEW r \in Readers, ReaderAnswers(r) PROVE Flags'
  BY <1>12 DEF ReaderAnswers, CallFinish, Write, Rejected
<1>13. ASSUME NEW r \in Readers, ReaderQueues(r) PROVE Flags'
  BY <1>13 DEF ReaderQueues, Goto, CallFinish, Write, Rejected
<1>14. ASSUME WorkerStart PROVE Flags'
  BY <1>14 DEF WorkerStart, Goto
<1>15. ASSUME Prewarm PROVE Flags'
  BY <1>15 DEF Prewarm, Goto
<1>16. ASSUME RecvExpired PROVE Flags'
  <2>1. status' = Rejected
    BY <1>16 DEF RecvExpired
  <2> QED
    BY <1>16, <2>1 DEF RecvExpired, Rejected
<1>17. ASSUME RecvJob PROVE Flags'
  <2>1. Head(jobs) \in Conns
    BY <1>17 DEF RecvJob, Dequeue, Threaded
  <2> QED
    BY <1>17, <2>1 DEF RecvJob
<1>18. ASSUME RecvTimeout PROVE Flags'
  BY <1>18 DEF RecvTimeout, Goto
<1>19. ASSUME Validate PROVE Flags'
  <2>1. status' \in {status, [Rejected EXCEPT !.active = NoConn],
                     [status EXCEPT !.state = "loading"]}
    BY <1>19 DEF Validate
  <2>2. Rejected \in StatusType
    BY DEF Rejected
  <2>3. status' \in StatusType
    BY <2>1, <2>2
  <2> QED
    BY <1>19, <2>3 DEF Validate
<1>20. ASSUME Load PROVE Flags'
  <2>1. /\ status' \in {status, [status EXCEPT !.state = "faulted",
                                              !.active = NoConn]}
        /\ model' \in BOOLEAN
    BY <1>20 DEF Load
  <2> QED
    BY <1>20, <2>1 DEF Load
<1>21. ASSUME Handle PROVE Flags'
  BY <1>21 DEF Handle, Goto, Write
<1>22. ASSUME Complete PROVE Flags'
  <2>1. PICK s \in LifecycleState :
           status' = [status EXCEPT !.active = NoConn,
                                    !.completed = status.completed + 1,
                                    !.state = s]
    BY <1>22 DEF Complete
  <2>2. status.completed + 1 \in Nat
    OBVIOUS
  <2>3. status' \in StatusType
    <3> HIDE DEF LifecycleState
    <3> QED
      BY <2>1, <2>2
  <2> QED
    BY <1>22, <2>3 DEF Complete
<1>23. ASSUME EvictIdleModel PROVE Flags'
  <2>1. /\ status' \in {status, [status EXCEPT !.state = "evicted"]}
        /\ model' \in BOOLEAN
    BY <1>23 DEF EvictIdleModel
  <2> QED
    BY <1>23, <2>1 DEF EvictIdleModel
<1>24. ASSUME IdleCheck PROVE Flags'
  BY <1>24 DEF IdleCheck, Goto
<1>25. ASSUME PendingCheck PROVE Flags'
  BY <1>25 DEF PendingCheck, Goto
<1>26. ASSUME StoreStop PROVE Flags'
  BY <1>26 DEF StoreStop, Goto
<1>27. ASSUME CloseEndpoint PROVE Flags'
  BY <1>27 DEF CloseEndpoint, Goto
<1>28. ASSUME ProcessExit PROVE Flags'
  BY <1>28 DEF ProcessExit, Die
<1>29. ASSUME WatchdogCheck PROVE Flags'
  BY <1>29 DEF WatchdogCheck, Goto
<1>30. ASSUME WatchdogExit PROVE Flags'
  BY <1>30 DEF WatchdogExit, Die
<1>31. CASE UNCHANGED vars
  BY <1>31 DEF vars
<1> QED
  BY <1>1, <1>2, <1>3, <1>4, <1>5, <1>6, <1>7, <1>8, <1>9, <1>10, <1>11, <1>12,
     <1>13, <1>14, <1>15, <1>16, <1>17, <1>18, <1>19, <1>20, <1>21, <1>22,
     <1>23, <1>24, <1>25, <1>26, <1>27, <1>28, <1>29, <1>30, <1>31
  DEF Next, Clock, AcceptThread, ReaderThread, WorkerThread, ModelCall, Threads

\* What is in a queue is a connection.
LEMMA QueueElements ==
    /\ \A s \in Seq(Conns) : Elements(s) \subseteq Conns
    /\ Elements(<<>>) = {} /\ Distinct(<<>>)
<1>1. ASSUME NEW s \in Seq(Conns) PROVE Elements(s) \subseteq Conns
  BY ElementOfSeq DEF Elements
<1>2. Elements(<<>>) = {} /\ Distinct(<<>>)
  BY DEF Elements, Distinct
<1> QED
  BY <1>1, <1>2

\* A stream sent to a queue is in it once if it was not there before.
LEMMA AppendOnce ==
    ASSUME NEW s \in Seq(Conns), NEW c \in Conns, c \notin Elements(s), Distinct(s)
    PROVE  /\ Elements(Append(s, c)) = Elements(s) \cup {c}
           /\ Distinct(Append(s, c))
<1> DEFINE a == Append(s, c)
<1>1. /\ Len(s) \in Nat /\ Len(a) = Len(s) + 1
      /\ \A i \in 1..Len(s) : a[i] = s[i]
      /\ a[Len(s) + 1] = c
  BY AppendProperties, LenProperties
<1> HIDE DEF a
<1>2. Elements(a) = Elements(s) \cup {c}
  <2>1. 1..Len(a) = 1..Len(s) \cup {Len(s) + 1}
    BY <1>1
  <2> QED
    BY <1>1, <2>1 DEF Elements
<1>3. Distinct(a)
  BY <1>1 DEF Elements, Distinct
<1> QED
  BY <1>2, <1>3 DEF a

\* A stream received from a queue is no longer in it.
LEMMA TailOnce ==
    ASSUME NEW s \in Seq(Conns), s # <<>>, Distinct(s)
    PROVE  /\ Head(s) \in Elements(s)
           /\ Elements(Tail(s)) = Elements(s) \ {Head(s)}
           /\ Distinct(Tail(s))
<1> DEFINE r == Tail(s)
<1>1. /\ Len(s) \in Nat \ {0} /\ Len(r) = Len(s) - 1
      /\ \A i \in 1..Len(r) : r[i] = s[i + 1]
      /\ Head(s) = s[1]
  BY HeadTailProperties, LenProperties, EmptySeq
<1> HIDE DEF r
<1>2. Head(s) \in Elements(s)
  BY <1>1 DEF Elements
<1>3. Elements(r) = Elements(s) \ {Head(s)}
  <2>1. ASSUME NEW c \in Elements(r) PROVE c \in Elements(s) \ {Head(s)}
    <3>1. PICK i \in 1..Len(r) : c = r[i]
      BY DEF Elements
    <3>2. i + 1 \in 1..Len(s) /\ c = s[i + 1] /\ i + 1 # 1 /\ 1 \in 1..Len(s)
      BY <1>1, <3>1
    <3> QED
      BY <1>1, <3>2 DEF Elements, Distinct
  <2>2. ASSUME NEW c \in Elements(s) \ {Head(s)} PROVE c \in Elements(r)
    <3>1. PICK i \in 1..Len(s) : c = s[i]
      BY DEF Elements
    <3>2. i - 1 \in 1..Len(r) /\ r[i - 1] = s[(i - 1) + 1] /\ (i - 1) + 1 = i
      BY <1>1, <2>2, <3>1
    <3> QED
      BY <3>1, <3>2 DEF Elements
  <2> QED
    BY <2>1, <2>2
<1>4. Distinct(r)
  <2> SUFFICES ASSUME NEW i \in 1..Len(r), NEW j \in 1..Len(r), r[i] = r[j]
               PROVE  i = j
    BY DEF Distinct
  <2>1. /\ i + 1 \in 1..Len(s) /\ j + 1 \in 1..Len(s)
        /\ s[i + 1] = s[j + 1]
    BY <1>1
  <2> QED
    BY <2>1, <1>1 DEF Distinct
<1> QED
  BY <1>2, <1>3, <1>4 DEF r

\* Taking a job from its queue makes the main thread its only owner.
LEMMA DequeueStreams ==
    ASSUME Threaded, Streams, At(Worker, "recv"), Dequeue,
           UNCHANGED <<accepted, exit>>,
           NEW l \in Owning \ {"count"}, pc' = [pc EXCEPT ![Worker] = l]
    PROVE  Streams'
<1> USE DaemonAssumption
<1> USE DEF Threaded, Streams, Owned, Queued, Threads, Worker, Owning, Phases, At
<1>1. /\ Head(jobs) \in Elements(jobs)
      /\ Elements(jobs') = Elements(jobs) \ {Head(jobs)}
      /\ Distinct(jobs')
  BY TailOnce DEF Dequeue
<1>2. Head(jobs) \in Conns /\ phase[Head(jobs)] = "job_queue"
  BY <1>1, QueueElements
<1>3. Queued'
  BY <1>1, <1>2, QueueElements DEF Dequeue
<1>4. Owned'
  BY <1>2 DEF Dequeue
<1> QED
  BY <1>3, <1>4

\* No step gives a stream to a second owner.
LEMMA StreamStep == Threaded /\ Streams /\ [Next]_vars => Streams'
<1> SUFFICES ASSUME Threaded, Streams, [Next]_vars PROVE Streams'
  OBVIOUS
<1> USE DaemonAssumption
<1> USE DEF Threaded, Streams, Owned, Queued, Threads, Acceptor, Worker, Watchdog,
            Owning, Phases, At, queues, process
<1>1. ASSUME NEW c \in Conns, Connect(c) PROVE Streams'
  BY <1>1 DEF Connect
<1>2. ASSUME ActivityExpires PROVE Streams'
  BY <1>2 DEF ActivityExpires
<1>3. ASSUME ModelExpires PROVE Streams'
  BY <1>3 DEF ModelExpires
<1>4. ASSUME AcceptCheck PROVE Streams'
  <2>1. /\ \A c \in Conns : phase[c] # "backlog" => phase'[c] = phase[c]
        /\ \E l \in {"stopped", "accept"} : pc' = [pc EXCEPT ![Acceptor] = l]
        /\ UNCHANGED <<accepted, jobs, conn, exit>>
    BY <1>4 DEF AcceptCheck, Goto
  <2> QED
    BY <2>1, QueueElements
<1>5. ASSUME Accept PROVE Streams'
  <2>1. ASSUME NEW c \in Conns, phase[c] = "backlog",
               phase' = [phase EXCEPT ![c] = "taken"],
               conn' = [conn EXCEPT ![Acceptor] = c], Goto(Acceptor, "count")
        PROVE  Streams'
    <3>1. exit = "running" /\ UNCHANGED <<accepted, jobs, exit>>
      BY <1>5 DEF Accept
    <3>2. Queued'
      BY <2>1, <3>1, QueueElements
    <3>3. Owned'
      BY <2>1, <3>1 DEF Goto
    <3> QED
      BY <3>2, <3>3
  <2>2. CASE Goto(Acceptor, "check") /\ UNCHANGED <<phase, conn>>
    BY <1>5, <2>2 DEF Accept, Goto
  <2> QED
    BY <1>5, <2>1, <2>2 DEF Accept
<1>6. ASSUME AcceptCount PROVE Streams'
  BY <1>6 DEF AcceptCount, Goto
<1>7. ASSUME AcceptSend PROVE Streams'
  <2>1. /\ exit = "running" /\ pc[Acceptor] = "send" /\ conn[Acceptor] \in Conns
        /\ phase[conn[Acceptor]] = "held" /\ UNCHANGED <<jobs, exit>>
    BY <1>7 DEF AcceptSend
  <2>2. CASE /\ accepted' = Append(accepted, conn[Acceptor])
             /\ phase' = [phase EXCEPT ![conn[Acceptor]] = "accept_queue"]
             /\ conn' = [conn EXCEPT ![Acceptor] = NoConn]
             /\ Goto(Acceptor, "check")
    <3>1. /\ Elements(accepted') = Elements(accepted) \cup {conn[Acceptor]}
          /\ Distinct(accepted')
      BY <2>1, <2>2, AppendOnce
    <3>2. Queued'
      BY <2>1, <2>2, <3>1, QueueElements
    <3>3. Owned'
      BY <2>1, <2>2 DEF Goto
    <3> QED
      BY <3>2, <3>3
  <2>3. CASE /\ \E l \in {"check", "stopped"} : CallFinish(Acceptor, l)
             /\ UNCHANGED <<phase, accepted, conn>>
    BY <2>1, <2>3 DEF CallFinish
  <2> QED
    BY <1>7, <2>2, <2>3 DEF AcceptSend
<1>8. ASSUME NEW t \in Threads, FinishSub(t) PROVE Streams'
  BY <1>8 DEF FinishSub, Goto
<1>9. ASSUME NEW t \in Threads, FinishStamp(t) PROVE Streams'
  BY <1>9 DEF FinishStamp, Goto
<1>10. ASSUME NEW r \in Readers, ReaderCheck(r) PROVE Streams'
  BY <1>10 DEF ReaderCheck, Goto
<1>11. ASSUME NEW r \in Readers, ReaderRecv(r) PROVE Streams'
  <2>1. /\ exit = "running" /\ pc[r] = "recv" /\ UNCHANGED <<jobs, exit>>
    BY <1>11 DEF ReaderRecv
  <2>2. CASE /\ accepted # <<>>
             /\ conn' = [conn EXCEPT ![r] = Head(accepted)]
             /\ phase' = [phase EXCEPT ![Head(accepted)] = "held"]
             /\ accepted' = Tail(accepted) /\ Goto(r, "read")
    <3>1. /\ Head(accepted) \in Elements(accepted)
          /\ Elements(accepted') = Elements(accepted) \ {Head(accepted)}
          /\ Distinct(accepted')
      BY <2>1, <2>2, TailOnce
    <3>2. Head(accepted) \in Conns /\ phase[Head(accepted)] = "accept_queue"
      BY <2>1, <3>1, QueueElements
    <3>3. Queued'
      BY <2>1, <2>2, <3>1, <3>2, QueueElements
    <3>4. Owned'
      BY <2>1, <2>2, <3>2 DEF Goto
    <3> QED
      BY <3>3, <3>4
  <2>3. CASE Goto(r, "stopped") /\ UNCHANGED <<phase, accepted, conn>>
    BY <2>1, <2>3 DEF Goto
  <2> QED
    BY <1>11, <2>2, <2>3 DEF ReaderRecv
<1>12. ASSUME NEW r \in Readers, ReaderAnswers(r) PROVE Streams'
  BY <1>12 DEF ReaderAnswers, CallFinish, Write, Rejected
<1>13. ASSUME NEW r \in Readers, ReaderQueues(r) PROVE Streams'
  <2>1. /\ exit = "running" /\ pc[r] = "read" /\ conn[r] \in Conns
        /\ phase[conn[r]] = "held" /\ UNCHANGED <<accepted, exit>>
    BY <1>13 DEF ReaderQueues
  <2>2. CASE /\ jobs' = Append(jobs, conn[r])
             /\ phase' = [phase EXCEPT ![conn[r]] = "job_queue"]
             /\ conn' = [conn EXCEPT ![r] = NoConn]
             /\ Goto(r, "check")
    <3>1. /\ Elements(jobs') = Elements(jobs) \cup {conn[r]}
          /\ Distinct(jobs')
      BY <2>1, <2>2, AppendOnce
    <3>2. Queued'
      BY <2>1, <2>2, <3>1, QueueElements
    <3>3. ASSUME NEW t \in Threads, pc'[t] \in Owning
          PROVE  /\ pc[t] = pc'[t] /\ conn[t] = conn'[t] /\ conn[t] # conn[r]
      BY <2>1, <2>2, <3>3 DEF Goto
    <3>4. Owned'
      BY <2>1, <2>2, <3>3
    <3> QED
      BY <3>2, <3>4
  <2>3. CASE CallFinish(r, "check") /\ UNCHANGED <<phase, jobs, conn>>
    BY <2>1, <2>3 DEF CallFinish
  <2> QED
    BY <1>13, <2>2, <2>3 DEF ReaderQueues
<1>14. ASSUME WorkerStart PROVE Streams'
  BY <1>14 DEF WorkerStart, Goto
<1>15. ASSUME Prewarm PROVE Streams'
  BY <1>15 DEF Prewarm, Goto
<1>16. ASSUME RecvExpired PROVE Streams'
  <2>1. pc' = [pc EXCEPT ![Worker] = "finish"]
    BY <1>16 DEF RecvExpired, CallFinish
  <2> QED
    BY <1>16, <2>1, DequeueStreams DEF RecvExpired
<1>17. ASSUME RecvJob PROVE Streams'
  <2>1. pc' = [pc EXCEPT ![Worker] = "validate"]
    BY <1>17 DEF RecvJob, Goto
  <2> QED
    BY <1>17, <2>1, DequeueStreams DEF RecvJob
<1>18. ASSUME RecvTimeout PROVE Streams'
  BY <1>18 DEF RecvTimeout, Goto
<1>19. ASSUME Validate PROVE Streams'
  BY <1>19 DEF Validate, Goto, CallFinish, Write, Rejected
<1>20. ASSUME Load PROVE Streams'
  BY <1>20 DEF Load, Goto, CallFinish, Write
<1>21. ASSUME Handle PROVE Streams'
  BY <1>21 DEF Handle, Goto, Write
<1>22. ASSUME Complete PROVE Streams'
  BY <1>22 DEF Complete, CallFinish
<1>23. ASSUME EvictIdleModel PROVE Streams'
  BY <1>23 DEF EvictIdleModel, Goto
<1>24. ASSUME IdleCheck PROVE Streams'
  BY <1>24 DEF IdleCheck, Goto
<1>25. ASSUME PendingCheck PROVE Streams'
  BY <1>25 DEF PendingCheck, Goto
<1>26. ASSUME StoreStop PROVE Streams'
  BY <1>26 DEF StoreStop, Goto
<1>27. ASSUME CloseEndpoint PROVE Streams'
  <2>1. /\ \A c \in Conns : phase[c] # "job_queue" => phase'[c] = phase[c]
        /\ exit = "running" /\ jobs' = <<>> /\ UNCHANGED <<accepted, conn, exit>>
        /\ pc[Worker] = "close" /\ pc' = [pc EXCEPT ![Worker] = "returned"]
    BY <1>27 DEF CloseEndpoint, Goto
  <2>2. Queued'
    BY <2>1, QueueElements
  <2>3. Owned'
    BY <2>1
  <2> QED
    BY <2>2, <2>3
<1>28. ASSUME ProcessExit PROVE Streams'
  BY <1>28 DEF ProcessExit, Die
<1>29. ASSUME WatchdogCheck PROVE Streams'
  BY <1>29 DEF WatchdogCheck, Goto
<1>30. ASSUME WatchdogExit PROVE Streams'
  BY <1>30 DEF WatchdogExit, Die
<1>31. CASE UNCHANGED vars
  BY <1>31 DEF vars
<1> QED
  BY <1>1, <1>2, <1>3, <1>4, <1>5, <1>6, <1>7, <1>8, <1>9, <1>10, <1>11, <1>12,
     <1>13, <1>14, <1>15, <1>16, <1>17, <1>18, <1>19, <1>20, <1>21, <1>22,
     <1>23, <1>24, <1>25, <1>26, <1>27, <1>28, <1>29, <1>30, <1>31
  DEF Next, Clock, AcceptThread, ReaderThread, WorkerThread, ModelCall, Threads
\* The stream a queue delivers next is one that was counted.
LEMMA QueueHeads ==
    ASSUME Threaded, Streams, exit = "running"
    PROVE  /\ accepted # <<>> => /\ Head(accepted) \in Conns
                                /\ phase[Head(accepted)] = "accept_queue"
           /\ jobs # <<>> => /\ Head(jobs) \in Conns
                            /\ phase[Head(jobs)] = "job_queue"
  BY TailOnce, QueueElements DEF Threaded, Streams, Queued

\* A step that is neither the increment, the decrement, the end of the job queue
\* nor the exit moves no stream into or out of what the counter stands for.
SameCount ==
    /\ Counted' = Counted
    /\ UNCHANGED <<pendingRequests, exit>>
    /\ WorkerGone' <=> WorkerGone
Exits == exit' # "running" /\ UNCHANGED pendingRequests

\* Every other step leaves the counted streams and the counter alone.
LEMMA CountCases ==
    Threaded /\ Streams /\ [Next]_vars =>
        \/ SameCount \/ Exits \/ AcceptCount \/ CloseEndpoint
        \/ \E t \in Threads : FinishSub(t)
<1> DEFINE Goal == \/ SameCount \/ Exits \/ AcceptCount \/ CloseEndpoint
                   \/ \E t \in Threads : FinishSub(t)
<1> SUFFICES ASSUME Threaded, Streams, [Next]_vars PROVE Goal
  OBVIOUS
<1> USE DaemonAssumption
<1> USE DEF SameCount, Exits, Counted, WorkerGone, Threaded, Streams, Owned, Queued,
            Threads, Acceptor, Worker, Watchdog, Owning, Phases, At, process
<1>1. ASSUME NEW c \in Conns, Connect(c) PROVE Goal
  BY <1>1 DEF Connect
<1>2. ASSUME ActivityExpires PROVE Goal
  BY <1>2 DEF ActivityExpires
<1>3. ASSUME ModelExpires PROVE Goal
  BY <1>3 DEF ModelExpires
<1>4. ASSUME AcceptCheck PROVE Goal
  BY <1>4 DEF AcceptCheck, Goto
<1>5. ASSUME Accept PROVE Goal
  BY <1>5 DEF Accept, Goto
<1>6. ASSUME AcceptCount PROVE Goal
  BY <1>6
<1>7. ASSUME AcceptSend PROVE Goal
  BY <1>7 DEF AcceptSend, Goto, CallFinish, Write, Rejected
<1>8. ASSUME NEW t \in Threads, FinishSub(t) PROVE Goal
  BY <1>8
<1>9. ASSUME NEW t \in Threads, FinishStamp(t) PROVE Goal
  BY <1>9 DEF FinishStamp, Goto
<1>10. ASSUME NEW r \in Readers, ReaderCheck(r) PROVE Goal
  BY <1>10 DEF ReaderCheck, Goto
<1>11. ASSUME NEW r \in Readers, ReaderRecv(r) PROVE Goal
  BY <1>11, QueueHeads DEF ReaderRecv, Goto
<1>12. ASSUME NEW r \in Readers, ReaderAnswers(r) PROVE Goal
  BY <1>12 DEF ReaderAnswers, CallFinish, Write, Rejected
<1>13. ASSUME NEW r \in Readers, ReaderQueues(r) PROVE Goal
  BY <1>13 DEF ReaderQueues, Goto, CallFinish, Write, Rejected
<1>14. ASSUME WorkerStart PROVE Goal
  BY <1>14 DEF WorkerStart, Goto
<1>15. ASSUME Prewarm PROVE Goal
  BY <1>15 DEF Prewarm, Goto
<1>16. ASSUME RecvExpired PROVE Goal
  BY <1>16, QueueHeads DEF RecvExpired, Dequeue, CallFinish, Rejected
<1>17. ASSUME RecvJob PROVE Goal
  BY <1>17, QueueHeads DEF RecvJob, Dequeue, Goto
<1>18. ASSUME RecvTimeout PROVE Goal
  BY <1>18 DEF RecvTimeout, Goto
<1>19. ASSUME Validate PROVE Goal
  BY <1>19 DEF Validate, Goto, CallFinish, Write, Rejected
<1>20. ASSUME Load PROVE Goal
  BY <1>20 DEF Load, Goto, CallFinish, Write
<1>21. ASSUME Handle PROVE Goal
  BY <1>21 DEF Handle, Goto, Write
<1>22. ASSUME Complete PROVE Goal
  BY <1>22 DEF Complete, CallFinish
<1>23. ASSUME EvictIdleModel PROVE Goal
  BY <1>23 DEF EvictIdleModel, Goto
<1>24. ASSUME IdleCheck PROVE Goal
  BY <1>24 DEF IdleCheck, Goto
<1>25. ASSUME PendingCheck PROVE Goal
  BY <1>25 DEF PendingCheck, Goto
<1>26. ASSUME StoreStop PROVE Goal
  BY <1>26 DEF StoreStop, Goto
<1>27. ASSUME CloseEndpoint PROVE Goal
  BY <1>27
<1>28. ASSUME ProcessExit PROVE Goal
  BY <1>28 DEF ProcessExit, Die
<1>29. ASSUME WatchdogCheck PROVE Goal
  BY <1>29 DEF WatchdogCheck, Goto
<1>30. ASSUME WatchdogExit PROVE Goal
  BY <1>30 DEF WatchdogExit, Die
<1>31. CASE UNCHANGED vars
  BY <1>31 DEF vars
<1> QED
  BY <1>1, <1>2, <1>3, <1>4, <1>5, <1>6, <1>7, <1>8, <1>9, <1>10, <1>11, <1>12,
     <1>13, <1>14, <1>15, <1>16, <1>17, <1>18, <1>19, <1>20, <1>21, <1>22,
     <1>23, <1>24, <1>25, <1>26, <1>27, <1>28, <1>29, <1>30, <1>31
  DEF Next, Clock, AcceptThread, ReaderThread, WorkerThread, ModelCall, Threads
\* Every step keeps the counter.
LEMMA CounterStep ==
    Threaded /\ Streams /\ Counter /\ [Next]_vars => Counter'
<1> SUFFICES ASSUME Threaded, Streams, Counter, [Next]_vars PROVE Counter'
  OBVIOUS
<1> USE DaemonAssumption
<1>1. IsFiniteSet(Counted) /\ IsFiniteSet(Counted') /\ Cardinality(Counted) \in Nat
  BY FS_Subset, FS_CardinalityType DEF Counted
<1>2. CASE SameCount
  BY <1>2 DEF SameCount, Counter
<1>3. CASE Exits
  BY <1>3 DEF Exits, Counter
<1>4. CASE AcceptCount
  <2> DEFINE c == conn[Acceptor]
  <2>1. /\ c \in Conns /\ phase[c] = "taken" /\ phase' = [phase EXCEPT ![c] = "held"]
        /\ pendingRequests' = pendingRequests + 1 /\ exit = "running"
        /\ exit' = exit
    BY <1>4 DEF AcceptCount, At, Threaded, Threads, Streams, Owned, Owning, process
  <2>2. Counted' = Counted \cup {c} /\ c \notin Counted
    BY <2>1 DEF Counted, Threaded
  <2>3. Cardinality(Counted') = Cardinality(Counted) + 1
    BY <1>1, <2>2, FS_AddElement
  <2>4. WorkerGone' <=> WorkerGone
    BY <1>4 DEF AcceptCount, Goto, WorkerGone, Threaded, Threads, Acceptor, Worker
  <2> HIDE DEF c
  <2> QED
    BY <1>1, <2>1, <2>3, <2>4 DEF Counter
<1>5. CASE CloseEndpoint
  <2>1. Counted' \subseteq Counted
    BY <1>5 DEF CloseEndpoint, Counted, Threaded
  <2>2. Cardinality(Counted') <= Cardinality(Counted) /\ Cardinality(Counted') \in Nat
    BY <1>1, <2>1, FS_Subset, FS_CardinalityType
  <2>3. /\ ~WorkerGone /\ WorkerGone' /\ exit = "running"
        /\ UNCHANGED <<exit, pendingRequests>>
    BY <1>5 DEF CloseEndpoint, At, Goto, WorkerGone, Threaded, Threads
  <2> QED
    BY <1>1, <2>2, <2>3 DEF Counter
<1>6. ASSUME NEW t \in Threads, FinishSub(t) PROVE Counter'
  <2> DEFINE c == conn[t]
  <2>1. /\ c \in Conns /\ phase[c] = "held"
        /\ phase' = [phase EXCEPT ![c] = "finished"]
        /\ pendingRequests' = pendingRequests - 1 /\ exit = "running"
        /\ exit' = exit
    BY <1>6 DEF FinishSub, At, Threaded, Streams, Owned, Owning, process
  <2>2. Counted' = Counted \ {c} /\ c \in Counted
    BY <2>1 DEF Counted, Threaded
  <2>3. Cardinality(Counted') = Cardinality(Counted) - 1 /\ Cardinality(Counted') \in Nat
    BY <1>1, <2>2, FS_RemoveElement, FS_CardinalityType
  <2>4. WorkerGone' <=> WorkerGone
    BY <1>6 DEF FinishSub, At, Goto, WorkerGone, Threaded, Threads
  <2> HIDE DEF c
  <2> QED
    BY <1>1, <2>1, <2>3, <2>4 DEF Counter
<1> QED
  BY <1>2, <1>3, <1>4, <1>5, <1>6, CountCases

\* What the whole of the state satisfies.
DaemonInv == Threaded /\ Flags /\ Streams /\ Counter

\* The four hold in every reachable state.
LEMMA DaemonInvariant == Spec => []DaemonInv
<1>1. Init => DaemonInv
  <2> SUFFICES ASSUME Init PROVE DaemonInv
    OBVIOUS
  <2>1. Threaded
    BY DaemonAssumption
    DEF Init, Threaded, Threads, Acceptor, Worker, Watchdog, Labels, Phases,
        Replies, Owning
  <2>2. Flags
    <3>1. status \in StatusType
      BY DEF Init, StatusType, LifecycleState
    <3> QED
      BY <3>1 DEF Init, Flags
  <2>3. Streams
    <3>1. Owned
      BY DEF Init, Owned, Owning, Worker
    <3>2. Queued
      BY QueueElements DEF Init, Queued
    <3> QED
      BY <3>1, <3>2 DEF Streams
  <2>4. Counter
    <3>1. Counted = {} /\ ~WorkerGone
      BY DEF Init, Counted, WorkerGone, Worker, Threads
    <3> QED
      BY <3>1, FS_EmptySet DEF Init, Counter
  <2> QED
    BY <2>1, <2>2, <2>3, <2>4 DEF DaemonInv
<1>2. DaemonInv /\ [Next]_vars => DaemonInv'
  BY ThreadStep, FlagStep, StreamStep, CounterStep DEF DaemonInv
<1> QED
  BY <1>1, <1>2, PTL DEF Spec

\* The threads, the queues, the counter and the status record stay within their
\* types; in particular pending_requests never goes below zero.
THEOREM Typing == Spec => []TypeOK
<1>1. DaemonInv => TypeOK
  BY DEF DaemonInv, Threaded, Flags, StatusType, Counter, TypeOK
<1> QED
  BY <1>1, DaemonInvariant, PTL

\* pending_requests is the number of requests that are counted and not finished,
\* and finish_request never meets a counter of zero.
THEOREM PendingIsExact == Spec => []PendingExact
<1>1. DaemonInv => PendingExact
  <2> SUFFICES ASSUME DaemonInv PROVE PendingExact
    OBVIOUS
  <2>1. ASSUME NEW t \in Threads, At(t, "finish") PROVE pendingRequests > 0
    <3>1. conn[t] \in Counted /\ exit = "running"
      BY <2>1 DEF DaemonInv, At, Threaded, Streams, Owned, Owning, Counted
    <3>2. IsFiniteSet(Counted) /\ Cardinality(Counted) \in Nat
      BY DaemonAssumption, FS_Subset, FS_CardinalityType DEF Counted
    <3>3. Cardinality(Counted) # 0
      BY <3>1, <3>2, FS_EmptySet
    <3> QED
      BY <3>1, <3>2, <3>3 DEF DaemonInv, Counter
  <2> QED
    BY <2>1 DEF PendingExact, DaemonInv, Counter
<1> QED
  BY <1>1, DaemonInvariant, PTL


\* Every step keeps the status record true of the main thread and of the model.
LEMMA StatusStep ==
    Threaded /\ Flags /\ StatusTruthful /\ ModelTruthful /\ [Next]_vars
        => StatusTruthful' /\ ModelTruthful'
<1> DEFINE Truthful == StatusTruthful /\ ModelTruthful
<1> SUFFICES ASSUME Threaded, Flags, Truthful, [Next]_vars PROVE Truthful'
  OBVIOUS
<1> USE DaemonAssumption
<1> USE DEF StatusTruthful, ModelTruthful, Threaded, Flags, StatusType, Threads,
            Acceptor, Worker, Watchdog, At
<1>1. ASSUME NEW c \in Conns, Connect(c) PROVE Truthful'
  BY <1>1 DEF Connect
<1>2. ASSUME ActivityExpires PROVE Truthful'
  BY <1>2 DEF ActivityExpires
<1>3. ASSUME ModelExpires PROVE Truthful'
  BY <1>3 DEF ModelExpires
<1>4. ASSUME AcceptCheck PROVE Truthful'
  BY <1>4 DEF AcceptCheck, Goto
<1>5. ASSUME Accept PROVE Truthful'
  BY <1>5 DEF Accept, Goto
<1>6. ASSUME AcceptCount PROVE Truthful'
  BY <1>6 DEF AcceptCount, Goto
<1>7. ASSUME AcceptSend PROVE Truthful'
  BY <1>7 DEF AcceptSend, Goto, CallFinish, Write, Rejected
<1>8. ASSUME NEW t \in Threads, FinishSub(t) PROVE Truthful'
  BY <1>8 DEF FinishSub, Goto
<1>9. ASSUME NEW t \in Threads, FinishStamp(t) PROVE Truthful'
  BY <1>9 DEF FinishStamp, Goto
<1>10. ASSUME NEW r \in Readers, ReaderCheck(r) PROVE Truthful'
  BY <1>10 DEF ReaderCheck, Goto
<1>11. ASSUME NEW r \in Readers, ReaderRecv(r) PROVE Truthful'
  BY <1>11 DEF ReaderRecv, Goto
<1>12. ASSUME NEW r \in Readers, ReaderAnswers(r) PROVE Truthful'
  BY <1>12 DEF ReaderAnswers, CallFinish, Write, Rejected
<1>13. ASSUME NEW r \in Readers, ReaderQueues(r) PROVE Truthful'
  BY <1>13 DEF ReaderQueues, Goto, CallFinish, Write, Rejected
<1>14. ASSUME WorkerStart PROVE Truthful'
  BY <1>14 DEF WorkerStart, Goto
<1>15. ASSUME Prewarm PROVE Truthful'
  BY <1>15 DEF Prewarm, Goto
<1>16. ASSUME RecvExpired PROVE Truthful'
  BY <1>16 DEF RecvExpired, Dequeue, CallFinish, Rejected
<1>17. ASSUME RecvJob PROVE Truthful'
  BY <1>17 DEF RecvJob, Dequeue, Goto
<1>18. ASSUME RecvTimeout PROVE Truthful'
  BY <1>18 DEF RecvTimeout, Goto
<1>19. ASSUME Validate PROVE Truthful'
  BY <1>19 DEF Validate, Goto, CallFinish, Write, Rejected
<1>20. ASSUME Load PROVE Truthful'
  <2>1. CASE /\ model' = TRUE /\ Goto(Worker, "handle") /\ UNCHANGED status
    BY <1>20, <2>1 DEF Load, Goto
  <2>2. CASE /\ status' = [status EXCEPT !.state = "faulted", !.active = NoConn]
             /\ CallFinish(Worker, "recv") /\ UNCHANGED model
    BY <1>20, <2>2 DEF Load, CallFinish
  <2> QED
    BY <1>20, <2>1, <2>2 DEF Load
<1>21. ASSUME Handle PROVE Truthful'
  BY <1>21 DEF Handle, Goto, Write
<1>22. ASSUME Complete PROVE Truthful'
  BY <1>22 DEF Complete, CallFinish
<1>23. ASSUME EvictIdleModel PROVE Truthful'
  BY <1>23 DEF EvictIdleModel, Goto
<1>24. ASSUME IdleCheck PROVE Truthful'
  BY <1>24 DEF IdleCheck, Goto
<1>25. ASSUME PendingCheck PROVE Truthful'
  BY <1>25 DEF PendingCheck, Goto
<1>26. ASSUME StoreStop PROVE Truthful'
  BY <1>26 DEF StoreStop, Goto
<1>27. ASSUME CloseEndpoint PROVE Truthful'
  BY <1>27 DEF CloseEndpoint, Goto
<1>28. ASSUME ProcessExit PROVE Truthful'
  BY <1>28 DEF ProcessExit, Die
<1>29. ASSUME WatchdogCheck PROVE Truthful'
  BY <1>29 DEF WatchdogCheck, Goto
<1>30. ASSUME WatchdogExit PROVE Truthful'
  BY <1>30 DEF WatchdogExit, Die
<1>31. CASE UNCHANGED vars
  BY <1>31 DEF vars
<1> QED
  BY <1>1, <1>2, <1>3, <1>4, <1>5, <1>6, <1>7, <1>8, <1>9, <1>10, <1>11, <1>12,
     <1>13, <1>14, <1>15, <1>16, <1>17, <1>18, <1>19, <1>20, <1>21, <1>22,
     <1>23, <1>24, <1>25, <1>26, <1>27, <1>28, <1>29, <1>30, <1>31
  DEF Next, Clock, AcceptThread, ReaderThread, WorkerThread, ModelCall, Threads

\* It is true in every reachable state.
LEMMA StatusInvariant == Spec => [](StatusTruthful /\ ModelTruthful)
<1>1. Init => StatusTruthful /\ ModelTruthful
  BY DEF Init, StatusTruthful, ModelTruthful
<1> QED
  BY <1>1, StatusStep, DaemonInvariant, PTL DEF Spec, DaemonInv

\* No step answers a stream that is still to be answered by another.
LEMMA AnswerStep ==
    Threaded /\ Streams /\ Unanswered /\ [Next]_vars => Unanswered'
<1> SUFFICES ASSUME Threaded, Streams, Unanswered, [Next]_vars PROVE Unanswered'
  OBVIOUS
<1> USE DaemonAssumption
<1> USE DEF Unanswered, Threaded, Streams, Owned, Threads, Acceptor, Worker,
            Watchdog, Owning, Unwritten, Phases, At, process
<1>1. ASSUME NEW c \in Conns, Connect(c) PROVE Unanswered'
  BY <1>1 DEF Connect
<1>2. ASSUME ActivityExpires PROVE Unanswered'
  BY <1>2 DEF ActivityExpires
<1>3. ASSUME ModelExpires PROVE Unanswered'
  BY <1>3 DEF ModelExpires
<1>4. ASSUME AcceptCheck PROVE Unanswered'
  BY <1>4 DEF AcceptCheck, Goto
<1>5. ASSUME Accept PROVE Unanswered'
  BY <1>5 DEF Accept, Goto
<1>6. ASSUME AcceptCount PROVE Unanswered'
  BY <1>6 DEF AcceptCount, Goto
<1>7. ASSUME AcceptSend PROVE Unanswered'
  BY <1>7 DEF AcceptSend, Goto, CallFinish, Write, Rejected
<1>8. ASSUME NEW t \in Threads, FinishSub(t) PROVE Unanswered'
  BY <1>8 DEF FinishSub, Goto
<1>9. ASSUME NEW t \in Threads, FinishStamp(t) PROVE Unanswered'
  BY <1>9 DEF FinishStamp, Goto
<1>10. ASSUME NEW r \in Readers, ReaderCheck(r) PROVE Unanswered'
  BY <1>10 DEF ReaderCheck, Goto
<1>11. ASSUME NEW r \in Readers, ReaderRecv(r) PROVE Unanswered'
  BY <1>11, QueueHeads DEF ReaderRecv, Goto
<1>12. ASSUME NEW r \in Readers, ReaderAnswers(r) PROVE Unanswered'
  BY <1>12 DEF ReaderAnswers, CallFinish, Write, Rejected
<1>13. ASSUME NEW r \in Readers, ReaderQueues(r) PROVE Unanswered'
  BY <1>13 DEF ReaderQueues, Goto, CallFinish, Write, Rejected
<1>14. ASSUME WorkerStart PROVE Unanswered'
  BY <1>14 DEF WorkerStart, Goto
<1>15. ASSUME Prewarm PROVE Unanswered'
  BY <1>15 DEF Prewarm, Goto
<1>16. ASSUME RecvExpired PROVE Unanswered'
  BY <1>16, QueueHeads DEF RecvExpired, Dequeue, CallFinish
<1>17. ASSUME RecvJob PROVE Unanswered'
  BY <1>17, QueueHeads DEF RecvJob, Dequeue, Goto
<1>18. ASSUME RecvTimeout PROVE Unanswered'
  BY <1>18 DEF RecvTimeout, Goto
<1>19. ASSUME Validate PROVE Unanswered'
  BY <1>19 DEF Validate, Goto, CallFinish, Write, Rejected
<1>20. ASSUME Load PROVE Unanswered'
  BY <1>20 DEF Load, Goto, CallFinish, Write
<1>21. ASSUME Handle PROVE Unanswered'
  BY <1>21 DEF Handle, Goto, Write
<1>22. ASSUME Complete PROVE Unanswered'
  BY <1>22 DEF Complete, CallFinish
<1>23. ASSUME EvictIdleModel PROVE Unanswered'
  BY <1>23 DEF EvictIdleModel, Goto
<1>24. ASSUME IdleCheck PROVE Unanswered'
  BY <1>24 DEF IdleCheck, Goto
<1>25. ASSUME PendingCheck PROVE Unanswered'
  BY <1>25 DEF PendingCheck, Goto
<1>26. ASSUME StoreStop PROVE Unanswered'
  BY <1>26 DEF StoreStop, Goto
<1>27. ASSUME CloseEndpoint PROVE Unanswered'
  BY <1>27 DEF CloseEndpoint, Goto
<1>28. ASSUME ProcessExit PROVE Unanswered'
  BY <1>28 DEF ProcessExit, Die
<1>29. ASSUME WatchdogCheck PROVE Unanswered'
  BY <1>29 DEF WatchdogCheck, Goto
<1>30. ASSUME WatchdogExit PROVE Unanswered'
  BY <1>30 DEF WatchdogExit, Die
<1>31. CASE UNCHANGED vars
  BY <1>31 DEF vars
<1> QED
  BY <1>1, <1>2, <1>3, <1>4, <1>5, <1>6, <1>7, <1>8, <1>9, <1>10, <1>11, <1>12,
     <1>13, <1>14, <1>15, <1>16, <1>17, <1>18, <1>19, <1>20, <1>21, <1>22,
     <1>23, <1>24, <1>25, <1>26, <1>27, <1>28, <1>29, <1>30, <1>31
  DEF Next, Clock, AcceptThread, ReaderThread, WorkerThread, ModelCall, Threads

\* They are unanswered in every reachable state.
LEMMA AnswerInvariant == Spec => []Unanswered
<1>1. Init => Unanswered
  BY DEF Init, Unanswered, Unwritten
<1> QED
  BY <1>1, AnswerStep, DaemonInvariant, PTL DEF Spec, DaemonInv

\* A response is only written to a stream that has none.
LEMMA AnswerOnce ==
    Threaded /\ Streams /\ Unanswered /\ [Next]_vars =>
        \A c \in Conns : reply[c] # "none" => reply'[c] = reply[c]
<1> DEFINE Once == \A c \in Conns : reply[c] # "none" => reply'[c] = reply[c]
<1> SUFFICES ASSUME Threaded, Streams, Unanswered, [Next]_vars PROVE Once
  OBVIOUS
<1> USE DEF Unanswered, Threaded, Threads, Owning, Unwritten, At
<1>1. ASSUME NEW c \in Conns, Connect(c) PROVE Once
  BY <1>1 DEF Connect
<1>2. ASSUME ActivityExpires PROVE Once
  BY <1>2 DEF ActivityExpires
<1>3. ASSUME ModelExpires PROVE Once
  BY <1>3 DEF ModelExpires
<1>4. ASSUME AcceptCheck PROVE Once
  BY <1>4 DEF AcceptCheck, Goto
<1>5. ASSUME Accept PROVE Once
  BY <1>5 DEF Accept, Goto
<1>6. ASSUME AcceptCount PROVE Once
  BY <1>6 DEF AcceptCount, Goto
<1>7. ASSUME AcceptSend PROVE Once
  BY <1>7 DEF AcceptSend, Goto, CallFinish, Write, Rejected
<1>8. ASSUME NEW t \in Threads, FinishSub(t) PROVE Once
  BY <1>8 DEF FinishSub, Goto
<1>9. ASSUME NEW t \in Threads, FinishStamp(t) PROVE Once
  BY <1>9 DEF FinishStamp, Goto
<1>10. ASSUME NEW r \in Readers, ReaderCheck(r) PROVE Once
  BY <1>10 DEF ReaderCheck, Goto
<1>11. ASSUME NEW r \in Readers, ReaderRecv(r) PROVE Once
  BY <1>11 DEF ReaderRecv, Goto
<1>12. ASSUME NEW r \in Readers, ReaderAnswers(r) PROVE Once
  BY <1>12 DEF ReaderAnswers, CallFinish, Write, Rejected
<1>13. ASSUME NEW r \in Readers, ReaderQueues(r) PROVE Once
  BY <1>13 DEF ReaderQueues, Goto, CallFinish, Write, Rejected
<1>14. ASSUME WorkerStart PROVE Once
  BY <1>14 DEF WorkerStart, Goto
<1>15. ASSUME Prewarm PROVE Once
  BY <1>15 DEF Prewarm, Goto
<1>16. ASSUME RecvExpired PROVE Once
  BY <1>16, QueueHeads DEF RecvExpired, Dequeue
<1>17. ASSUME RecvJob PROVE Once
  BY <1>17 DEF RecvJob, Dequeue, Goto
<1>18. ASSUME RecvTimeout PROVE Once
  BY <1>18 DEF RecvTimeout, Goto
<1>19. ASSUME Validate PROVE Once
  BY <1>19 DEF Validate, Goto, CallFinish, Write, Rejected
<1>20. ASSUME Load PROVE Once
  BY <1>20 DEF Load, Goto, CallFinish, Write
<1>21. ASSUME Handle PROVE Once
  BY <1>21 DEF Handle, Goto, Write
<1>22. ASSUME Complete PROVE Once
  BY <1>22 DEF Complete, CallFinish
<1>23. ASSUME EvictIdleModel PROVE Once
  BY <1>23 DEF EvictIdleModel, Goto
<1>24. ASSUME IdleCheck PROVE Once
  BY <1>24 DEF IdleCheck, Goto
<1>25. ASSUME PendingCheck PROVE Once
  BY <1>25 DEF PendingCheck, Goto
<1>26. ASSUME StoreStop PROVE Once
  BY <1>26 DEF StoreStop, Goto
<1>27. ASSUME CloseEndpoint PROVE Once
  BY <1>27 DEF CloseEndpoint, Goto
<1>28. ASSUME ProcessExit PROVE Once
  BY <1>28 DEF ProcessExit, Die
<1>29. ASSUME WatchdogCheck PROVE Once
  BY <1>29 DEF WatchdogCheck, Goto
<1>30. ASSUME WatchdogExit PROVE Once
  BY <1>30 DEF WatchdogExit, Die
<1>31. CASE UNCHANGED vars
  BY <1>31 DEF vars
<1> QED
  BY <1>1, <1>2, <1>3, <1>4, <1>5, <1>6, <1>7, <1>8, <1>9, <1>10, <1>11, <1>12,
     <1>13, <1>14, <1>15, <1>16, <1>17, <1>18, <1>19, <1>20, <1>21, <1>22,
     <1>23, <1>24, <1>25, <1>26, <1>27, <1>28, <1>29, <1>30, <1>31
  DEF Next, Clock, AcceptThread, ReaderThread, WorkerThread, ModelCall, Threads

\* Only its own check moves the watchdog, and only PendingCheck stops the main
\* thread.
LEMMA ControlMoves ==
    Threaded /\ [Next]_vars =>
        /\ WatchdogCheck \/ pc'[Watchdog] = pc[Watchdog]
        /\ PendingCheck \/ pc'[Worker] # "stop" \/ pc'[Worker] = pc[Worker]
<1> DEFINE Moves ==
        /\ WatchdogCheck \/ pc'[Watchdog] = pc[Watchdog]
        /\ PendingCheck \/ pc'[Worker] # "stop" \/ pc'[Worker] = pc[Worker]
<1> SUFFICES ASSUME Threaded, [Next]_vars PROVE Moves
  OBVIOUS
<1> USE DaemonAssumption
<1> USE DEF Threaded, Threads, Acceptor, Worker, Watchdog, At
<1>1. ASSUME NEW c \in Conns, Connect(c) PROVE Moves
  BY <1>1 DEF Connect
<1>2. ASSUME ActivityExpires PROVE Moves
  BY <1>2 DEF ActivityExpires
<1>3. ASSUME ModelExpires PROVE Moves
  BY <1>3 DEF ModelExpires
<1>4. ASSUME AcceptCheck PROVE Moves
  BY <1>4 DEF AcceptCheck, Goto
<1>5. ASSUME Accept PROVE Moves
  BY <1>5 DEF Accept, Goto
<1>6. ASSUME AcceptCount PROVE Moves
  BY <1>6 DEF AcceptCount, Goto
<1>7. ASSUME AcceptSend PROVE Moves
  BY <1>7 DEF AcceptSend, Goto, CallFinish, Write, Rejected
<1>8. ASSUME NEW t \in Threads, FinishSub(t) PROVE Moves
  BY <1>8 DEF FinishSub, Goto
<1>9. ASSUME NEW t \in Threads, FinishStamp(t) PROVE Moves
  BY <1>9 DEF FinishStamp, Goto
<1>10. ASSUME NEW r \in Readers, ReaderCheck(r) PROVE Moves
  BY <1>10 DEF ReaderCheck, Goto
<1>11. ASSUME NEW r \in Readers, ReaderRecv(r) PROVE Moves
  BY <1>11 DEF ReaderRecv, Goto
<1>12. ASSUME NEW r \in Readers, ReaderAnswers(r) PROVE Moves
  BY <1>12 DEF ReaderAnswers, CallFinish, Write, Rejected
<1>13. ASSUME NEW r \in Readers, ReaderQueues(r) PROVE Moves
  BY <1>13 DEF ReaderQueues, Goto, CallFinish, Write, Rejected
<1>14. ASSUME WorkerStart PROVE Moves
  BY <1>14 DEF WorkerStart, Goto
<1>15. ASSUME Prewarm PROVE Moves
  BY <1>15 DEF Prewarm, Goto
<1>16. ASSUME RecvExpired PROVE Moves
  BY <1>16 DEF RecvExpired, Dequeue, CallFinish, Rejected
<1>17. ASSUME RecvJob PROVE Moves
  BY <1>17 DEF RecvJob, Dequeue, Goto
<1>18. ASSUME RecvTimeout PROVE Moves
  BY <1>18 DEF RecvTimeout, Goto
<1>19. ASSUME Validate PROVE Moves
  BY <1>19 DEF Validate, Goto, CallFinish, Write, Rejected
<1>20. ASSUME Load PROVE Moves
  BY <1>20 DEF Load, Goto, CallFinish, Write
<1>21. ASSUME Handle PROVE Moves
  BY <1>21 DEF Handle, Goto, Write
<1>22. ASSUME Complete PROVE Moves
  BY <1>22 DEF Complete, CallFinish
<1>23. ASSUME EvictIdleModel PROVE Moves
  BY <1>23 DEF EvictIdleModel, Goto
<1>24. ASSUME IdleCheck PROVE Moves
  BY <1>24 DEF IdleCheck, Goto
<1>25. ASSUME PendingCheck PROVE Moves
  BY <1>25 DEF PendingCheck, Goto
<1>26. ASSUME StoreStop PROVE Moves
  BY <1>26 DEF StoreStop, Goto
<1>27. ASSUME CloseEndpoint PROVE Moves
  BY <1>27 DEF CloseEndpoint, Goto
<1>28. ASSUME ProcessExit PROVE Moves
  BY <1>28 DEF ProcessExit, Die
<1>29. ASSUME WatchdogCheck PROVE Moves
  BY <1>29 DEF WatchdogCheck, Goto
<1>30. ASSUME WatchdogExit PROVE Moves
  BY <1>30 DEF WatchdogExit, Die
<1>31. CASE UNCHANGED vars
  BY <1>31 DEF vars
<1> QED
  BY <1>1, <1>2, <1>3, <1>4, <1>5, <1>6, <1>7, <1>8, <1>9, <1>10, <1>11, <1>12,
     <1>13, <1>14, <1>15, <1>16, <1>17, <1>18, <1>19, <1>20, <1>21, <1>22,
     <1>23, <1>24, <1>25, <1>26, <1>27, <1>28, <1>29, <1>30, <1>31
  DEF Next, Clock, AcceptThread, ReaderThread, WorkerThread, ModelCall, Threads

\* The watchdog decides to kill only while the main thread is inside a request
\* or a model load, for it looks at a status record that says so.
THEOREM WatchdogIsSound == Spec => WatchdogSound
<1> DEFINE Sound == pc[Watchdog] = "check" /\ pc'[Watchdog] = "kill"
             => pc[Worker] \in {"prewarm", "validate", "load", "handle", "complete"}
<1>1. DaemonInv /\ StatusTruthful /\ [Next]_vars => Sound
  <2> SUFFICES ASSUME DaemonInv, StatusTruthful, [Next]_vars PROVE Sound
    OBVIOUS
  <2>1. WatchdogCheck \/ pc'[Watchdog] = pc[Watchdog]
    BY ControlMoves DEF DaemonInv
  <2>2. ASSUME WatchdogCheck PROVE Sound
    BY <2>2 DEF WatchdogCheck, LooksHung, StatusTruthful
  <2> QED
    BY <2>1, <2>2
<1>2. Spec => [][Sound]_vars
  BY <1>1, DaemonInvariant, StatusInvariant, PTL DEF Spec
<1> QED
  BY <1>2 DEF WatchdogSound

\* Between requests the record says ready exactly when the model is resident.
THEOREM ReadyIsLoaded == Spec => []ReadyMeansLoaded
<1>1. ModelTruthful => ReadyMeansLoaded
  BY DEF ModelTruthful, ReadyMeansLoaded
<1> QED
  BY <1>1, StatusInvariant, PTL

\* The idle exit is decided only when no counted request is outstanding: the
\* counter the main thread reads is exact at that moment.
THEOREM ExitIsDrained == Spec => ExitDrained
<1> DEFINE Drained == pc[Worker] # "stop" /\ pc'[Worker] = "stop" => Counted = {}
<1>1. DaemonInv /\ [Next]_vars => Drained
  <2> SUFFICES ASSUME DaemonInv, [Next]_vars PROVE Drained
    OBVIOUS
  <2>1. PendingCheck \/ pc'[Worker] # "stop" \/ pc'[Worker] = pc[Worker]
    BY ControlMoves DEF DaemonInv
  <2>2. ASSUME PendingCheck PROVE Drained
    <3>1. /\ exit = "running" /\ ~WorkerGone
          /\ pc'[Worker] = "stop" => pendingRequests = 0
      BY <2>2 DEF PendingCheck, At, Goto, WorkerGone, DaemonInv, Threaded, Threads
    <3>2. IsFiniteSet(Counted)
      BY DaemonAssumption, FS_Subset DEF Counted
    <3>3. pendingRequests = Cardinality(Counted)
      BY <3>1 DEF DaemonInv, Counter
    <3> QED
      BY <3>1, <3>2, <3>3, FS_EmptySet
  <2> QED
    BY <2>1, <2>2
<1>2. Spec => [][Drained]_vars
  BY <1>1, DaemonInvariant, PTL DEF Spec
<1> QED
  BY <1>2 DEF ExitDrained

\* No path writes a second response to a connection: the thread that writes owns
\* the stream alone, and has not written to it before.
THEOREM RepliesOnce == Spec => ReplyOnce
<1> DEFINE Once == \A c \in Conns : reply[c] # "none" => reply'[c] = reply[c]
<1>1. DaemonInv /\ Unanswered /\ [Next]_vars => Once
  BY AnswerOnce DEF DaemonInv
<1>2. Spec => [][Once]_vars
  BY <1>1, DaemonInvariant, AnswerInvariant, PTL DEF Spec
<1> QED
  BY <1>2 DEF ReplyOnce

=============================================================================
