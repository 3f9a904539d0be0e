--------------------------- MODULE DaemonEndpoint ---------------------------
(***************************************************************************)
(* The life of one inference-daemon endpoint across processes: CLI clients *)
(* (embed_daemon.rs, summarize_daemon.rs, request and spawn_once of        *)
(* inference_daemon.rs), the daemons they spawn, and what they share: the  *)
(* owner and spawn file locks, the socket path and the cooldown file.      *)
(* What happens inside a serving daemon is module InferenceDaemon.         *)
(***************************************************************************)
EXTENDS Integers

CONSTANTS Clients,    \* client processes, one request at a time each
          Daemons,    \* slots for daemon processes alive at the same time
          None,       \* no process holds a lock / no file at the path
          Stale,      \* a socket file whose process is gone
          Retries,    \* retry_delays: requests made after spawn_once
          MaxFaults   \* bound on crashes, hangs and failed spawns

ASSUME EndpointAssumption ==
    /\ None \notin Clients \cup Daemons /\ Stale \notin Daemons \cup {None}
    /\ Retries \in Nat \ {0} /\ MaxFaults \in Nat

DaemonStates == {"none", "started", "owner", "cleared", "bound", "serving",
                 "stopping", "unlinked"}
ClientLabels == {"idle", "connect", "waiting", "hangup", "spawn", "lock",
                 "exec", "record", "write", "decide"}
SpawnOutcomes == {"none", "spawned", "spawn_failed", "contended", "cooldown"}
Outcomes == {"none", "response", "busy", "failed", "no_daemon"}

VARIABLES
    daemon,     \* [Daemons -> DaemonStates]
    owner,      \* holder of the .owner lock
    sock,       \* the socket path: None, Stale, or the daemon bound to it
    cooldown,   \* the .cooldown file: "absent", "active" (< 2 s old), "expired"
    spawnLock,  \* holder of the .spawn lock
    cpc,        \* [Clients -> ClientLabels]
    peer,       \* [Clients -> Daemons \cup {None}]: the daemon connected to
    busySeen,   \* [Clients -> BOOLEAN]: capacity_seen of the current request()
    spawned,    \* [Clients -> SpawnOutcomes]: result of spawn_once
    tries,      \* [Clients -> 0..Retries]: retries left
    outcome,    \* [Clients -> Outcomes]: what the last call returned
    faults      \* faults injected so far

server == <<daemon, owner, sock>>
client == <<cpc, peer, busySeen, spawned, tries, outcome>>
vars == <<server, cooldown, spawnLock, client, faults>>

TypeOK ==
    /\ daemon \in [Daemons -> DaemonStates]
    /\ owner \in Daemons \cup {None}
    /\ sock \in Daemons \cup {None, Stale}
    /\ cooldown \in {"absent", "active", "expired"}
    /\ spawnLock \in Clients \cup {None}
    /\ cpc \in [Clients -> ClientLabels]
    /\ peer \in [Clients -> Daemons \cup {None}]
    /\ busySeen \in [Clients -> BOOLEAN]
    /\ spawned \in [Clients -> SpawnOutcomes]
    /\ tries \in [Clients -> 0..Retries]
    /\ outcome \in [Clients -> Outcomes]
    /\ faults \in 0..MaxFaults

Init ==
    /\ daemon = [d \in Daemons |-> "none"]
    /\ owner = None /\ sock = None /\ cooldown = "absent" /\ spawnLock = None
    /\ cpc = [c \in Clients |-> "idle"]
    /\ peer = [c \in Clients |-> None]
    /\ busySeen = [c \in Clients |-> FALSE]
    /\ spawned = [c \in Clients |-> "none"]
    /\ tries = [c \in Clients |-> 0]
    /\ outcome = [c \in Clients |-> "none"]
    /\ faults = 0

-----------------------------------------------------------------------------
(* Clients. *)

Return(c, o) ==
    /\ cpc' = [cpc EXCEPT ![c] = "idle"]
    /\ outcome' = [outcome EXCEPT ![c] = o]

\* embed_query_via_daemon_result is called: its first request().
Call(c) ==
    /\ cpc[c] = "idle"
    /\ cpc' = [cpc EXCEPT ![c] = "connect"]
    /\ busySeen' = [busySeen EXCEPT ![c] = FALSE]
    /\ spawned' = [spawned EXCEPT ![c] = "none"]
    /\ tries' = [tries EXCEPT ![c] = Retries]
    /\ outcome' = [outcome EXCEPT ![c] = "none"]
    /\ UNCHANGED <<server, cooldown, spawnLock, peer, faults>>

\* The accept thread of a stopping daemon may already have closed the listener.
Listening == {d \in Daemons : daemon[d] \in {"bound", "serving", "stopping"}}
Refusing == {d \in Daemons : daemon[d] = "stopping"}

ConnectOk(c) ==
    /\ cpc[c] = "connect"
    /\ sock \in Listening
    /\ cpc' = [cpc EXCEPT ![c] = "waiting"]
    /\ peer' = [peer EXCEPT ![c] = sock]
    /\ UNCHANGED <<server, cooldown, spawnLock, busySeen, spawned, tries,
                   outcome, faults>>

\* Faulty forms of ConnectNoDaemon: one retry too many, and retries without end.
ConnectNoDaemonOnceMore(c) ==
    /\ cpc[c] = "connect"
    /\ sock \notin Listening \ Refusing
    /\ busySeen' = [busySeen EXCEPT ![c] = FALSE]
    /\ \/ /\ spawned[c] = "none"
          /\ cpc' = [cpc EXCEPT ![c] = "spawn"]
          /\ UNCHANGED tries
       \/ /\ spawned[c] # "none"
          /\ tries' = [tries EXCEPT ![c] = @ - 1]
          /\ cpc' = [cpc EXCEPT ![c] = IF tries[c] = 0 THEN "record"
                                                       ELSE "connect"]
    /\ UNCHANGED <<server, cooldown, spawnLock, peer, spawned, outcome, faults>>

ConnectNoDaemonForever(c) ==
    /\ cpc[c] = "connect"
    /\ sock \notin Listening \ Refusing
    /\ busySeen' = [busySeen EXCEPT ![c] = FALSE]
    /\ cpc' = [cpc EXCEPT ![c] = IF spawned[c] = "none" THEN "spawn" ELSE "connect"]
    /\ UNCHANGED <<server, cooldown, spawnLock, peer, spawned, tries, outcome, faults>>

\* no_daemon_error: request() returns NoDaemon to the retry loop around it.
ConnectNoDaemon(c) ==
    /\ cpc[c] = "connect"
    /\ sock \notin Listening \ Refusing
    /\ busySeen' = [busySeen EXCEPT ![c] = FALSE]
    /\ \/ /\ spawned[c] = "none"
          /\ cpc' = [cpc EXCEPT ![c] = "spawn"]
          /\ UNCHANGED tries
       \/ /\ spawned[c] # "none"
          /\ tries' = [tries EXCEPT ![c] = @ - 1]
          /\ cpc' = [cpc EXCEPT ![c] = IF tries[c] = 1 THEN "record"
                                                       ELSE "connect"]
    /\ UNCHANGED <<server, cooldown, spawnLock, peer, spawned, outcome, faults>>

\* The daemon answers: a result, an error, or a retryable capacity response.
Answered(c) ==
    /\ cpc[c] = "waiting"
    /\ daemon[peer[c]] \in {"serving", "stopping"}
    /\ peer' = [peer EXCEPT ![c] = None]
    /\ \/ Return(c, "response") /\ UNCHANGED busySeen
       \/ Return(c, "failed") /\ UNCHANGED busySeen
       \/ /\ cpc' = [cpc EXCEPT ![c] = "connect"]
          /\ busySeen' = [busySeen EXCEPT ![c] = TRUE]
          /\ UNCHANGED outcome
    /\ UNCHANGED <<server, cooldown, spawnLock, spawned, tries, faults>>

\* The stream ended, or the deadline passed while waiting or between retries.
RequestFails(c) ==
    /\ \/ cpc[c] \in {"waiting", "hangup"}
       \/ cpc[c] = "connect" /\ busySeen[c]
    /\ peer' = [peer EXCEPT ![c] = None]
    /\ Return(c, IF busySeen[c] THEN "busy" ELSE "failed")
    /\ UNCHANGED <<server, cooldown, spawnLock, busySeen, spawned, tries, faults>>

\* spawn_once returned s; the retry loop sends its next request.
SpawnReturns(c, s) ==
    /\ spawned' = [spawned EXCEPT ![c] = s]
    /\ cpc' = [cpc EXCEPT ![c] = "connect"]

CooldownCheck(c) ==
    /\ cpc[c] = "spawn"
    /\ IF cooldown = "active"
       THEN SpawnReturns(c, "cooldown")
       ELSE cpc' = [cpc EXCEPT ![c] = "lock"] /\ UNCHANGED spawned
    /\ UNCHANGED <<server, cooldown, spawnLock, peer, busySeen, tries, outcome,
                   faults>>

TrySpawnLock(c) ==
    /\ cpc[c] = "lock"
    /\ IF spawnLock = None
       THEN /\ spawnLock' = c
            /\ cpc' = [cpc EXCEPT ![c] = "exec"]
            /\ UNCHANGED spawned
       ELSE SpawnReturns(c, "contended") /\ UNCHANGED spawnLock
    /\ UNCHANGED <<server, cooldown, peer, busySeen, tries, outcome, faults>>

\* spawn() and drop(lock).
Exec(c) ==
    /\ cpc[c] = "exec"
    /\ spawnLock' = None
    /\ \/ /\ \E d \in Daemons :
                /\ daemon[d] = "none"
                /\ daemon' = [daemon EXCEPT ![d] = "started"]
          /\ SpawnReturns(c, "spawned")
          /\ UNCHANGED faults
       \/ /\ faults < MaxFaults /\ faults' = faults + 1
          /\ SpawnReturns(c, "spawn_failed")
          /\ UNCHANGED daemon
    /\ UNCHANGED <<owner, sock, cooldown, peer, busySeen, tries, outcome>>

\* record_spawn_failure: the test, then the replacement of the file.
RecordCheck(c) ==
    /\ cpc[c] = "record"
    /\ cpc' = [cpc EXCEPT ![c] =
                  IF spawned[c] \in {"spawned", "spawn_failed"} /\ cooldown # "active"
                  THEN "write" ELSE "decide"]
    /\ UNCHANGED <<server, cooldown, spawnLock, peer, busySeen, spawned, tries,
                   outcome, faults>>

RecordWrite(c) ==
    /\ cpc[c] = "write"
    /\ cooldown' = "active"
    /\ cpc' = [cpc EXCEPT ![c] = "decide"]
    /\ UNCHANGED <<server, spawnLock, peer, busySeen, spawned, tries, outcome,
                   faults>>

\* NoDaemon lets embed_query_cached load the model in its own process.
Decide(c) ==
    /\ cpc[c] = "decide"
    /\ Return(c, CASE spawned[c] = "spawn_failed" -> "no_daemon"
                   [] spawned[c] = "contended"    -> "busy"
                   [] OTHER                       -> "failed")
    /\ UNCHANGED <<server, cooldown, spawnLock, peer, busySeen, spawned, tries,
                   faults>>

-----------------------------------------------------------------------------
(* Daemons: the start and the end of run_server. *)

\* The process of d ends: its locks and sockets close, the path stays behind.
Ends(d) ==
    /\ daemon' = [daemon EXCEPT ![d] = "none"]
    /\ owner' = IF owner = d THEN None ELSE owner
    /\ cpc' = [c \in Clients |-> IF cpc[c] = "waiting" /\ peer[c] = d
                                 THEN "hangup" ELSE cpc[c]]
    /\ UNCHANGED <<peer, busySeen, spawned, tries, outcome>>

\* Faulty form of TryOwner: a held lock is not an obstacle.
TryOwnerIgnoresHeld(d) ==
    /\ daemon[d] = "started"
    /\ owner' = d
    /\ daemon' = [daemon EXCEPT ![d] = "owner"]
    /\ UNCHANGED <<client, sock, cooldown, spawnLock, faults>>

TryOwner(d) ==
    /\ daemon[d] = "started"
    /\ IF owner = None
       THEN /\ owner' = d
            /\ daemon' = [daemon EXCEPT ![d] = "owner"]
            /\ UNCHANGED client
       ELSE Ends(d)
    /\ UNCHANGED <<sock, cooldown, spawnLock, faults>>

\* Faulty form of Probe: a path that exists is taken for a live endpoint.
ProbeNeverRepairs(d) ==
    /\ daemon[d] = "owner"
    /\ IF sock = None
       THEN daemon' = [daemon EXCEPT ![d] = "cleared"] /\ UNCHANGED <<owner, client>>
       ELSE Ends(d)
    /\ UNCHANGED <<sock, cooldown, spawnLock, faults>>

\* TransportListener::bind: a live endpoint is left alone (AddrInUse), a dead
\* one is removed.
Probe(d) ==
    /\ daemon[d] = "owner"
    /\ IF sock \in Listening \ Refusing
       THEN Ends(d) /\ UNCHANGED sock
       ELSE /\ sock' = None
            /\ daemon' = [daemon EXCEPT ![d] = "cleared"]
            /\ UNCHANGED <<owner, client>>
    /\ UNCHANGED <<cooldown, spawnLock, faults>>

\* bind(2) itself fails when the path exists.
Listen(d) ==
    /\ daemon[d] = "cleared"
    /\ IF sock # None
       THEN Ends(d) /\ UNCHANGED sock
       ELSE /\ sock' = d
            /\ daemon' = [daemon EXCEPT ![d] = "bound"]
            /\ UNCHANGED <<owner, client>>
    /\ UNCHANGED <<cooldown, spawnLock, faults>>

RemoveCooldown(d) ==
    /\ daemon[d] = "bound"
    /\ cooldown' = "absent"
    /\ daemon' = [daemon EXCEPT ![d] = "serving"]
    /\ UNCHANGED <<owner, sock, spawnLock, client, faults>>

\* Faulty form of IdleStop: the owner lock goes before the endpoint.
IdleStopUnlocksFirst(d) ==
    /\ daemon[d] = "serving"
    /\ daemon' = [daemon EXCEPT ![d] = "stopping"]
    /\ owner' = None
    /\ UNCHANGED <<sock, cooldown, spawnLock, client, faults>>

IdleStop(d) ==
    /\ daemon[d] = "serving"
    /\ daemon' = [daemon EXCEPT ![d] = "stopping"]
    /\ UNCHANGED <<owner, sock, cooldown, spawnLock, client, faults>>

\* EndpointGuard::drop removes whatever is at the path.
Unlink(d) ==
    /\ daemon[d] = "stopping"
    /\ sock' = None
    /\ daemon' = [daemon EXCEPT ![d] = "unlinked"]
    /\ UNCHANGED <<owner, cooldown, spawnLock, client, faults>>

\* drop(owner_lock), return, exit.
Unlock(d) ==
    /\ daemon[d] = "unlinked"
    /\ Ends(d)
    /\ UNCHANGED <<sock, cooldown, spawnLock, faults>>

\* The process is killed or crashes at any point of its life.
Killed(d) ==
    /\ faults < MaxFaults /\ faults' = faults + 1
    /\ daemon[d] # "none"
    /\ Ends(d)
    /\ sock' = IF sock = d THEN Stale ELSE sock
    /\ UNCHANGED <<cooldown, spawnLock>>

\* A model call hangs: the watchdog records the failure and exits with code 70.
WatchdogExit(d) ==
    /\ faults < MaxFaults /\ faults' = faults + 1
    /\ daemon[d] = "serving"
    /\ cooldown' = "active"
    /\ Ends(d)
    /\ sock' = IF sock = d THEN Stale ELSE sock
    /\ UNCHANGED spawnLock

CooldownExpires ==
    /\ cooldown = "active" /\ cooldown' = "expired"
    /\ UNCHANGED <<server, spawnLock, client, faults>>

-----------------------------------------------------------------------------
ClientStep(c) ==
    \/ ConnectOk(c) \/ ConnectNoDaemon(c) \/ Answered(c) \/ RequestFails(c)
    \/ CooldownCheck(c) \/ TrySpawnLock(c) \/ Exec(c) \/ RecordCheck(c)
    \/ RecordWrite(c) \/ Decide(c)

DaemonStart(d) == TryOwner(d) \/ Probe(d) \/ Listen(d) \/ RemoveCooldown(d)
DaemonStop(d) == Unlink(d) \/ Unlock(d)
Fault(d) == Killed(d) \/ WatchdogExit(d)

Next ==
    \/ \E c \in Clients : Call(c) \/ ClientStep(c)
    \/ \E d \in Daemons : DaemonStart(d) \/ IdleStop(d) \/ DaemonStop(d) \/ Fault(d)
    \/ CooldownExpires

Spec == Init /\ [][Next]_vars

\* Processes run, clients keep calling, and time passes: the cooldown ends and
\* so does the deadline of a request() that is waiting or retrying.  Nothing is
\* assumed of the idle exit, of faults or of what a daemon answers.
FairSpec ==
    /\ Spec
    /\ \A c \in Clients : WF_vars(Call(c)) /\ WF_vars(ClientStep(c))
    /\ \A c \in Clients : WF_vars(RequestFails(c))
    /\ \A d \in Daemons : WF_vars(DaemonStart(d)) /\ WF_vars(DaemonStop(d))
    /\ WF_vars(CooldownExpires)

-----------------------------------------------------------------------------
(* Properties. *)

\* States in which run_server holds the owner lock.
Owning == {"owner", "cleared", "bound", "serving", "stopping", "unlinked"}

\* However many clients spawn at once and whatever crashes, at most one daemon
\* process is past the owner lock: one model instance per endpoint.
OneOwner ==
    \A d, e \in Daemons :
        daemon[d] \in Owning /\ daemon[e] \in Owning => d = e

\* A serving daemon can be reached: the socket path is its own, and no other
\* process (a predecessor that is still exiting, a rival that is starting) has
\* removed or replaced it.
ReachableServer ==
    \A d \in Daemons : daemon[d] \in {"bound", "serving"} => sock = d

\* The comment on the watchdog and on no_daemon_error: a stale endpoint never
\* bricks the service; while clients keep calling, a daemon serves again and
\* again after every crash, hang and cooldown.
ServiceRecovers == []<>(\E d \in Daemons : daemon[d] = "serving")

\* Every client call returns.
CallReturns == \A c \in Clients : cpc[c] # "idle" ~> cpc[c] = "idle"
=============================================================================
