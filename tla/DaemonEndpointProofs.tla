----------------------- MODULE DaemonEndpointProofs -----------------------
(***************************************************************************)
(* Proofs about DaemonEndpoint for any number of clients and daemons, any  *)
(* number of retries and any number of faults.                             *)
(***************************************************************************)
EXTENDS DaemonEndpoint, TLAPS

\* A client that may still connect has a retry left: TypeOK alone is not
\* inductive, as the retry loop subtracts one from tries.
RetryLeft ==
    \A c \in Clients : cpc[c] \notin {"idle", "record", "write", "decide"}
                          => tries[c] > 0

TypeInv == TypeOK /\ RetryLeft

\* Every step keeps the types of the endpoint, its daemons and its clients.
LEMMA TypeStep == TypeInv /\ [Next]_vars => TypeInv'
<1> SUFFICES ASSUME TypeInv, [Next]_vars PROVE TypeInv'
  OBVIOUS
<1> USE EndpointAssumption
<1> USE DEF TypeInv, RetryLeft, TypeOK, DaemonStates, ClientLabels,
            SpawnOutcomes, Outcomes
<1>1. ASSUME NEW c \in Clients, Call(c) PROVE TypeInv'
  BY <1>1 DEF Call, server, client
<1>2. ASSUME NEW c \in Clients, ConnectOk(c) PROVE TypeInv'
  BY <1>2 DEF ConnectOk, Listening, server, client
<1>3. ASSUME NEW c \in Clients, ConnectNoDaemon(c) PROVE TypeInv'
  BY <1>3 DEF ConnectNoDaemon, server, client
<1>4. ASSUME NEW c \in Clients, Answered(c) PROVE TypeInv'
  BY <1>4 DEF Answered, Return, server, client
<1>5. ASSUME NEW c \in Clients, RequestFails(c) PROVE TypeInv'
  BY <1>5 DEF RequestFails, Return, server, client
<1>6. ASSUME NEW c \in Clients, CooldownCheck(c) PROVE TypeInv'
  BY <1>6 DEF CooldownCheck, SpawnReturns, server, client
<1>7. ASSUME NEW c \in Clients, TrySpawnLock(c) PROVE TypeInv'
  BY <1>7 DEF TrySpawnLock, SpawnReturns, server, client
<1>8. ASSUME NEW c \in Clients, Exec(c) PROVE TypeInv'
  BY <1>8 DEF Exec, SpawnReturns, server, client
<1>9. ASSUME NEW c \in Clients, RecordCheck(c) PROVE TypeInv'
  BY <1>9 DEF RecordCheck, server, client
<1>10. ASSUME NEW c \in Clients, RecordWrite(c) PROVE TypeInv'
  BY <1>10 DEF RecordWrite, server, client
<1>11. ASSUME NEW c \in Clients, Decide(c) PROVE TypeInv'
  BY <1>11 DEF Decide, Return, server, client
<1>12. ASSUME NEW d \in Daemons, TryOwner(d) PROVE TypeInv'
  BY <1>12 DEF TryOwner, Ends, server, client
<1>13. ASSUME NEW d \in Daemons, Probe(d) PROVE TypeInv'
  BY <1>13 DEF Probe, Ends, server, client
<1>14. ASSUME NEW d \in Daemons, Listen(d) PROVE TypeInv'
  BY <1>14 DEF Listen, Ends, server, client
<1>15. ASSUME NEW d \in Daemons, RemoveCooldown(d) PROVE TypeInv'
  BY <1>15 DEF RemoveCooldown, server, client
<1>16. ASSUME NEW d \in Daemons, IdleStop(d) PROVE TypeInv'
  BY <1>16 DEF IdleStop, server, client
<1>17. ASSUME NEW d \in Daemons, Unlink(d) PROVE TypeInv'
  BY <1>17 DEF Unlink, server, client
<1>18. ASSUME NEW d \in Daemons, Unlock(d) PROVE TypeInv'
  BY <1>18 DEF Unlock, Ends, server, client
<1>19. ASSUME NEW d \in Daemons, Killed(d) PROVE TypeInv'
  BY <1>19 DEF Killed, Ends, server, client
<1>20. ASSUME NEW d \in Daemons, WatchdogExit(d) PROVE TypeInv'
  BY <1>20 DEF WatchdogExit, Ends, server, client
<1>21. ASSUME CooldownExpires PROVE TypeInv'
  BY <1>21 DEF CooldownExpires, server, client
<1>22. CASE UNCHANGED vars
  BY <1>22 DEF vars, server, client
<1> QED
  BY <1>1, <1>2, <1>3, <1>4, <1>5, <1>6, <1>7, <1>8, <1>9, <1>10, <1>11, <1>12,
     <1>13, <1>14, <1>15, <1>16, <1>17, <1>18, <1>19, <1>20, <1>21, <1>22
  DEF Next, ClientStep, DaemonStart, DaemonStop, Fault

\* The state of the endpoint, its daemons and its clients stays within its types;
\* in particular the retry loop never goes below zero.
THEOREM Typing == Spec => []TypeOK
<1>1. Init => TypeInv
  BY EndpointAssumption
  DEF Init, TypeInv, RetryLeft, TypeOK, DaemonStates, ClientLabels,
      SpawnOutcomes, Outcomes
<1>2. TypeInv => TypeOK
  BY DEF TypeInv
<1> QED
  BY <1>1, <1>2, TypeStep, PTL DEF Spec

\* A daemon past the owner lock is the one that holds it, and the one that
\* listens is at the path.
HoldsLock == \A d \in Daemons : daemon[d] \in Owning => owner = d
LockInv == HoldsLock /\ ReachableServer

\* Every step keeps the lock with its holder and the path with the listener.
LEMMA LockStep == TypeOK /\ LockInv /\ [Next]_vars => LockInv'
<1> SUFFICES ASSUME TypeOK, LockInv, [Next]_vars PROVE LockInv'
  OBVIOUS
<1> USE EndpointAssumption
<1> USE DEF TypeOK, LockInv, HoldsLock, ReachableServer, Owning
<1>1. ASSUME NEW c \in Clients, Call(c) PROVE LockInv'
  BY <1>1 DEF Call, server, client
<1>2. ASSUME NEW c \in Clients, ConnectOk(c) PROVE LockInv'
  BY <1>2 DEF ConnectOk, Listening, server, client
<1>3. ASSUME NEW c \in Clients, ConnectNoDaemon(c) PROVE LockInv'
  BY <1>3 DEF ConnectNoDaemon, server, client
<1>4. ASSUME NEW c \in Clients, Answered(c) PROVE LockInv'
  BY <1>4 DEF Answered, Return, server, client
<1>5. ASSUME NEW c \in Clients, RequestFails(c) PROVE LockInv'
  BY <1>5 DEF RequestFails, Return, server, client
<1>6. ASSUME NEW c \in Clients, CooldownCheck(c) PROVE LockInv'
  BY <1>6 DEF CooldownCheck, SpawnReturns, server, client
<1>7. ASSUME NEW c \in Clients, TrySpawnLock(c) PROVE LockInv'
  BY <1>7 DEF TrySpawnLock, SpawnReturns, server, client
<1>8. ASSUME NEW c \in Clients, Exec(c) PROVE LockInv'
  BY <1>8 DEF Exec, SpawnReturns, server, client
<1>9. ASSUME NEW c \in Clients, RecordCheck(c) PROVE LockInv'
  BY <1>9 DEF RecordCheck, server, client
<1>10. ASSUME NEW c \in Clients, RecordWrite(c) PROVE LockInv'
  BY <1>10 DEF RecordWrite, server, client
<1>11. ASSUME NEW c \in Clients, Decide(c) PROVE LockInv'
  BY <1>11 DEF Decide, Return, server, client
<1>12. ASSUME NEW d \in Daemons, TryOwner(d) PROVE LockInv'
  BY <1>12 DEF TryOwner, Ends, server, client
<1>13. ASSUME NEW d \in Daemons, Probe(d) PROVE LockInv'
  BY <1>13 DEF Probe, Ends, server, client
<1>14. ASSUME NEW d \in Daemons, Listen(d) PROVE LockInv'
  BY <1>14 DEF Listen, Ends, server, client
<1>15. ASSUME NEW d \in Daemons, RemoveCooldown(d) PROVE LockInv'
  BY <1>15 DEF RemoveCooldown, server, client
<1>16. ASSUME NEW d \in Daemons, IdleStop(d) PROVE LockInv'
  BY <1>16 DEF IdleStop, server, client
<1>17. ASSUME NEW d \in Daemons, Unlink(d) PROVE LockInv'
  BY <1>17 DEF Unlink, server, client
<1>18. ASSUME NEW d \in Daemons, Unlock(d) PROVE LockInv'
  BY <1>18 DEF Unlock, Ends, server, client
<1>19. ASSUME NEW d \in Daemons, Killed(d) PROVE LockInv'
  BY <1>19 DEF Killed, Ends, server, client
<1>20. ASSUME NEW d \in Daemons, WatchdogExit(d) PROVE LockInv'
  BY <1>20 DEF WatchdogExit, Ends, server, client
<1>21. ASSUME CooldownExpires PROVE LockInv'
  BY <1>21 DEF CooldownExpires, server, client
<1>22. CASE UNCHANGED vars
  BY <1>22 DEF vars, server, client
<1> QED
  BY <1>1, <1>2, <1>3, <1>4, <1>5, <1>6, <1>7, <1>8, <1>9, <1>10, <1>11, <1>12,
     <1>13, <1>14, <1>15, <1>16, <1>17, <1>18, <1>19, <1>20, <1>21, <1>22
  DEF Next, ClientStep, DaemonStart, DaemonStop, Fault

\* The two hold in every reachable state.
LEMMA LockInvariant == Spec => []LockInv
<1>1. Init => LockInv
  BY DEF Init, LockInv, HoldsLock, ReachableServer, Owning
<1> QED
  BY <1>1, LockStep, Typing, PTL DEF Spec

\* At most one daemon process is past the owner lock (run_server takes it before
\* it loads a model), whatever clients spawn and whatever crashes.
THEOREM AtMostOneOwner == Spec => []OneOwner
<1>1. LockInv => OneOwner
  BY DEF LockInv, HoldsLock, OneOwner
<1> QED
  BY <1>1, LockInvariant, PTL

\* No other process removes or replaces the socket of a daemon that serves: the
\* probe, the bind and the unlink all happen under the owner lock.
THEOREM ServerStaysReachable == Spec => []ReachableServer
<1>1. LockInv => ReachableServer
  BY DEF LockInv
<1> QED
  BY <1>1, LockInvariant, PTL
=============================================================================
