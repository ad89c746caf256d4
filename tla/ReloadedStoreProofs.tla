-------------------------- MODULE ReloadedStoreProofs --------------------------
(***************************************************************************)
(* Theorems about ReloadedStore: each part of the composition still does   *)
(* what its own module says, for any number of servers and signals and     *)
(* every combination of faults, and requests run only in servers that the  *)
(* supervisor knows.                                                       *)
(***************************************************************************)
EXTENDS ReloadedStore, OAuthStoreProofs

RP == INSTANCE RollingReloadProofs WITH MaxServers <- Cardinality(Servers)

\* A request is in a live process: one that ends takes its request with it.
RequestsInLiveServers == \A p \in Servers : pc[p] # "idle" => R!Alive(p)

\* Two servers can be in a request at the same time only while one replaces the
\* other, or when one has outlived the five seconds of a failed start.
OverlapOnlyInReload ==
    phase \in {"loop", "poll", "spawn"} =>
        \A p \in Servers : pc[p] # "idle" => p = current \/ p \in strays

\* The supervisor's operators are those of RollingReload in both instances.
LEMMA SameSupervisor ==
    /\ R!RInit <=> RP!RInit
    /\ R!RNext <=> RP!RNext
    /\ R!rvars = RP!rvars
    /\ R!RTypeOK <=> RP!RTypeOK
    /\ R!EndpointServed <=> RP!EndpointServed
    /\ R!RequestKept <=> RP!RequestKept
    /\ R!NoneForgotten <=> RP!NoneForgotten
<1>1. R!RInit <=> RP!RInit
  BY DEF R!RInit, RP!RInit, R!Numbers, RP!Numbers
<1>2. R!rvars = RP!rvars
  BY DEF R!rvars, RP!rvars, R!supervisor, RP!supervisor
<1>3. \A n : R!Term(n) = RP!Term(n) /\ R!Kill(n) = RP!Kill(n) /\ (R!Alive(n) <=> RP!Alive(n))
  BY DEF R!Term, RP!Term, R!Kill, RP!Kill, R!Alive, RP!Alive
<1>4. R!WritePid <=> RP!WritePid
  BY DEF R!WritePid, RP!WritePid
<1>5. R!InstallHandlers <=> RP!InstallHandlers
  BY DEF R!InstallHandlers, RP!InstallHandlers
<1>6. R!Look <=> RP!Look
  BY DEF R!Look, RP!Look, R!Left, RP!Left
<1>7. R!Spawn <=> RP!Spawn
  BY DEF R!Spawn, RP!Spawn, R!Left, RP!Left
<1>8. R!SpawnReady <=> RP!SpawnReady
  BY DEF R!SpawnReady, RP!SpawnReady
<1>9. R!SpawnExits <=> RP!SpawnExits
  BY DEF R!SpawnExits, RP!SpawnExits, R!Failed, RP!Failed
<1>10. R!SpawnTimeout <=> RP!SpawnTimeout
  BY DEF R!SpawnTimeout, RP!SpawnTimeout, R!Term, RP!Term, R!Alive, RP!Alive
<1>11. R!Rejected <=> RP!Rejected
  BY DEF R!Rejected, RP!Rejected, R!Failed, RP!Failed, R!Alive, RP!Alive
<1>12. R!Terminate <=> RP!Terminate
  BY DEF R!Terminate, RP!Terminate, R!Alive, RP!Alive, R!Term, RP!Term
<1>13. R!Drained <=> RP!Drained
  BY DEF R!Drained, RP!Drained, R!Kill, RP!Kill
<1>14. R!Poll <=> RP!Poll
  BY DEF R!Poll, RP!Poll
<1>15. R!Final <=> RP!Final
  BY DEF R!Final, RP!Final, R!Alive, RP!Alive, R!Term, RP!Term
<1>16. R!FinalWait <=> RP!FinalWait
  BY DEF R!FinalWait, RP!FinalWait, R!Kill, RP!Kill
<1>17. R!Close <=> RP!Close
  BY DEF R!Close, RP!Close
<1>18. R!SupervisorKilled <=> RP!SupervisorKilled
  BY DEF R!SupervisorKilled, RP!SupervisorKilled
<1>19. \A hup \in BOOLEAN : R!Signal(hup) <=> RP!Signal(hup)
  BY DEF R!Signal, RP!Signal
<1>20. R!Numbers = RP!Numbers
  BY DEF R!Numbers, RP!Numbers
<1>21. \A n \in R!Numbers :
          /\ R!ServerReady(n) <=> RP!ServerReady(n)
          /\ R!ServerEnds(n) <=> RP!ServerEnds(n)
  BY DEF R!ServerReady, RP!ServerReady, R!ServerEnds, RP!ServerEnds, R!Kill, RP!Kill,
         R!supervisor, RP!supervisor
<1>22. R!RNext <=> RP!RNext
  <2>1. R!SupervisorStep <=> RP!SupervisorStep
    BY <1>4, <1>5, <1>6, <1>7, <1>8, <1>9, <1>10, <1>11, <1>12, <1>13, <1>14, <1>15, <1>16, <1>17
       DEF R!SupervisorStep, RP!SupervisorStep
  <2>2. (\E hup \in BOOLEAN : R!Signal(hup)) <=> (\E hup \in BOOLEAN : RP!Signal(hup))
    BY <1>19
  <2>3. (\E n \in R!Numbers : R!ServerReady(n) \/ R!ServerEnds(n))
            <=> (\E n \in RP!Numbers : RP!ServerReady(n) \/ RP!ServerEnds(n))
    BY <1>20, <1>21
  <2> QED
    BY <1>18, <2>1, <2>2, <2>3 DEF R!RNext, RP!RNext
<1>23. R!RTypeOK <=> RP!RTypeOK
  BY DEF R!RTypeOK, RP!RTypeOK, R!Waiting, RP!Waiting, R!Running, RP!Running,
         R!Closing, RP!Closing, R!Numbers, RP!Numbers
<1>24. R!EndpointServed <=> RP!EndpointServed
  BY DEF R!EndpointServed, RP!EndpointServed, R!Running, RP!Running
<1>25. R!RequestKept <=> RP!RequestKept
  BY DEF R!RequestKept, RP!RequestKept, R!Running, RP!Running
<1>26. R!NoneForgotten <=> RP!NoneForgotten
  BY <1>3, <1>20 DEF R!NoneForgotten, RP!NoneForgotten, R!Running, RP!Running, R!Closing, RP!Closing
<1> QED
  BY <1>1, <1>2, <1>22, <1>23, <1>24, <1>25, <1>26

-------------------------------------------------------------------------------
\* The parts of the composition.

\* Every step of the composition is a step of the supervisor and its servers, or
\* leaves them alone, and the same holds of the store.
LEMMA StepsOfParts ==
    ASSUME [CNext]_cvars
    PROVE  [R!RNext]_R!rvars /\ [Next]_vars
<1>1. R!rvars = R!rvars' <=> rvars = rvars'
  BY DEF R!rvars, R!supervisor, rvars
<1>2. CASE ReloadStep
  <2>1. UNCHANGED vars \/ \E p \in Servers : Crash(p)
    BY <1>2 DEF ReloadStep
  <2> QED
    BY <1>2, <2>1 DEF ReloadStep, Next
<1>3. ASSUME NEW p \in Servers, ServeStep(p)
      PROVE  Next /\ UNCHANGED rvars
  BY <1>3 DEF ServeStep, Next
<1>4. CASE Tick /\ UNCHANGED rvars
  BY <1>1, <1>4 DEF Next
<1>5. CASE UNCHANGED cvars
  BY <1>1, <1>5 DEF cvars
<1> QED
  BY <1>1, <1>2, <1>3, <1>4, <1>5 DEF CNext

\* The composition implements OAuthStore: what the end of a server does to a request
\* is a crash that OAuthStore knows.
THEOREM StoreImplemented == CSpec => Spec
<1>1. CInit => Init
  BY DEF CInit
<1>2. [CNext]_cvars => [Next]_vars
  BY StepsOfParts
<1> QED
  BY <1>1, <1>2, PTL DEF CSpec, Spec

\* The invariant of the supervisor holds of its servers while they answer requests.
THEOREM SupervisorKept == CSpec => []RP!RInv
<1>1. CInit => RP!RInv
  BY SameSupervisor, NumberedServers, RP!RInvInit DEF CInit
<1>2. RP!RInv /\ [CNext]_cvars => RP!RInv'
  <2> SUFFICES ASSUME RP!RInv, [CNext]_cvars PROVE RP!RInv'
    OBVIOUS
  <2>1. [RP!RNext]_RP!rvars
    BY StepsOfParts, SameSupervisor DEF R!rvars, RP!rvars, R!supervisor, RP!supervisor
  <2> QED
    BY <2>1, NumberedServers, RP!RInvNext
<1> QED
  BY <1>1, <1>2, PTL DEF CSpec

LEMMA SupervisorImplies ==
    ASSUME RP!RInv
    PROVE  ServedThroughout /\ RequestsKept /\ ServersKnown
BY SameSupervisor, NumberedServers, RP!RInvImplies
   DEF ServedThroughout, RequestsKept, ServersKnown

\* _handle_reload and _replace_server: while servers are exchanged under the requests
\* of clients, one server accepts them, unless it has crashed itself.
THEOREM EndpointServedThroughout == CSpec => []ServedThroughout
BY SupervisorKept, SupervisorImplies, PTL

\* run: no SIGHUP is lost, also one that comes in a reload.
THEOREM HangupsKept == CSpec => []RequestsKept
BY SupervisorKept, SupervisorImplies, PTL

\* _spawn_server, _terminate_process: no server is left running and forgotten.
THEOREM AllServersAccounted == CSpec => []ServersKnown
BY SupervisorKept, SupervisorImplies, PTL

\* register_client: the limit on clients survives the overlap of a rolling reload.
THEOREM ClientsStayBounded == CSpec => []ClientsBounded
BY StoreImplemented, LimitHolds, PTL

-------------------------------------------------------------------------------
\* Which servers can be in a request.

LEMMA LiveNext ==
    ASSUME Typed, RP!RInv, RequestsInLiveServers, [CNext]_cvars
    PROVE  RequestsInLiveServers'
<1> SUFFICES ASSUME NEW p \in Servers, pc'[p] # "idle"
             PROVE  R!Alive(p)'
  BY DEF RequestsInLiveServers
<1>1. pc \in [Servers -> {"idle", "open", "write", "replace", "answer"}]
  BY DEF Typed, TypeOK
<1>2. CASE ReloadStep
  <2>1. pc[p] # "idle" /\ R!Alive(p)
    <3>1. UNCHANGED vars \/ \E q \in Servers : Crash(q)
      BY <1>2 DEF ReloadStep
    <3> QED
      BY <1>1, <3>1 DEF vars, Crash, Leave, RequestsInLiveServers
  <2>2. PICK m : RP!Moves(m)
    BY <1>2, SameSupervisor, NumberedServers, RP!OneServerMoves DEF ReloadStep
  <2>3. \A n \in Servers : /\ n # m => server'[n] = server[n]
                           /\ R!Alive(n) => R!Alive(n)' \/ server'[n] = "gone"
    BY <2>2, NumberedServers DEF RP!Moves, RP!Numbers, RP!Alive, R!Alive
  <2>4. CASE server'[p] = "gone"
    <3>1. server[p] # server'[p]
      BY <2>1, <2>4 DEF R!Alive
    <3>2. \A q \in Servers : server[q] # server'[q] => q = p
      BY <2>3, <3>1
    <3>3. Crash(p)
      BY <1>2, <2>1, <2>4, <3>1, <3>2 DEF ReloadStep
    <3>4. pc'[p] = "idle"
      BY <1>1, <3>3 DEF Crash, Leave
    <3> QED
      BY <3>4
  <2> QED
    BY <2>1, <2>3, <2>4
<1>3. ASSUME NEW q \in Servers, ServeStep(q)
      PROVE  R!Alive(p)'
  <2>1. CASE p = q
    BY <1>3, <2>1 DEF ServeStep, R!Alive, rvars
  <2>2. CASE p # q
    <3>1. pc'[p] = pc[p]
      <4>1. CASE Request(q)
        BY <1>1, <2>2, <4>1, RequestWrites DEF WritesStore, Writes, Typed
      <4>2. CASE WriteStep(q)
        BY <1>1, <2>2, <4>2 DEF WriteStep, Truncate, Fill, Replace, Answer, Leave
      <4> QED
        BY <1>3, <4>1, <4>2 DEF ServeStep
    <3> QED
      BY <1>3, <3>1 DEF ServeStep, rvars, RequestsInLiveServers, R!Alive
  <2> QED
    BY <2>1, <2>2
<1>4. CASE Tick /\ UNCHANGED rvars
  BY <1>4 DEF Tick, rvars, RequestsInLiveServers, R!Alive
<1>5. CASE UNCHANGED cvars
  BY <1>5 DEF cvars, vars, rvars, RequestsInLiveServers, R!Alive
<1> QED
  BY <1>2, <1>3, <1>4, <1>5 DEF CNext

\* A request ends with its process, and is in no other than a live one.
THEOREM RequestsLive == CSpec => []RequestsInLiveServers
<1>1. CInit => RequestsInLiveServers
  BY DEF CInit, Init, RequestsInLiveServers
<1>2. Typed /\ RP!RInv /\ RequestsInLiveServers /\ [CNext]_cvars => RequestsInLiveServers'
  BY LiveNext
<1> QED
  BY <1>1, <1>2, StoreImplemented, StoreTyped, SupervisorKept, PTL DEF CSpec

\* supervisor.py's order of exchange bounds what oauth.py must stand: outside of a
\* reload only the current server writes the store, or one that is left over from
\* a failed start.
THEOREM OverlapBounded == CSpec => []OverlapOnlyInReload
<1>1. RP!RInv /\ RequestsInLiveServers => OverlapOnlyInReload
  <2> SUFFICES ASSUME RP!RInv, RequestsInLiveServers, phase \in {"loop", "poll", "spawn"},
                      NEW p \in Servers, pc[p] # "idle"
               PROVE  p = current \/ p \in strays
    BY DEF OverlapOnlyInReload
  <2>1. R!NoneForgotten
    BY SupervisorImplies DEF ServersKnown
  <2>2. R!Alive(p) /\ p \in R!Numbers
    BY NumberedServers DEF RequestsInLiveServers, R!Numbers
  <2> QED
    BY <2>1, <2>2 DEF R!NoneForgotten, R!Running
<1> QED
  BY <1>1, SupervisorKept, RequestsLive, PTL

===============================================================================
