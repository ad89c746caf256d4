----------------------------- MODULE ReloadedStore -----------------------------
(***************************************************************************)
(* The OAuth store under a rolling reload: the servers of RollingReload    *)
(* answer the requests of OAuthStore. A server accepts requests once it    *)
(* listens, which may be before its supervisor knows of it; a leaving one  *)
(* completes what it has begun, and one that is killed or fails in the     *)
(* middle of a request leaves its write where it was.                      *)
(***************************************************************************)
EXTENDS OAuthStore

CONSTANTS MaxSignals, Faults

ASSUME NumberedServers ==
    /\ Cardinality(Servers) \in Nat /\ Servers = 1 .. Cardinality(Servers)
    /\ MaxSignals \in Nat

VARIABLES phase, handlers, pidfile, current, newest, old, reload, stop,
          server, strays, signals, unanswered

R == INSTANCE RollingReload WITH MaxServers <- Cardinality(Servers)

rvars == <<phase, handlers, pidfile, current, newest, old, reload, stop,
           server, strays, signals, unanswered>>
cvars == <<vars, rvars>>

CInit == Init /\ R!RInit

\* What the end of a process makes of the request it was in.
ReloadStep ==
    /\ R!RNext
    /\ LET cut == {p \in Servers : server[p] # server'[p] /\ server'[p] = "gone" /\ pc[p] # "idle"}
       IN  IF cut = {} THEN UNCHANGED vars ELSE \E p \in cut : Crash(p)

ServeStep(p) ==
    /\ \/ server[p] \in {"starting", "ready"} /\ Request(p)
       \/ R!Alive(p) /\ WriteStep(p)
    /\ UNCHANGED rvars

CNext == ReloadStep \/ (\E p \in Servers : ServeStep(p)) \/ (Tick /\ UNCHANGED rvars)

CSpec == CInit /\ [][CNext]_cvars /\ WF_cvars(R!SupervisorStep /\ ReloadStep)

-------------------------------------------------------------------------------
\* tests/test_supervisor_reload.py: the endpoint stays available while servers
\* are exchanged.
ServedThroughout == R!EndpointServed

\* _handle_reload: no SIGHUP is forgotten, also one that arrives in a reload.
RequestsKept == R!RequestKept

\* run and _terminate_process: no server is left running and unknown, and the
\* supervisor waits for the server that its phase is about.
ServersKnown == R!RTypeOK /\ R!NoneForgotten

\* run: the supervisor ends when it is told to.
SupervisorStops == R!StopEnds
===============================================================================
