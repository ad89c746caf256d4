-------------------------- MODULE RollingReloadProofs --------------------------
(***************************************************************************)
(* Theorems about RollingReload for any number of servers and signals and  *)
(* every combination of faults.                                            *)
(***************************************************************************)
EXTENDS RollingReload, TLAPS

Phases == Waiting \cup Running \cup Closing \cup {"ended"}
States == {"unborn", "starting", "ready", "leaving", "gone"}

\* Types of everything; servers are numbered in the order of their starts.
Typed ==
    /\ phase \in Phases
    /\ handlers \in BOOLEAN /\ pidfile \in BOOLEAN
    /\ reload \in BOOLEAN /\ stop \in BOOLEAN /\ unanswered \in BOOLEAN
    /\ current \in 0 .. MaxServers /\ newest \in 0 .. MaxServers /\ old \in 0 .. MaxServers
    /\ server \in [Numbers -> States]
    /\ strays \subseteq Numbers
    /\ \A n \in Numbers : server[n] = "unborn" <=> n > newest

\* Which servers the phases are about: before the first start there is none; in
\* await and reject the newest is not the current one; in terminate and drain
\* the newest has become current and the old one is another.
Roles ==
    /\ current <= newest /\ old <= newest
    /\ phase \in Waiting => newest = 0 /\ ~ unanswered
    /\ phase \in {"await", "reject"} => current < newest
    /\ phase \in {"terminate", "drain"} => old \notin {0, current}
    /\ phase \in (Running \ {"spawn", "await", "reject"}) \cup {"finalwait"} => current # 0

\* The pid file is there from its writing to an orderly end; the handlers come
\* after it.
PidFile ==
    /\ phase \in Waiting => ~ handlers
    /\ phase = "bound" => ~ pidfile
    /\ phase \notin {"bound", "ended"} => pidfile

\* Every live server is one the supervisor deals with in its phase, or a stray.
Known(n) ==
    \/ n \in strays
    \/ n = current /\ phase # "close"
    \/ n = newest /\ phase \in {"await", "reject"}
    \/ n = old /\ phase \in {"terminate", "drain"}

AllKnown == \A n \in Numbers : Alive(n) =>
                IF phase = "ended" THEN pidfile \/ n \in strays ELSE Known(n)

\* The inductive invariant: EndpointServed needs Roles (a server that is stopped
\* is not the current one), NoneForgotten needs AllKnown, which says in every
\* phase who can be alive.
RInv == Typed /\ Roles /\ PidFile /\ AllKnown /\ EndpointServed /\ RequestKept

\* RInit: at the start there is no server, no pid file and no request.
LEMMA RInvInit ==
    ASSUME MaxServers \in Nat, RInit
    PROVE  RInv
<1> USE DEF RInit, Waiting, Running, Closing, Numbers, Alive
<1>1. Typed
  <2>1. server \in [Numbers -> States] /\ \A n \in Numbers : server[n] = "unborn" /\ n > newest
    BY DEF States
  <2>2. 0 \in 0 .. MaxServers
    OBVIOUS
  <2>3. \A n \in Numbers : server[n] = "unborn" <=> n > newest
    BY <2>1
  <2>4. phase \in Phases
    BY DEF Phases
  <2> QED
    BY <2>1, <2>2, <2>3, <2>4 DEF Typed
<1>2. Roles /\ PidFile
  BY DEF Roles, PidFile
<1>3. AllKnown
  BY DEF AllKnown
<1>4. EndpointServed /\ RequestKept
  BY DEF EndpointServed, RequestKept
<1> QED
  BY <1>1, <1>2, <1>3, <1>4 DEF RInv

\* Every step of the supervisor, of a server or of a signal keeps the invariant.
LEMMA RInvNext ==
    ASSUME MaxServers \in Nat, RInv, [RNext]_rvars
    PROVE  RInv'
<1> USE DEF RInv, Typed, Roles, PidFile, AllKnown, Known, EndpointServed,
            RequestKept, Phases, States, Waiting, Running, Closing, Numbers, Alive
<1>1. CASE WritePid
  BY <1>1 DEF WritePid
<1>2. CASE InstallHandlers
  BY <1>2 DEF InstallHandlers
<1>3. CASE Look
  BY <1>3 DEF Look, Left
<1>4. CASE Spawn
  BY <1>4 DEF Spawn, Left
<1>5. CASE SpawnReady
  BY <1>5 DEF SpawnReady
<1>6. CASE SpawnExits
  BY <1>6 DEF SpawnExits, Failed
<1>7. CASE SpawnTimeout
  BY <1>7 DEF SpawnTimeout, Term
<1>8. CASE Rejected
  <2>1. /\ phase = "reject" /\ phase' = IF current = 0 THEN "final" ELSE "poll"
        /\ UNCHANGED <<handlers, pidfile, current, newest, old, reload, stop, server, unanswered>>
    BY <1>8 DEF Rejected, Failed
  <2>2. /\ strays' \subseteq Numbers
        /\ \A n \in Numbers : n \in strays => n \in strays'
        /\ Alive(newest) => newest \in strays'
    <3>1. newest \in Numbers
      BY <2>1
    <3>2. strays' = strays \cup {n \in {newest} : Alive(n)}
      BY <1>8 DEF Rejected
    <3> QED
      BY <3>1, <3>2 DEF Typed
  <2> QED
    BY <2>1, <2>2
<1>9. CASE Terminate
  BY <1>9 DEF Terminate, Term
<1>10. CASE Drained
  <2>1. /\ phase = "drain" /\ phase' = "poll" /\ server' = [server EXCEPT ![old] = "gone"]
        /\ UNCHANGED <<handlers, pidfile, current, newest, old, reload, stop, strays, unanswered>>
    BY <1>10 DEF Drained, Kill
  <2>2. old \in Numbers /\ old # current /\ current \in Numbers
    BY <2>1
  <2>3. server' \in [Numbers -> States] /\ server'[old] = "gone"
        /\ \A n \in Numbers \ {old} : server'[n] = server[n]
    BY <2>1, <2>2
  <2> HIDE DEF States
  <2> QED
    BY <2>1, <2>2, <2>3
<1>11. CASE Poll
  BY <1>11 DEF Poll
<1>12. CASE Final
  BY <1>12 DEF Final, Term
<1>13. CASE FinalWait
  BY <1>13 DEF FinalWait, Kill
<1>14. CASE Close
  BY <1>14 DEF Close
<1>15. CASE SupervisorKilled
  BY <1>15 DEF SupervisorKilled
<1>16. ASSUME NEW hup \in BOOLEAN, Signal(hup)
      PROVE  RInv'
  <2>1. CASE handlers
    <3>1. UNCHANGED <<phase, handlers, pidfile, current, newest, old, server, strays>>
      BY <1>16, <2>1 DEF Signal
    <3>2. reload' = (reload \/ hup) /\ unanswered' = (unanswered \/ hup)
          /\ stop' \in BOOLEAN /\ phase \notin Waiting
      BY <1>16, <2>1 DEF Signal
    <3> QED
      BY <3>1, <3>2
  <2>2. CASE ~ handlers
    BY <1>16, <2>2 DEF Signal
  <2> QED
    BY <2>1, <2>2
<1>17. ASSUME NEW n \in Numbers, ServerReady(n)
      PROVE  RInv'
  BY <1>17 DEF ServerReady, supervisor
<1>18. ASSUME NEW n \in Numbers, ServerEnds(n)
      PROVE  RInv'
  BY <1>18 DEF ServerEnds, Kill, supervisor
<1>19. CASE UNCHANGED rvars
  BY <1>19 DEF rvars, supervisor
<1> QED
  BY <1>1, <1>2, <1>3, <1>4, <1>5, <1>6, <1>7, <1>8, <1>9, <1>10, <1>11, <1>12, <1>13, <1>14, <1>15, <1>16, <1>17, <1>18, <1>19 DEF RNext, SupervisorStep

\* Only the state of server m changes, and a live server stays alive or is gone.
Moves(m) ==
    \A n \in Numbers :
        /\ n # m => server'[n] = server[n]
        /\ Alive(n) => Alive(n)' \/ server'[n] = "gone"

\* A step of the supervisor, of a server or of a signal moves one server at most.
LEMMA OneServerMoves ==
    ASSUME MaxServers \in Nat, RInv, [RNext]_rvars
    PROVE  \E m : Moves(m)
<1> USE DEF RInv, Typed
<1>1. UNCHANGED server => Moves(0)
  BY DEF Moves, Alive
<1>2. CASE Spawn
  <2>1. newest + 1 \in Numbers /\ server[newest + 1] = "unborn"
    BY <1>2 DEF Spawn, Left, Numbers
  <2>2. Moves(newest + 1)
    BY <1>2, <2>1 DEF Spawn, Moves, Alive
  <2> QED
    BY <2>2
<1>3. \A m : server' = Term(m) \/ server' = Kill(m) => Moves(m)
  BY DEF Term, Kill, Moves, Alive
<1>4. CASE SpawnTimeout \/ Terminate \/ Drained \/ Final \/ FinalWait
  <2>1. UNCHANGED server \/ \E m : server' = Term(m) \/ server' = Kill(m)
    BY <1>4 DEF SpawnTimeout, Terminate, Drained, Final, FinalWait
  <2> QED
    BY <1>1, <1>3, <2>1
<1>5. ASSUME NEW n \in Numbers, ServerReady(n)
      PROVE  Moves(n)
  BY <1>5 DEF ServerReady, Moves, Alive
<1>6. ASSUME NEW n \in Numbers, ServerEnds(n)
      PROVE  Moves(n)
  BY <1>3, <1>6 DEF ServerEnds
<1>7. CASE UNCHANGED server
  BY <1>1, <1>7
<1>8. \/ UNCHANGED server \/ Spawn
      \/ SpawnTimeout \/ Terminate \/ Drained \/ Final \/ FinalWait
      \/ \E n \in Numbers : ServerReady(n) \/ ServerEnds(n)
  BY DEF RNext, rvars, SupervisorStep, WritePid, InstallHandlers, Look, SpawnReady,
         SpawnExits, Rejected, Poll, Close, SupervisorKilled, Signal
<1> QED
  BY <1>2, <1>4, <1>5, <1>6, <1>7, <1>8

\* The invariant of the supervisor in every reachable state.
THEOREM Supervised ==
    ASSUME MaxServers \in Nat
    PROVE  RSpec => []RInv
<1>1. RInit => RInv
  BY RInvInit
<1>2. RInv /\ [RNext]_rvars => RInv'
  BY RInvNext
<1> QED
  BY <1>1, <1>2, PTL DEF RSpec

\* What the invariant says of the phases, of the servers and of the processes
\* that may be alive.
LEMMA RInvImplies ==
    ASSUME MaxServers \in Nat, RInv
    PROVE  RTypeOK /\ EndpointServed /\ RequestKept /\ NoneForgotten
<1> USE DEF RInv
<1>1. RTypeOK
  BY DEF Typed, Roles, RTypeOK, Phases, Running
<1>2. NoneForgotten
  BY DEF AllKnown, Known, PidFile, NoneForgotten, Running, Closing, Numbers
<1> QED
  BY <1>1, <1>2

\* The types, and who is waited for: the supervisor waits for a current server in
\* every phase after the first start, and stops none but a former one.
THEOREM PhasesFit ==
    ASSUME MaxServers \in Nat
    PROVE  RSpec => []RTypeOK
BY Supervised, RInvImplies, PTL

\* _handle_reload and _replace_server: from the first ready server on until the
\* supervisor closes, one server accepts requests unless it has crashed itself.
THEOREM EndpointStays ==
    ASSUME MaxServers \in Nat
    PROVE  RSpec => []EndpointServed
BY Supervised, RInvImplies, PTL

\* run: a SIGHUP is followed by a start, also one that arrives in a reload.
THEOREM HangupHeard ==
    ASSUME MaxServers \in Nat
    PROVE  RSpec => []RequestKept
BY Supervised, RInvImplies, PTL

\* _spawn_server, _terminate_process: every server alive is the current one, the
\* one that is started or stopped right now, or one that outlived SIGTERM after
\* a failed start.
THEOREM AllServersKnown ==
    ASSUME MaxServers \in Nat
    PROVE  RSpec => []NoneForgotten
BY Supervised, RInvImplies, PTL
================================================================================
