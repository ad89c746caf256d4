----------------------------- MODULE RollingReload -----------------------------
(***************************************************************************)
(* supervisor.py: one process that owns the listening socket, keeps one    *)
(* server on it, and on SIGHUP starts a new server before it stops the old *)
(* one. Signal handlers only set flags; the loop of run() looks at them.   *)
(***************************************************************************)
EXTENDS Naturals, FiniteSets

CONSTANTS
    MaxServers,     \* bound: so many servers are started
    MaxSignals,     \* bound: so many signals arrive
    Faults          \* of "boot", "crash", "early", "sup_kill"

VARIABLES
    phase,              \* where the supervisor is
    handlers, pidfile,  \* signal handlers installed, pid file written
    current, newest, old,   \* servers by number, 0 for None
    reload, stop,       \* _reload_requested, _stop_requested
    server,             \* the state of every server process
    strays,             \* started, not ready in time, and gone on living
    signals, unanswered \* signals so far; a SIGHUP that no start has followed

supervisor == <<phase, handlers, pidfile, current, newest, old, reload, stop>>
rvars == <<supervisor, server, strays, signals, unanswered>>

Numbers == 1 .. MaxServers
Waiting == {"bound", "announced"}
Running == {"loop", "poll", "spawn", "await", "reject", "terminate", "drain"}
Closing == {"final", "finalwait", "close"}

RInit ==
    /\ phase = "bound" /\ handlers = FALSE /\ pidfile = FALSE
    /\ current = 0 /\ newest = 0 /\ old = 0
    /\ reload = FALSE /\ stop = FALSE
    /\ server = [n \in Numbers |-> "unborn"]
    /\ strays = {} /\ signals = 0 /\ unanswered = FALSE

Alive(n) == server[n] \in {"starting", "ready", "leaving"}
Term(n)  == IF Alive(n) THEN [server EXCEPT ![n] = "leaving"] ELSE server
Kill(n)  == [server EXCEPT ![n] = "gone"]

WritePid ==
    /\ phase = "bound" /\ phase' = "announced" /\ pidfile' = TRUE
    /\ UNCHANGED <<handlers, current, newest, old, reload, stop, server, strays, signals, unanswered>>

InstallHandlers ==
    /\ phase = "announced" /\ phase' = "spawn" /\ handlers' = TRUE
    /\ UNCHANGED <<pidfile, current, newest, old, reload, stop, server, strays, signals, unanswered>>

Left == newest < MaxServers     \* bound: a request that comes later stays pending

\* One round of the loop: the flag is reset before the reload begins.
Look ==
    /\ phase = "loop"
    /\ phase' = IF stop THEN "final" ELSE IF reload /\ Left THEN "spawn" ELSE "poll"
    /\ reload' = (reload /\ (stop \/ ~ Left))
    /\ UNCHANGED <<handlers, pidfile, current, newest, old, stop, server, strays, signals, unanswered>>

\* MUTANT of Spawn: the old server is stopped first.
SpawnAfterStop ==
    /\ phase = "spawn" /\ Left
    /\ phase' = "await" /\ newest' = newest + 1
    /\ server' = [IF current = 0 THEN server ELSE Term(current) EXCEPT ![newest + 1] = "starting"]
    /\ unanswered' = FALSE
    /\ UNCHANGED <<handlers, pidfile, current, old, reload, stop, strays, signals>>

Spawn ==
    /\ phase = "spawn" /\ Left
    /\ phase' = "await" /\ newest' = newest + 1
    /\ server' = [server EXCEPT ![newest + 1] = "starting"]
    /\ unanswered' = (reload /\ unanswered)
    /\ UNCHANGED <<handlers, pidfile, current, old, reload, stop, strays, signals>>

\* MUTANT of SpawnReady: the request is taken back when it has been served.
SpawnReadyResets ==
    /\ phase = "await" /\ server[newest] = "ready"
    /\ current' = newest /\ old' = current /\ reload' = FALSE
    /\ phase' = IF current = 0 THEN "loop" ELSE "terminate"
    /\ UNCHANGED <<handlers, pidfile, newest, stop, server, strays, signals, unanswered>>

SpawnReady ==
    /\ phase = "await" /\ server[newest] = "ready"
    /\ current' = newest /\ old' = current
    /\ phase' = IF current = 0 THEN "loop" ELSE "terminate"
    /\ UNCHANGED <<handlers, pidfile, newest, reload, stop, server, strays, signals, unanswered>>

\* The first start that fails ends the supervisor, a later one is logged.
Failed == phase' = IF current = 0 THEN "final" ELSE "poll"

SpawnExits ==
    /\ phase = "await" /\ server[newest] = "gone"
    /\ Failed
    /\ UNCHANGED <<handlers, pidfile, current, newest, old, reload, stop, server, strays, signals, unanswered>>

\* MUTANT of SpawnTimeout: the server that is late is left alone.
SpawnTimeoutForgets ==
    /\ phase = "await" /\ server[newest] # "gone"
    /\ Failed
    /\ UNCHANGED <<handlers, pidfile, current, newest, old, reload, stop, server, strays, signals, unanswered>>

\* The last look at the pipe may have been just before the server got ready.
SpawnTimeout ==
    /\ phase = "await" /\ server[newest] # "gone"
    /\ phase' = "reject" /\ server' = Term(newest)
    /\ UNCHANGED <<handlers, pidfile, current, newest, old, reload, stop, strays, signals, unanswered>>

\* Five seconds are given; then wait() raises and nobody knows the server.
Rejected ==
    /\ phase = "reject" /\ Failed
    /\ strays' = strays \cup {n \in {newest} : Alive(n)}
    /\ UNCHANGED <<handlers, pidfile, current, newest, old, reload, stop, server, signals, unanswered>>

Terminate ==
    /\ phase = "terminate"
    /\ phase' = IF Alive(old) THEN "drain" ELSE "poll"
    /\ server' = Term(old)
    /\ UNCHANGED <<handlers, pidfile, current, newest, old, reload, stop, strays, signals, unanswered>>

\* MUTANT of Drained: nothing happens when the time is over.
DrainedOnly ==
    /\ phase = "drain" /\ server[old] = "gone"
    /\ phase' = "poll" /\ server' = Kill(old)
    /\ UNCHANGED <<handlers, pidfile, current, newest, old, reload, stop, strays, signals, unanswered>>

\* Gone by itself, or killed after shutdown_timeout.
Drained ==
    /\ phase = "drain"
    /\ phase' = "poll" /\ server' = Kill(old)
    /\ UNCHANGED <<handlers, pidfile, current, newest, old, reload, stop, strays, signals, unanswered>>

Poll ==
    /\ phase = "poll"
    /\ phase' = IF server[current] = "gone" THEN "final" ELSE "loop"
    /\ UNCHANGED <<handlers, pidfile, current, newest, old, reload, stop, server, strays, signals, unanswered>>

Final ==
    /\ phase = "final"
    /\ IF current # 0 /\ Alive(current)
       THEN phase' = "finalwait" /\ server' = Term(current)
       ELSE phase' = "close" /\ UNCHANGED server
    /\ UNCHANGED <<handlers, pidfile, current, newest, old, reload, stop, strays, signals, unanswered>>

FinalWait ==
    /\ phase = "finalwait" /\ phase' = "close" /\ server' = Kill(current)
    /\ UNCHANGED <<handlers, pidfile, current, newest, old, reload, stop, strays, signals, unanswered>>

Close ==
    /\ phase = "close" /\ phase' = "ended" /\ pidfile' = FALSE
    /\ UNCHANGED <<handlers, current, newest, old, reload, stop, server, strays, signals, unanswered>>

\* dev-tunnel.sh reload and the service manager signal the process that the pid
\* file names. Before the handlers are installed the signal ends it.
Signal(hup) ==
    /\ pidfile /\ phase \notin {"bound", "ended"} /\ signals < MaxSignals
    /\ signals' = signals + 1
    /\ IF handlers
       THEN /\ reload' = (reload \/ hup) /\ stop' = (stop \/ ~ hup)
            /\ unanswered' = (unanswered \/ hup) /\ UNCHANGED phase
       ELSE "early" \in Faults /\ phase' = "ended" /\ UNCHANGED <<reload, stop, unanswered>>
    /\ UNCHANGED <<handlers, pidfile, current, newest, old, server, strays>>

SupervisorKilled ==
    /\ "sup_kill" \in Faults /\ phase \notin {"bound", "ended"}
    /\ phase' = "ended"
    /\ UNCHANGED <<handlers, pidfile, current, newest, old, reload, stop, server, strays, signals, unanswered>>

\* A server that nobody waits for cannot report that it is ready, and ends.
ServerReady(n) ==
    /\ server[n] = "starting"
    /\ server' = [server EXCEPT ![n] = IF n \in strays \/ phase = "ended" THEN "gone" ELSE "ready"]
    /\ UNCHANGED <<supervisor, strays, signals, unanswered>>

ServerEnds(n) ==
    /\ \/ server[n] = "leaving"
       \/ server[n] = "starting" /\ "boot" \in Faults
       \/ server[n] = "ready" /\ "crash" \in Faults
    /\ server' = Kill(n)
    /\ UNCHANGED <<supervisor, strays, signals, unanswered>>

SupervisorStep ==
    \/ WritePid \/ InstallHandlers \/ Look \/ Spawn \/ SpawnReady \/ SpawnExits
    \/ SpawnTimeout \/ Rejected \/ Terminate \/ Drained \/ Poll
    \/ Final \/ FinalWait \/ Close

RNext ==
    \/ SupervisorStep \/ SupervisorKilled
    \/ \E hup \in BOOLEAN : Signal(hup)
    \/ \E n \in Numbers : ServerReady(n) \/ ServerEnds(n)

\* Every wait of the supervisor has a timeout: it goes on whatever servers do.
RSpec == RInit /\ [][RNext]_rvars /\ WF_rvars(SupervisorStep)

-------------------------------------------------------------------------------
\* Types, and who the supervisor may be waiting for in each phase.
RTypeOK ==
    /\ phase \in Waiting \cup Running \cup Closing \cup {"ended"}
    /\ {handlers, pidfile, reload, stop, unanswered} \subseteq BOOLEAN
    /\ {current, newest, old} \subseteq 0 .. MaxServers /\ strays \subseteq Numbers
    /\ phase \in Running \ {"spawn", "await", "reject"} => current # 0
    /\ phase \in {"terminate", "drain"} => old \notin {0, current}

\* tests/test_supervisor_reload.py: the endpoint stays available. From the end
\* of the first start until the supervisor closes, the current server accepts
\* requests unless it has failed by itself, and a server that is stopped has a
\* ready successor.
EndpointServed ==
    phase \in Running /\ current # 0 =>
        server[current] \in {"ready"} \cup (IF "crash" \in Faults THEN {"gone"} ELSE {})

\* _handle_reload and run(): a SIGHUP is followed by the start of a server, also
\* when it arrives during a reload, because the flag is reset first.
RequestKept ==
    unanswered /\ phase \in Running => reload \/ phase = "spawn"

\* run() and _spawn_server: no server runs that the supervisor does not know,
\* but one that SIGTERM did not end within the five seconds of a failed start;
\* and after an orderly end none is left.
NoneForgotten ==
    /\ phase \in Running \cup Closing =>
         \A n \in Numbers : Alive(n) =>
            \/ n \in {current} \cup strays
            \/ n = newest /\ phase \in {"await", "reject"}
            \/ n = old /\ phase \in {"terminate", "drain"}
    /\ phase = "ended" /\ ~ pidfile => \A n \in Numbers : Alive(n) => n \in strays

\* A supervisor that is told to stop ends, whatever its servers do.
StopEnds == stop ~> phase = "ended"
===============================================================================
