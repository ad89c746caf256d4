------------------------------ MODULE DurableJob ------------------------------
(***************************************************************************)
(* One durable background job: the record metadata.json of its directory,  *)
(* the flock that guards its updates, and the processes that share them:   *)
(*                                                                         *)
(*   starter   the thread of the MCP server that runs start_job            *)
(*   boot      job_supervisor.py --detach, the child start_job spawns      *)
(*   sup       the supervisor that the bootstrap forks and detaches        *)
(*   cmd, kids the command, leader of its own process group, and the other *)
(*             members of that group                                       *)
(*   Callers   later tool calls: job_status (and list, tail, output, which *)
(*             reconcile in the same way) and job_kill, TERM or KILL       *)
(*                                                                         *)
(* Only job_kill keeps the metadata lock over more than one step (killpg,  *)
(* then the write of kill_signal); every other holder reads, decides and   *)
(* replaces the file in one step, taken while nobody holds the lock.       *)
(* Jobs share no state, so the module describes one of them.               *)
(***************************************************************************)
EXTENDS Naturals, FiniteSets

CONSTANTS
    Callers,      \* threads of the server that may call a job tool
    Kids,         \* processes the command may fork into its own group
    Faults        \* what may go wrong in this instance

Leader == "leader"
Nobody == "nobody"

\* "slow"          a starting job may be overtaken by the 5s start deadline
\*                 and by the 5s grace of a record in status "starting"
\* "unresponsive"  a signalled supervisor or bootstrap may fail to react
\*                 within the time it is granted
\* "sup_kill"      the supervisor may be killed (SIGKILL, out of memory)
\* "sup_term"      somebody else may send the supervisor a SIGTERM
\* "server_crash"  the MCP server may die, once, and come back
\* "io_error"      replacing metadata.json may fail
\* "pid_reuse"     the system gives the number of an ended group away
AllFaults == {"slow", "unresponsive", "sup_kill", "sup_term", "server_crash",
              "io_error", "pid_reuse"}

ASSUME CallersAssumption == Nobody \notin Callers
ASSUME KidsAssumption    == Leader \notin Kids
ASSUME FaultsAssumption  == Faults \subseteq AllFaults

VARIABLES
    meta,          \* metadata.json, as far as the protocol reads it
    lock,          \* the caller that holds .metadata.lock over two steps
    stale,         \* updated_at lies 5s or more in the past
    late,          \* the 5s startup_deadline has passed
    starter,       \* where start_job stands
    bootSeen,      \* start_job: bootstrap_exit_code = 0
    latest,        \* start_job: the pids the cleanup has read
    expected,      \* start_job: the group it saw before TERM
    boot, bootTerm,
    sup, supTerm,  \* the supervisor, and what it has got of SIGTERM
    supGroup,      \* the group the supervisor saw before TERM
    exitCode,      \* the supervisor's exit_code
    cmd, cmdExit,  \* the command, and how it exited
    kids,          \* the other members of its group
    stubborn,      \* the members that do not end because of a SIGTERM
    reused,        \* the pid of the ended group names an unrelated process
    hitOther,      \* some signal has reached that unrelated process
    crashed,       \* the server has crashed once
    pc, op, sent,  \* the tool calls: place, tool, signal_sent
    group          \* job_kill's verified_group_members

recordVars  == <<meta, lock, stale>>
starterVars == <<starter, bootSeen, latest, expected, late>>
bootVars    == <<boot, bootTerm>>
supVars     == <<sup, supTerm, supGroup, exitCode>>
groupVars   == <<cmd, cmdExit, kids, stubborn, reused, hitOther>>
callVars    == <<pc, op, sent, group>>
vars        == <<recordVars, starterVars, bootVars, supVars, groupVars,
                 callVars, crashed>>

Terminal == {"succeeded", "failed", "killed", "interrupted"}
Statuses == {"absent", "starting", "running"} \cup Terminal
Signals  == {"TERM", "KILL"}
Codes    == {"none", "zero", "nonzero"}   \* any other code is "nonzero"
Members  == {Leader} \cup Kids

SupLive == {"forked", "guarded", "published", "popen", "spawned", "running",
            "stopping", "reaping", "finalizing"}
BootLive == {"early", "guarded", "forked", "waiting", "stopping"}
StarterPCs == {"write", "spawn", "poll", "read", "ready", "termBoot",
               "waitBoot", "latest", "groupGrace", "supTerm", "supGrace",
               "fail", "started", "failed", "dead"}
CallPCs == {"idle", "recheck", "signal", "publish", "grace", "escalate",
            "wait", "recheckWait", "recheckLast", "done", "lost", "refused"}

RecordType ==
    /\ meta \in [status : Statuses, pid : BOOLEAN, sup : BOOLEAN,
                 kill : Signals \cup {"none"}]
    /\ lock \in Callers \cup {Nobody}
    /\ stale \in BOOLEAN

StarterType ==
    /\ starter \in StarterPCs
    /\ bootSeen \in BOOLEAN
    /\ latest \in [pid : BOOLEAN, sup : BOOLEAN]
    /\ expected \in SUBSET Members
    /\ late \in BOOLEAN

BootType == boot \in {"none", "ok", "bad"} \cup BootLive /\ bootTerm \in BOOLEAN

SupType ==
    /\ sup \in {"none", "done", "dead"} \cup SupLive
    /\ supTerm \in {"none", "pending", "handled"}
    /\ supGroup \in SUBSET Members
    /\ exitCode \in Codes

GroupType ==
    /\ cmd \in {"none", "running", "zombie", "gone"}
    /\ cmdExit \in Codes
    /\ kids \in [Kids -> {"unborn", "alive", "gone"}]
    /\ stubborn \in SUBSET Members
    /\ reused \in BOOLEAN /\ hitOther \in BOOLEAN

CallType ==
    /\ pc \in [Callers -> CallPCs]
    /\ op \in [Callers -> Signals \cup {"status"}]
    /\ sent \in [Callers -> BOOLEAN]
    /\ group \in [Callers -> SUBSET Members]
    \* only job_kill comes to send a signal
    /\ \A c \in Callers : pc[c] \in {"signal", "publish"} => op[c] \in Signals

TypeOK == /\ RecordType /\ StarterType /\ BootType /\ SupType /\ GroupType
          /\ CallType /\ crashed \in BOOLEAN

Init ==
    /\ meta = [status |-> "absent", pid |-> FALSE, sup |-> FALSE,
               kill |-> "none"]
    /\ lock = Nobody
    /\ stale = FALSE /\ late = FALSE /\ crashed = FALSE
    /\ starter = "write" /\ bootSeen = FALSE
    /\ latest = [pid |-> FALSE, sup |-> FALSE] /\ expected = {}
    /\ boot = "none" /\ bootTerm = FALSE
    /\ sup = "none" /\ supTerm = "none" /\ supGroup = {}
    /\ exitCode = "none"
    /\ cmd = "none" /\ cmdExit = "none"
    /\ kids = [k \in Kids |-> "unborn"]
    /\ stubborn \in SUBSET Members
    /\ reused = FALSE /\ hitOther = FALSE
    /\ pc = [c \in Callers |-> "idle"]
    /\ op = [c \in Callers |-> "status"]
    /\ sent = [c \in Callers |-> FALSE]
    /\ group = [c \in Callers |-> {}]

-------------------------------------------------------------------------------
\* What a process can see of the others.

\* process_group_exists, snapshot_process_group: an unreaped leader counts.
Alive == {m \in Members : IF m = Leader THEN cmd \in {"running", "zombie"}
                                        ELSE m \in Kids /\ kids[m] = "alive"}

GroupSeen == Alive # {} \/ reused

\* Mutant: an empty group matches every snapshot.
MatchesEmptyToo(seen) == Alive \subseteq seen

MatchesSnapshot(seen) == Alive # {} /\ Alive \subseteq seen /\ ~reused

\* process_identity_matches of the two recorded processes. A supervisor that
\* has ended stays visible until its parent, the bootstrap, reaps it.
CommandSeen(pidKnown) == pidKnown /\ cmd \in {"running", "zombie"}

SupSeen(pidKnown) ==
    /\ pidKnown
    /\ sup \in SupLive \/ (sup \in {"done", "dead"} /\ boot \in BootLive)

Settled == meta.status \in Terminal

\* Mutants: the command is not looked at; the verdict is not looked at.
SupervisorGone == ~Settled /\ ~SupSeen(meta.sup)
BothGoneAnyStatus == ~CommandSeen(meta.pid) /\ ~SupSeen(meta.sup)

BothGone == ~Settled /\ ~CommandSeen(meta.pid) /\ ~SupSeen(meta.sup)

\* Mutants: no grace for a young record; no end to the grace.
LooksStaleAtOnce == BothGone
LooksStaleNever  == BothGone /\ meta.status # "starting"

\* _reconcile_metadata spares a young record that is still "starting".
LooksStale == BothGone /\ (meta.status = "starting" => stale)

\* What a process can do to the others.

SignalGroup(sig) ==
    LET survives(m) == sig = "TERM" /\ m \in stubborn
        hit == cmd = "running" /\ ~survives(Leader)
    IN  /\ cmd' = IF ~hit THEN cmd
                  ELSE IF sup \in SupLive THEN "zombie" ELSE "gone"
        /\ cmdExit' = IF hit THEN "nonzero" ELSE cmdExit
        /\ kids' = [k \in Kids |-> IF kids[k] = "alive" /\ ~survives(k)
                                   THEN "gone" ELSE kids[k]]
        /\ hitOther' = (hitOther \/ reused)
        /\ UNCHANGED <<stubborn, reused>>

\* SIGTERM to the supervisor: before it has installed its handlers it just
\* dies; afterwards the handler runs at one of its next steps, once.
TermSupervisor ==
    /\ sup' = IF sup = "forked" THEN "dead" ELSE sup
    /\ supTerm' = IF supTerm = "none" /\ sup \in SupLive \ {"forked"}
                  THEN "pending" ELSE supTerm
    /\ UNCHANGED <<supGroup, exitCode>>

\* The supervisor ends; init reaps what it has not.
SupEnds(how) ==
    /\ sup' = how
    /\ cmd' = IF cmd = "zombie" THEN "gone" ELSE cmd
    /\ UNCHANGED <<supTerm, supGroup, exitCode, cmdExit, kids, stubborn,
                   reused, hitOther>>

\* One locked read-modify-write of metadata.json.
Put(m) == lock = Nobody /\ meta' = m /\ stale' = FALSE /\ UNCHANGED lock

-------------------------------------------------------------------------------
\* start_job

StarterWrite ==
    /\ starter = "write"
    /\ Put([meta EXCEPT !.status = "starting"])
    /\ starter' = "spawn"
    /\ UNCHANGED <<bootSeen, latest, expected, late, bootVars, supVars,
                   groupVars, callVars, crashed>>

StarterSpawn ==
    /\ starter = "spawn"
    /\ starter' = "poll" /\ boot' = "early"
    /\ UNCHANGED <<recordVars, bootSeen, latest, expected, late, bootTerm,
                   supVars, groupVars, callVars, crashed>>

StarterSpawnFails ==
    /\ starter = "spawn" /\ "io_error" \in Faults
    /\ Put([meta EXCEPT !.status = "failed"])
    /\ starter' = "failed"
    /\ UNCHANGED <<bootSeen, latest, expected, late, bootVars, supVars,
                   groupVars, callVars, crashed>>

StarterPollBoot ==
    /\ starter = "poll"
    /\ bootSeen' = (bootSeen \/ boot = "ok")
    /\ starter' = IF boot = "bad" /\ ~bootSeen THEN "termBoot" ELSE "read"
    /\ UNCHANGED <<recordVars, latest, expected, late, bootVars, supVars,
                   groupVars, callVars, crashed>>

StarterRead ==
    /\ starter = "read"
    /\ starter' = IF bootSeen /\ meta.status \in {"running"} \cup Terminal
                  THEN "ready" ELSE IF late THEN "termBoot" ELSE "poll"
    /\ UNCHANGED <<recordVars, bootSeen, latest, expected, late, bootVars,
                   supVars, groupVars, callVars, crashed>>

StarterReady ==
    /\ starter = "ready" /\ starter' = "started"
    /\ IF BothGone THEN Put([meta EXCEPT !.status = "interrupted"])
                   ELSE UNCHANGED recordVars
    /\ UNCHANGED <<bootSeen, latest, expected, late, bootVars, supVars,
                   groupVars, callVars, crashed>>

\* _job_start_failure: _cleanup_startup_attempt, then status "failed".
StarterTermBoot ==
    /\ starter = "termBoot"
    /\ IF boot \in BootLive
       THEN /\ boot' = IF boot = "early" THEN "bad" ELSE boot
            /\ bootTerm' = TRUE /\ starter' = "waitBoot"
       ELSE UNCHANGED bootVars /\ starter' = "latest"
    /\ UNCHANGED <<recordVars, bootSeen, latest, expected, late, supVars,
                   groupVars, callVars, crashed>>

StarterWaitBoot ==
    /\ starter = "waitBoot" /\ starter' = "latest"
    /\ boot \notin BootLive \/ "unresponsive" \in Faults
    /\ boot' = IF boot \in BootLive THEN "bad" ELSE boot
    /\ UNCHANGED <<recordVars, bootSeen, latest, expected, late, bootTerm,
                   supVars, groupVars, callVars, crashed>>

\* Read the record and TERM the recorded group, if it is still the same one.
StarterTermGroup ==
    /\ starter = "latest"
    /\ latest' = [pid |-> meta.pid, sup |-> meta.sup]
    /\ IF CommandSeen(meta.pid)
       THEN SignalGroup("TERM") /\ expected' = Alive /\ starter' = "groupGrace"
       ELSE UNCHANGED <<groupVars, expected>> /\ starter' = "supTerm"
    /\ UNCHANGED <<recordVars, bootSeen, late, bootVars, supVars, callVars,
                   crashed>>

\* The group has ended, or 0.25s have passed and what is left of it is killed.
StarterGroupGrace ==
    /\ starter = "groupGrace" /\ starter' = "supTerm"
    /\ IF MatchesSnapshot(expected) THEN SignalGroup("KILL")
                                    ELSE UNCHANGED groupVars
    /\ UNCHANGED <<recordVars, bootSeen, latest, expected, late, bootVars,
                   supVars, callVars, crashed>>

StarterTermSup ==
    /\ starter = "supTerm"
    /\ IF SupSeen(latest.sup) THEN TermSupervisor /\ starter' = "supGrace"
                              ELSE UNCHANGED supVars /\ starter' = "fail"
    /\ UNCHANGED <<recordVars, bootSeen, latest, expected, late, bootVars,
                   groupVars, callVars, crashed>>

\* 0.25s later the supervisor is killed, wherever its handler has got to.
StarterSupGrace ==
    /\ starter = "supGrace" /\ starter' = "fail"
    /\ supTerm = "pending" /\ sup \in SupLive => "unresponsive" \in Faults
    /\ IF sup \in SupLive THEN SupEnds("dead")
                          ELSE UNCHANGED <<supVars, groupVars>>
    /\ UNCHANGED <<recordVars, bootSeen, latest, expected, late, bootVars,
                   callVars, crashed>>

StarterFail ==
    /\ starter = "fail" /\ starter' = "failed"
    /\ \/ Put([meta EXCEPT !.status = "failed"])
       \/ "io_error" \in Faults /\ UNCHANGED recordVars
    /\ UNCHANGED <<bootSeen, latest, expected, late, bootVars, supVars,
                   groupVars, callVars, crashed>>

-------------------------------------------------------------------------------
\* The bootstrap: _detach_and_supervise

BootGuard ==
    /\ boot = "early" /\ boot' = "guarded"
    /\ UNCHANGED <<recordVars, starterVars, bootTerm, supVars, groupVars,
                   callVars, crashed>>

BootFork ==
    /\ boot = "guarded" /\ boot' = "forked" /\ sup' = "forked"
    /\ UNCHANGED <<recordVars, starterVars, bootTerm, supTerm, supGroup,
                   exitCode, groupVars, callVars, crashed>>

\* child_pid is bound: from here on a SIGTERM is passed on to the child.
BootBind ==
    /\ boot = "forked" /\ boot' = "waiting"
    /\ UNCHANGED <<recordVars, starterVars, bootTerm, supVars, groupVars,
                   callVars, crashed>>

BootExit ==
    /\ boot = "waiting"
    /\ \/ sup \in {"done", "dead"} /\ boot' = IF sup = "done" THEN "ok" ELSE "bad"
       \/ sup \notin {"done", "dead"} /\ meta.sup /\ boot' = "ok"
    /\ UNCHANGED <<recordVars, starterVars, bootTerm, supVars, groupVars,
                   callVars, crashed>>

BootShutdown ==
    /\ bootTerm /\ boot \in {"guarded", "forked", "waiting"}
    /\ IF boot = "waiting" THEN boot' = "stopping" /\ TermSupervisor
                           ELSE boot' = "bad" /\ UNCHANGED supVars
    /\ UNCHANGED <<recordVars, starterVars, bootTerm, groupVars, callVars,
                   crashed>>

\* The child has ended, or it is killed after 1s; it is reaped either way.
BootReap ==
    /\ boot = "stopping" /\ boot' = "bad"
    /\ supTerm = "pending" /\ sup \in SupLive => "unresponsive" \in Faults
    /\ IF sup \in SupLive THEN SupEnds("dead")
                          ELSE UNCHANGED <<supVars, groupVars>>
    /\ UNCHANGED <<recordVars, starterVars, bootTerm, callVars, crashed>>

-------------------------------------------------------------------------------
\* The supervisor: supervise_job

SupGuard ==
    /\ sup = "forked" /\ sup' = "guarded"
    /\ UNCHANGED <<recordVars, starterVars, bootVars, supTerm, supGroup,
                   exitCode, groupVars, callVars, crashed>>

SupPublish ==
    /\ sup = "guarded" /\ sup' = "published"
    /\ Put([meta EXCEPT !.sup = TRUE])
    /\ UNCHANGED <<starterVars, bootVars, supTerm, supGroup, exitCode,
                   groupVars, callVars, crashed>>

\* Popen has forked the command but has not returned it yet.
SupFork ==
    /\ sup = "published" /\ sup' = "popen" /\ cmd' = "running"
    /\ UNCHANGED <<recordVars, starterVars, bootVars, supTerm, supGroup,
                   exitCode, cmdExit, kids, stubborn, reused, hitOther,
                   callVars, crashed>>

SupBind ==
    /\ sup = "popen" /\ sup' = "spawned"
    /\ UNCHANGED <<recordVars, starterVars, bootVars, supTerm, supGroup,
                   exitCode, groupVars, callVars, crashed>>

SupRunning ==
    /\ sup = "spawned" /\ sup' = "running"
    /\ Put([meta EXCEPT !.status = "running", !.pid = TRUE])
    /\ UNCHANGED <<starterVars, bootVars, supTerm, supGroup, exitCode,
                   groupVars, callVars, crashed>>

\* process.wait() returns.
SupReap ==
    /\ sup = "running" /\ cmd = "zombie"
    /\ sup' = "finalizing" /\ cmd' = "gone" /\ exitCode' = cmdExit
    /\ UNCHANGED <<recordVars, starterVars, bootVars, supTerm, supGroup,
                   cmdExit, kids, stubborn, reused, hitOther, callVars,
                   crashed>>

\* except BaseException: a command known to run is terminated; one that Popen
\* has not returned is not; the exit code of an ended one is collected.
Unwind(bySignal) ==
    LET bound == sup \in {"spawned", "running"}
        code  == IF bound /\ ~bySignal THEN cmdExit ELSE "nonzero"
    IN  IF bound /\ cmd = "running"
        THEN /\ sup' = "stopping" /\ supGroup' = Alive
             /\ SignalGroup("TERM") /\ UNCHANGED exitCode
        ELSE /\ sup' = "finalizing" /\ exitCode' = code
             /\ cmd' = IF bound /\ cmd = "zombie" THEN "gone" ELSE cmd
             /\ UNCHANGED <<supGroup, cmdExit, kids, stubborn, reused,
                            hitOther>>

SupShutdown ==
    /\ sup \in {"guarded", "published", "popen", "spawned", "running"}
    /\ supTerm = "pending" /\ supTerm' = "handled"
    /\ Unwind(TRUE)
    /\ UNCHANGED <<recordVars, starterVars, bootVars, callVars, crashed>>

\* Publishing fails, or Popen does (it needs no fault: cwd may be gone).
SupRaises ==
    /\ \/ sup \in {"guarded", "spawned"} /\ "io_error" \in Faults
       \/ sup = "published"
    /\ Unwind(FALSE)
    /\ UNCHANGED <<recordVars, starterVars, bootVars, supTerm, callVars,
                   crashed>>

\* 0.5s later, or the group is gone: kill what the snapshot still accounts for.
SupEscalate ==
    /\ sup = "stopping" /\ sup' = "reaping"
    /\ IF MatchesSnapshot(supGroup) THEN SignalGroup("KILL")
                                    ELSE UNCHANGED groupVars
    /\ UNCHANGED <<recordVars, starterVars, bootVars, supTerm, supGroup,
                   exitCode, callVars, crashed>>

\* process.wait(timeout=1), and process.poll() if it has timed out.
SupStopWait ==
    /\ sup = "reaping" /\ sup' = "finalizing"
    /\ exitCode' = IF cmd = "zombie" /\ supTerm # "handled"
                   THEN cmdExit ELSE "nonzero"
    /\ cmd' = IF cmd = "zombie" THEN "gone" ELSE cmd
    /\ UNCHANGED <<recordVars, starterVars, bootVars, supTerm, supGroup,
                   cmdExit, kids, stubborn, reused, hitOther, callVars,
                   crashed>>

\* Mutant: the verdict repeats the signal.
VerdictIsSignal == IF meta.kill # "none" THEN meta.kill
                   ELSE IF exitCode = "zero" THEN "succeeded" ELSE "failed"

Verdict == IF meta.kill # "none" THEN "killed"
           ELSE IF exitCode = "zero" THEN "succeeded" ELSE "failed"

SupFinalize ==
    /\ sup = "finalizing" /\ SupEnds("done")
    /\ Put([meta EXCEPT !.status = Verdict])
    /\ UNCHANGED <<starterVars, bootVars, callVars, crashed>>

\* The record cannot be replaced, or the SIGTERM is the first one and raises
\* where nothing but the end of the process is left to handle it.
SupDies ==
    /\ \/ sup = "finalizing" /\ "io_error" \in Faults
       \/ sup \in {"stopping", "reaping", "finalizing"} /\ supTerm = "pending"
    /\ SupEnds("dead")
    /\ UNCHANGED <<recordVars, starterVars, bootVars, callVars, crashed>>

-------------------------------------------------------------------------------
\* Later calls: job_status and job_kill

\* _load_job and _reconcile_metadata, with t = "status", "TERM" or "KILL".
AfterReconcile(t) ==
    IF Settled \/ t = "status" THEN "done"
    ELSE IF CommandSeen(meta.pid) THEN "signal" ELSE "wait"

Call(c, t) ==
    /\ pc[c] = "idle" /\ meta.status # "absent"
    /\ op' = [op EXCEPT ![c] = t]
    /\ pc' = [pc EXCEPT ![c] =
                IF LooksStale
                THEN "recheck" ELSE AfterReconcile(t)]
    /\ UNCHANGED <<recordVars, starterVars, bootVars, supVars, groupVars,
                   sent, group, crashed>>

\* _interrupt_stale_record decides again under the lock, without the grace.
Recheck(c) ==
    /\ pc[c] \in {"recheck", "recheckWait", "recheckLast"} /\ lock = Nobody
    /\ IF BothGone THEN Put([meta EXCEPT !.status = "interrupted"])
                   ELSE UNCHANGED recordVars
    /\ pc' = [pc EXCEPT ![c] =
                IF BothGone \/ Settled THEN "done"
                ELSE IF pc[c] = "recheck" THEN AfterReconcile(op[c])
                ELSE IF pc[c] = "recheckWait" THEN "wait"
                ELSE IF sent[c] THEN "done" ELSE "refused"]
    /\ UNCHANGED <<starterVars, bootVars, supVars, groupVars, op, sent, group,
                   crashed>>

\* The second look fails: the caller goes on with what it read before.
RecheckFails(c) ==
    /\ "io_error" \in Faults
    /\ pc[c] \in {"recheck", "recheckWait", "recheckLast"} /\ lock = Nobody
    /\ pc' = [pc EXCEPT ![c] =
                IF pc[c] = "recheckWait" THEN "wait"
                ELSE IF pc[c] = "recheck" /\ op[c] # "status" THEN "wait"
                ELSE IF pc[c] = "recheck" \/ sent[c] THEN "done" ELSE "refused"]
    /\ UNCHANGED <<recordVars, starterVars, bootVars, supVars, groupVars, op,
                   sent, group, crashed>>

\* Mutant: the lock is released between killpg and the write of kill_signal.
KillSignalUnlocked(c) ==
    /\ pc[c] = "signal" /\ lock = Nobody
    /\ ~Settled /\ CommandSeen(meta.pid)
    /\ SignalGroup(op[c])
    /\ pc' = [pc EXCEPT ![c] = "publish"]
    /\ sent' = [sent EXCEPT ![c] = TRUE]
    /\ group' = [group EXCEPT ![c] = Alive]
    /\ UNCHANGED <<recordVars, starterVars, bootVars, supVars, op, crashed>>

\* signal_and_mark_kill_requested up to killpg; the lock stays held.
KillSignal(c) ==
    /\ pc[c] = "signal" /\ lock = Nobody
    /\ ~Settled /\ CommandSeen(meta.pid)
    /\ SignalGroup(op[c])
    /\ lock' = c
    /\ pc' = [pc EXCEPT ![c] = "publish"]
    /\ sent' = [sent EXCEPT ![c] = TRUE]
    /\ group' = [group EXCEPT ![c] = Alive]
    /\ UNCHANGED <<meta, stale, starterVars, bootVars, supVars, op, crashed>>

\* The same function when the job has ended meanwhile, or its command has.
KillTooLate(c) ==
    /\ pc[c] = "signal" /\ lock = Nobody
    /\ Settled \/ ~CommandSeen(meta.pid)
    /\ pc' = [pc EXCEPT ![c] = IF Settled THEN "done" ELSE "wait"]
    /\ UNCHANGED <<recordVars, starterVars, bootVars, supVars, groupVars, op,
                   sent, group, crashed>>

KillPublish(c) ==
    /\ pc[c] = "publish"
    /\ lock' = Nobody
    /\ \/ /\ meta' = [meta EXCEPT !.kill = op[c]] /\ stale' = FALSE
          /\ pc' = [pc EXCEPT ![c] = IF op[c] = "TERM" THEN "grace" ELSE "wait"]
       \/ /\ "io_error" \in Faults /\ UNCHANGED <<meta, stale>>
          /\ pc' = [pc EXCEPT ![c] = "lost"]
    /\ UNCHANGED <<starterVars, bootVars, supVars, groupVars, op, sent, group,
                   crashed>>

\* Mutant: only the leader is waited for.
KillGraceLeader(c) ==
    /\ pc[c] = "grace"
    /\ pc' = [pc EXCEPT ![c] = IF Leader \in Alive THEN "escalate" ELSE "wait"]
    /\ UNCHANGED <<recordVars, starterVars, bootVars, supVars, groupVars, op,
                   sent, group, crashed>>

\* The 0.5s grace ends early when the group does.
KillGrace(c) ==
    /\ pc[c] = "grace"
    /\ pc' = [pc EXCEPT ![c] = IF GroupSeen THEN "escalate" ELSE "wait"]
    /\ UNCHANGED <<recordVars, starterVars, bootVars, supVars, groupVars, op,
                   sent, group, crashed>>

KillEscalate(c) ==
    /\ pc[c] = "escalate"
    /\ IF MatchesSnapshot(group[c])
       THEN SignalGroup("KILL") /\ pc' = [pc EXCEPT ![c] = "wait"]
       ELSE UNCHANGED groupVars /\ pc' = [pc EXCEPT ![c] = "refused"]
    /\ UNCHANGED <<recordVars, starterVars, bootVars, supVars, op, sent, group,
                   crashed>>

\* _wait_for_terminal_record: one look at the record, and giving up after 1s.
WaitRecord(c) ==
    /\ pc[c] = "wait" /\ (Settled \/ LooksStale)
    /\ pc' = [pc EXCEPT ![c] = IF Settled THEN "done" ELSE "recheckWait"]
    /\ UNCHANGED <<recordVars, starterVars, bootVars, supVars, groupVars, op,
                   sent, group, crashed>>

WaitExpires(c) ==
    /\ pc[c] = "wait"
    /\ pc' = [pc EXCEPT ![c] =
                IF LooksStale
                THEN "recheckLast"
                ELSE IF sent[c] \/ Settled THEN "done" ELSE "refused"]
    /\ UNCHANGED <<recordVars, starterVars, bootVars, supVars, groupVars, op,
                   sent, group, crashed>>

Return(c) ==
    /\ pc[c] \in {"done", "refused", "lost"}
    /\ pc' = [pc EXCEPT ![c] = "idle"]
    /\ op' = [op EXCEPT ![c] = "status"]
    /\ sent' = [sent EXCEPT ![c] = FALSE]
    /\ group' = [group EXCEPT ![c] = {}]
    /\ UNCHANGED <<recordVars, starterVars, bootVars, supVars, groupVars,
                   crashed>>

-------------------------------------------------------------------------------
\* The environment

\* The command ends by itself.
CommandExits(code) ==
    /\ cmd = "running" /\ code \in {"zero", "nonzero"}
    /\ cmd' = IF sup \in SupLive THEN "zombie" ELSE "gone"
    /\ cmdExit' = code
    /\ UNCHANGED <<recordVars, starterVars, bootVars, supVars, kids, stubborn,
                   reused, hitOther, callVars, crashed>>

KidForked(k) ==
    /\ kids[k] = "unborn" /\ (cmd = "running" \/ \E j \in Kids : kids[j] = "alive")
    /\ kids' = [kids EXCEPT ![k] = "alive"]
    /\ UNCHANGED <<recordVars, starterVars, bootVars, supVars, cmd, cmdExit,
                   stubborn, reused, hitOther, callVars, crashed>>

KidExits(k) ==
    /\ kids[k] = "alive"
    /\ kids' = [kids EXCEPT ![k] = "gone"]
    /\ UNCHANGED <<recordVars, starterVars, bootVars, supVars, cmd, cmdExit,
                   stubborn, reused, hitOther, callVars, crashed>>

\* Once the group is empty its number may be given to somebody else.
PidReused ==
    /\ "pid_reuse" \in Faults
    /\ cmd = "gone" /\ Alive = {} /\ ~reused /\ reused' = TRUE
    /\ UNCHANGED <<recordVars, starterVars, bootVars, supVars, cmd, cmdExit,
                   kids, stubborn, hitOther, callVars, crashed>>

\* Time. Five seconds pass during a start that is slow, or that is stuck.
StartStuck == /\ meta.status = "starting" /\ starter # "spawn"
              /\ boot \notin BootLive /\ sup \notin SupLive

StartDeadline ==
    /\ starter \in {"poll", "read"} /\ ~late /\ late' = TRUE
    /\ "slow" \in Faults \/ StartStuck
    /\ UNCHANGED <<recordVars, starter, bootSeen, latest, expected, bootVars,
                   supVars, groupVars, callVars, crashed>>

RecordAges ==
    /\ meta.status = "starting" /\ ~stale /\ stale' = TRUE
    /\ "slow" \in Faults \/ StartStuck
    /\ UNCHANGED <<meta, lock, starterVars, bootVars, supVars, groupVars,
                   callVars, crashed>>

\* Faults.
SupKilled ==
    /\ "sup_kill" \in Faults /\ sup \in SupLive /\ SupEnds("dead")
    /\ UNCHANGED <<recordVars, starterVars, bootVars, callVars, crashed>>

SupTermed ==
    /\ "sup_term" \in Faults /\ sup \in SupLive /\ supTerm = "none"
    /\ TermSupervisor
    /\ UNCHANGED <<recordVars, starterVars, bootVars, groupVars, callVars,
                   crashed>>

\* The kernel releases the flock of a dead server; its calls are lost.
ServerCrash ==
    /\ "server_crash" \in Faults /\ ~crashed /\ crashed' = TRUE
    /\ starter # "write"
    /\ lock' = Nobody
    /\ starter' = IF starter \in {"started", "failed"} THEN starter ELSE "dead"
    /\ pc' = [c \in Callers |-> "idle"]
    /\ op' = [c \in Callers |-> "status"]
    /\ sent' = [c \in Callers |-> FALSE]
    /\ group' = [c \in Callers |-> {}]
    /\ UNCHANGED <<meta, stale, bootSeen, latest, expected, late, bootVars,
                   supVars, groupVars>>

-------------------------------------------------------------------------------
Starter == \/ StarterWrite \/ StarterSpawn \/ StarterSpawnFails
           \/ StarterPollBoot \/ StarterRead \/ StarterReady
           \/ StarterTermBoot \/ StarterWaitBoot \/ StarterTermGroup
           \/ StarterGroupGrace \/ StarterTermSup \/ StarterSupGrace
           \/ StarterFail

Boot == BootGuard \/ BootFork \/ BootBind \/ BootExit \/ BootShutdown \/ BootReap

Sup == \/ SupGuard \/ SupPublish \/ SupFork \/ SupBind \/ SupRunning
       \/ SupReap \/ SupShutdown \/ SupRaises \/ SupEscalate
       \/ SupStopWait \/ SupFinalize \/ SupDies

\* The steps of a call that has begun.
Caller(c) == \/ Recheck(c) \/ RecheckFails(c) \/ KillSignal(c) \/ KillTooLate(c)
             \/ KillPublish(c) \/ KillGrace(c) \/ KillEscalate(c)
             \/ WaitRecord(c) \/ WaitExpires(c) \/ Return(c)

CommandEnds == \E code \in {"zero", "nonzero"} : CommandExits(code)

Environment == \/ CommandEnds \/ PidReused
               \/ \E k \in Kids : KidForked(k) \/ KidExits(k)
               \/ StartDeadline \/ RecordAges
               \/ SupKilled \/ SupTermed \/ ServerCrash

Next == \/ Starter \/ Boot \/ Sup \/ Environment
        \/ \E c \in Callers : Caller(c)
        \/ \E c \in Callers : \E t \in Signals \cup {"status"} : Call(c, t)

Spec == Init /\ [][Next]_vars

-------------------------------------------------------------------------------
\* Fairness: every process that can take its next step does, commands end,
\* and somebody keeps asking for the job.
Fairness == /\ WF_vars(Starter) /\ WF_vars(Boot) /\ WF_vars(Sup)
            /\ WF_vars(CommandEnds)
            /\ WF_vars(StartDeadline) /\ WF_vars(RecordAges)
            /\ \A c \in Callers : WF_vars(Caller(c))
            /\ \A c \in Callers : WF_vars(Call(c, "status"))

FairSpec == Spec /\ Fairness

\* A kill that was delivered and not lost is what the job is reported to have
\* ended by: the supervisor never books the resulting exit as "failed" or
\* "succeeded". Only a failed start may overwrite it. (job_kill signals while
\* it holds the lock the supervisor needs to record the exit.)
KillAttributed ==
    \A c \in Callers :
        sent[c] /\ pc[c] # "lost"
            => meta.status \notin {"succeeded", "failed"} \/ starter = "failed"

\* Why it holds: the lock is held exactly between killpg and the write of
\* kill_signal, no verdict is recorded in that time, and a recorded kill_signal
\* is never lost again and decides the verdict.
LockedKill == \A c \in Callers : /\ lock = c <=> pc[c] = "publish"
                                 /\ pc[c] = "publish" => ~Settled
KillRecorded == \A c \in Callers :
    sent[c] /\ pc[c] \notin {"publish", "lost"} => meta.kill # "none"
KillDecides ==
    meta.kill # "none" /\ meta.status \in {"succeeded", "failed"}
        => starter = "failed"

KillProtocol == LockedKill /\ KillRecorded /\ KillDecides

\* When job_kill returns success after signalling, or only waits for the
\* record any more, nothing of the command's group runs: neither a member that
\* ignores SIGTERM nor one that outlived its leader.
KillLeavesNothing ==
    \A c \in Callers :
        sent[c] /\ pc[c] \in {"wait", "recheckWait", "recheckLast", "done"}
            => cmd # "running" /\ \A k \in Kids : kids[k] # "alive"

\* No signal of job_kill, of the supervisor or of the start-up cleanup reaches
\* the process group that inherits the number of the ended one.
StrangersSpared == ~hitOther

\* "succeeded" is the report of a command that ended by itself, with 0, and
\* has been reaped, on every path to the verdict.
SucceededMeansExitZero ==
    meta.status = "succeeded" => cmdExit = "zero" /\ cmd = "gone"

\* A job whose command is on record is given up as interrupted only when that
\* command is gone, even if its supervisor went first.
InterruptedMeansRecordedGone ==
    meta.status = "interrupted" /\ meta.pid => cmd \notin {"running", "zombie"}

\* What the record says of an ended job is true of its processes.
VerdictTrue == SucceededMeansExitZero /\ InterruptedMeansRecordedGone

\* Once the supervisor has recorded its verdict no call replaces it, in any
\* order of reading, checking and locking; start_job does when it reports a
\* failed start.
VerdictStands ==
    [][sup = "done" /\ starter # "fail" => meta'.status = meta.status]_vars

\* A job that has begun is decided in the end and stays decided, although its
\* supervisor or the server may die at any point.
EventuallySettled ==
    (meta.status # "absent") ~> [](meta.status \in Terminal)

\* Where nothing but the server fails and the start is prompt, the job is what
\* its clients are promised.
Contract == INSTANCE JobContract WITH
    status  <- IF meta.status = "starting" THEN "running" ELSE meta.status,
    command <- IF cmd = "none" THEN "not_yet"
               ELSE IF cmd = "running" THEN "running" ELSE "over",
    killed  <- meta.kill # "none"

KeepsContract == Contract!CSpec

\* interruption_reason is "supervisor_and_command_gone_without_terminal_record":
\* the command of an interrupted job does not run, unless it was started so
\* slowly that the record was given up before (fault "slow").
InterruptedMeansGone == meta.status = "interrupted" => cmd # "running"

\* A failed job_start that knows of the detached supervisor has terminated it
\* and the command, published or not. (Not so when the start is "slow".)
FailedStartLeavesNothing ==
    starter = "failed" /\ latest.sup => cmd # "running" /\ sup \notin SupLive
===============================================================================
