------------------------------ MODULE JobContract ------------------------------
(***************************************************************************)
(* What a durable job promises to its clients, with no process but the     *)
(* command in sight: it begins, its command runs at most once and only     *)
(* while the job is undecided, and it is decided once, after the command.  *)
(***************************************************************************)
VARIABLES status,      \* what job_status reports
          command,     \* "not_yet", "running", "over"
          killed       \* a kill request is on record

cvars == <<status, command, killed>>

CInit == status = "absent" /\ command = "not_yet" /\ killed = FALSE

Begin == /\ status = "absent" /\ status' = "running"
         /\ UNCHANGED <<command, killed>>

CommandBegins == /\ status = "running" /\ command = "not_yet"
                 /\ command' = "running"
                 /\ UNCHANGED <<status, killed>>

CommandIsOver == /\ command = "running" /\ command' = "over"
                 /\ UNCHANGED <<status, killed>>

KillRecorded == /\ status = "running" /\ command # "not_yet"
                /\ killed' = TRUE
                /\ UNCHANGED <<status, command>>

\* Nothing is decided while the command runs. The verdict "killed" stands for
\* a recorded request and replaces "succeeded" and "failed"; "succeeded"
\* needs a command that was there.
Decide(verdict) ==
    /\ status = "running" /\ command # "running"
    /\ verdict = "killed" => killed
    /\ verdict \in {"succeeded", "failed"} => ~killed
    /\ verdict = "succeeded" => command = "over"
    /\ status' = verdict
    /\ UNCHANGED <<command, killed>>

CNext == \/ Begin \/ CommandBegins \/ CommandIsOver \/ KillRecorded
         \/ \E v \in {"succeeded", "failed", "killed", "interrupted"} : Decide(v)

CSpec == CInit /\ [][CNext]_cvars
================================================================================
