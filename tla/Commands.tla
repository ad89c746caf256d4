------------------------------- MODULE Commands -------------------------------
(***************************************************************************)
(* run_command and run_commands (shell.py): each command is the leader of  *)
(* a process group of its own, two threads read its two pipes until the    *)
(* last holder of their other ends is gone, and the calling thread waits,  *)
(* kills the group at the deadline, and renders what the threads captured. *)
(* A batch runs on one or on several worker threads and its results share  *)
(* one token budget.                                                       *)
(***************************************************************************)
EXTENDS TokenBudget

CONSTANTS
    Batches,        \* the calls that are made: [mode, width, refused, runs]
    ReadChunk,      \* _PIPE_READ_CHUNK_BYTES
    MaxNeed         \* bound on the tokens of one captured text

VARIABLES
    batch,          \* the call
    run,            \* one record per command
    reply           \* the answer to the call

vars == <<batch, run, reply>>

(***************************************************************************)
(* A member of batch.runs says what its command may do:                    *)
(*   says    how many bytes at most it writes to each stream               *)
(*   bytes   of which kinds                                                *)
(*   deaf    whether its leader ignores SIGTERM                            *)
(*   kids    the descendants it may leave: which pipes they hold, whether  *)
(*           they moved to another process group, whether they ignore      *)
(*           SIGTERM                                                       *)
(***************************************************************************)
Kids   == [holds : SUBSET Streams, escaped : BOOLEAN, deaf : BOOLEAN]
NoKid  == [holds |-> {}, escaped |-> FALSE, deaf |-> FALSE]

\* The calls of the tool: a sequential batch has one worker, a parallel one at least one.
Requests == [says : [Streams -> Nat], bytes : SUBSET STRING, deaf : BOOLEAN, kids : SUBSET Kids]
Calls    == [mode : {"single", "sequential", "parallel"}, width : Nat \ {0},
             refused : BOOLEAN, runs : Seq(Requests)]

ASSUME CallsAssumption == Batches \subseteq Calls /\ ReadChunk \in Nat \ {0} /\ MaxNeed \in Nat

Runs   == DOMAIN batch.runs
NoView == Whole([s \in Streams |-> 0], 0)

Fresh ==
    [pc |-> "queued", leader |-> "none", kid |-> NoKid, kidState |-> "none",
     expired |-> FALSE, timedOut |-> FALSE, code |-> "none",
     written |-> [s \in Streams |-> <<>>], taken |-> [s \in Streams |-> 0],
     open |-> {}, cap |-> [s \in Streams |-> NoCapture], view |-> NoView]

Init ==
    /\ batch \in Batches
    /\ run = [c \in Runs |-> Fresh]
    /\ reply = [kind |-> "none"]

Active    == {c \in Runs : run[c].pc \notin {"queued", "answered"}}
Waiting   == {c \in Runs : run[c].pc = "queued"}
Single    == batch.mode = "single"

\* Live processes that can still write to stream s of command c.
Held(c, s) == \/ run[c].leader = "running"
              \/ run[c].kidState = "running" /\ s \in run[c].kid.holds
Members(c) == \/ run[c].leader = "running"
              \/ run[c].kidState = "running" /\ ~ run[c].kid.escaped

\* A live descendant outside the group keeps a pipe open.
HeldOutside(c) == run[c].kidState = "running" /\ run[c].kid.escaped /\ run[c].kid.holds # {}

(***************************************************************************)
(* The processes of a command                                              *)
(***************************************************************************)
Write(c, s, b) ==
    /\ Held(c, s) /\ s \in run[c].open
    /\ Len(run[c].written[s]) < batch.runs[c].says[s]
    /\ run' = [run EXCEPT ![c].written[s] = Append(@, b)]
    /\ UNCHANGED <<batch, reply>>

Fork(c, kid) ==
    /\ run[c].leader = "running" /\ run[c].kidState = "none"
    /\ run' = [run EXCEPT ![c].kid = kid, ![c].kidState = "running"]
    /\ UNCHANGED <<batch, reply>>

LeaderExits(c, code) ==
    /\ run[c].leader = "running"
    /\ run' = [run EXCEPT ![c].leader = code]
    /\ UNCHANGED <<batch, reply>>

KidExits(c) ==
    /\ run[c].kidState = "running"
    /\ run' = [run EXCEPT ![c].kidState = "gone"]
    /\ UNCHANGED <<batch, reply>>

Expire(c) ==
    /\ run[c].pc \in {"waiting", "joining"} /\ ~ run[c].expired
    /\ run' = [run EXCEPT ![c].expired = TRUE]
    /\ UNCHANGED <<batch, reply>>

(***************************************************************************)
(* The readers. A read blocks until a chunk is full or the pipe is at its  *)
(* end; while it does, close() of the same pipe blocks as well.            *)
(***************************************************************************)
Chunk(c, s) ==
    LET from == run[c].taken[s]
    IN  SubSeq(run[c].written[s], from + 1, Min({from + ReadChunk, Len(run[c].written[s])}))

Read(c, s) ==
    /\ s \in run[c].open
    /\ (Len(Chunk(c, s)) = ReadChunk \/ ~ Held(c, s))
    /\ IF Chunk(c, s) = <<>>
       THEN run' = [run EXCEPT ![c].open = @ \ {s}]
       ELSE \E closed \in {{}} \cup (IF run[c].pc = "closing" THEN {{s}} ELSE {}) :
                run' = [run EXCEPT ![c].cap[s]   = Add(@, s, Chunk(c, s)),
                                   ![c].taken[s] = @ + Len(Chunk(c, s)),
                                   ![c].open     = @ \ closed]
    /\ UNCHANGED <<batch, reply>>

(***************************************************************************)
(* run_command                                                             *)
(***************************************************************************)
\* MUTANT of Oldest: the number of workers is not looked at.
OldestAtOnce(c) == c \in Waiting /\ \A d \in Waiting : c <= d

\* A worker takes the oldest command that waits.
Oldest(c) == c \in Waiting /\ (\A d \in Waiting : c <= d) /\ Cardinality(Active) < batch.width

Start(c) ==
    /\ ~ batch.refused /\ Oldest(c)
    /\ run' = [run EXCEPT ![c].pc = "waiting", ![c].leader = "running", ![c].open = Streams]
    /\ UNCHANGED <<batch, reply>>

\* The directory is gone or the shell cannot be started.
StartFails(c) ==
    /\ ~ batch.refused /\ Oldest(c)
    /\ run' = [run EXCEPT ![c].pc = "answered", ![c].code = "not_started"]
    /\ UNCHANGED <<batch, reply>>

Waited(c) ==
    /\ run[c].pc = "waiting" /\ run[c].leader # "running"
    /\ run' = [run EXCEPT ![c].pc = "joining"]
    /\ UNCHANGED <<batch, reply>>

\* MUTANT of JoinedInTime: the threads are not joined once the leader has ended.
JoinedAtOnce(c) ==
    /\ run[c].pc = "joining"
    /\ run' = [run EXCEPT ![c].pc = "render"]
    /\ UNCHANGED <<batch, reply>>

JoinedInTime(c) ==
    /\ run[c].pc = "joining" /\ run[c].open = {}
    /\ run' = [run EXCEPT ![c].pc = "render"]
    /\ UNCHANGED <<batch, reply>>

\* MUTANT of TimesOut: the readers are joined without a timeout.
TimesOutLeader(c) ==
    /\ run[c].expired /\ run[c].pc = "waiting"
    /\ run' = [run EXCEPT ![c].pc = "term", ![c].timedOut = TRUE]
    /\ UNCHANGED <<batch, reply>>

TimesOut(c) ==
    /\ run[c].expired
    /\ \/ run[c].pc = "waiting"
       \/ run[c].pc = "joining" /\ run[c].open # {}
    /\ run' = [run EXCEPT ![c].pc = "term", ![c].timedOut = TRUE]
    /\ UNCHANGED <<batch, reply>>

Ended(leader) == IF leader = "running" THEN "killed" ELSE leader

\* SIGTERM to the group.
Terminate(c) ==
    /\ run[c].pc = "term"
    /\ run' = [run EXCEPT ![c].pc = "grace",
                          ![c].leader   = IF batch.runs[c].deaf THEN @ ELSE Ended(@),
                          ![c].kidState = IF run[c].kid.escaped \/ run[c].kid.deaf \/ @ = "none"
                                          THEN @ ELSE "gone"]
    /\ UNCHANGED <<batch, reply>>

\* MUTANT of FinishOff: only the leader is looked for after the grace period.
FinishOffLeader(c) ==
    /\ run[c].pc = "grace"
    /\ run' = [run EXCEPT ![c].pc = "collect", ![c].leader = Ended(@)]
    /\ UNCHANGED <<batch, reply>>

\* Whatever is left of the group when the grace period is over gets SIGKILL; the leader is reaped.
FinishOff(c) ==
    /\ run[c].pc = "grace"
    /\ run' = [run EXCEPT ![c].pc = "collect",
                          ![c].leader   = Ended(@),
                          ![c].kidState = IF run[c].kid.escaped \/ @ = "none" THEN @ ELSE "gone"]
    /\ UNCHANGED <<batch, reply>>

Collected(c) ==
    /\ run[c].pc = "collect" /\ run[c].open = {}
    /\ run' = [run EXCEPT ![c].pc = "render"]
    /\ UNCHANGED <<batch, reply>>

\* The threads still read a second later, and the pipes are closed under them.
ClosePipes(c) ==
    /\ run[c].pc = "collect" /\ run[c].open # {}
    /\ run' = [run EXCEPT ![c].pc = "closing"]
    /\ UNCHANGED <<batch, reply>>

\* close() returns no sooner than the read that is under way.
Closed(c) ==
    /\ run[c].pc = "closing" /\ run[c].open = {}
    /\ run' = [run EXCEPT ![c].pc = "render"]
    /\ UNCHANGED <<batch, reply>>

OneLine(c) ==
    \E s \in Streams :
        /\ run[c].cap[s].total > 0 /\ \A t \in Streams \ {s} : run[c].cap[t].total = 0
        /\ Dropped(run[c].cap[s]) = 0 /\ LinesOf(run[c].cap[s]) = 1

\* The texts that may have been captured, by their sizes.
Texts(c) ==
    {need \in [Streams -> 0 .. MaxNeed] :
        \A s \in Streams : (need[s] = 0) <=> (run[c].cap[s].total = 0)}

\* A batch goes on with the texts alone.
Kept(view) == IF Single THEN view
              ELSE [Whole(view.shown, view.seam) EXCEPT !.oversized = view.oversized]

\* What may come of texts of these sizes.
Views == [need \in [Streams -> 0 .. MaxNeed] |-> [seam \in AllSeams |-> [line \in BOOLEAN |->
             Rendered(Whole(need, seam), line)]]]

Render(c) ==
    /\ run[c].pc = "render"
    /\ \E need \in Texts(c) : \E seam \in Seams(need) :
       \E view \in Views[need][seam][OneLine(c)] :
            run' = [run EXCEPT ![c] =
                        [Fresh EXCEPT !.pc = "answered", !.leader = run[c].leader,
                                      !.kid = run[c].kid, !.kidState = run[c].kidState,
                                      !.timedOut = run[c].timedOut, !.view = Kept(view),
                                      !.code = IF run[c].timedOut THEN "timed_out" ELSE run[c].leader]]
    /\ UNCHANGED <<batch, reply>>

(***************************************************************************)
(* run_commands                                                            *)
(***************************************************************************)
\* The streams of a batch, numbered in the order of "index:stream".
Key(c, s)  == 2 * (c - 1) + s
Keys       == 1 .. 2 * Len(batch.runs)
RunOf(k)   == (k + 1) \div 2
StreamOf(k) == k - 2 * (RunOf(k) - 1)
Needs      == [k \in Keys |-> run[RunOf(k)].view.shown[StreamOf(k)]]

Refuse ==
    /\ batch.refused /\ reply.kind = "none"
    /\ reply' = [kind |-> "refused"]
    /\ UNCHANGED <<batch, run>>

AnswerSingle ==
    /\ Single /\ reply.kind = "none" /\ run[1].pc = "answered"
    /\ reply' = [kind |-> "single"]
    /\ UNCHANGED <<batch, run>>

Outcome(c) == [index |-> c, code |-> run[c].code, timedOut |-> run[c].timedOut]

\* The response says that it is whole only if nothing was cut and nothing left out.
Level(cut, level) == [level |-> level, complete |-> ~ cut /\ level = "full"]

\* Every level of detail keeps every outcome, in the order of the commands.
Results(level) == [c \in Runs |-> Outcome(c)]

\* Half of the budget is for texts; whether the rest carries the envelope is left open.
AnswerBatch ==
    /\ ~ Single /\ ~ batch.refused /\ reply.kind = "none"
    /\ \A c \in Runs : run[c].pc = "answered"
    /\ LET shares == Allocate(Needs, MaxTokens \div 2)
           cut    == \E k \in Keys : shares[k] < Needs[k]
       IN  \E level \in {"full", "compact", "summary"} :
               reply' = [kind |-> "batch", results |-> Results(level), shares |-> shares,
                         is |-> Level(cut, level)]
    /\ UNCHANGED <<batch, run>>

(***************************************************************************)
(* Specification                                                           *)
(***************************************************************************)
CallStep(c) ==
    Waited(c) \/ JoinedInTime(c) \/ TimesOut(c) \/ Terminate(c) \/ FinishOff(c)
    \/ Collected(c) \/ ClosePipes(c) \/ Closed(c) \/ Render(c)

Next ==
    \/ \E c \in Runs :
        \/ Start(c) \/ StartFails(c) \/ CallStep(c) \/ Expire(c)
        \/ \E s \in Streams : Read(c, s)
        \/ \E s \in Streams, b \in batch.runs[c].bytes : Write(c, s, b)
        \/ \E kid \in batch.runs[c].kids : Fork(c, kid)
        \/ \E code \in {"ok", "failed"} : LeaderExits(c, code)
        \/ KidExits(c)
    \/ Refuse \/ AnswerSingle \/ AnswerBatch

\* Threads and clocks go on; no process of a command ever has to end or to write.
Fairness ==
    /\ \A c \in 1 .. 2 : WF_vars(c \in Runs /\ (CallStep(c) \/ Expire(c) \/ Start(c) \/ StartFails(c)))
    /\ \A c \in 1 .. 2, s \in Streams : WF_vars(c \in Runs /\ Read(c, s))
    /\ WF_vars(Refuse \/ AnswerSingle \/ AnswerBatch)

Spec == Init /\ [][Next]_vars /\ Fairness

(***************************************************************************)
(* Properties                                                              *)
(***************************************************************************)
\* Every variable has its type, and no more commands run than there are workers.
TypeOK ==
    /\ batch \in Batches
    /\ Cardinality(Active) <= batch.width
    /\ \A c \in Runs :
        /\ run[c].pc \in {"queued", "waiting", "joining", "term", "grace", "collect",
                          "closing", "render", "answered"}
        /\ run[c].leader \in {"none", "running", "ok", "failed", "killed"}
        /\ run[c].kid \in Kids /\ run[c].kidState \in {"none", "running", "gone"}
        /\ run[c].code \in {"none", "not_started", "ok", "failed", "timed_out"}
        /\ run[c].expired \in BOOLEAN /\ run[c].timedOut \in BOOLEAN
        /\ run[c].open \subseteq Streams
    /\ reply.kind \in {"none", "refused", "single", "batch"}
    /\ reply.kind = "batch" => reply.is \in [level : {"full", "compact", "summary"}, complete : BOOLEAN]

\* Once a command is given up (_terminate_process_tree), nothing of its process group is alive,
\* whatever its members do with SIGTERM and whenever they were started.
TimeoutKillsGroup ==
    \A c \in Runs :
        run[c].timedOut /\ run[c].pc \notin {"term", "grace"} => ~ Members(c)

\* A command that is not reported as timed out is reported with everything that it and every
\* descendant holding one of its pipes ever wrote (run_command joins the readers first).
OutputComplete ==
    \A c \in Runs : run[c].pc = "render" /\ ~ run[c].timedOut =>
        \A s \in Streams : ~ Held(c, s) /\ run[c].taken[s] = Len(run[c].written[s])

LineEnds(text) ==
    {i \in 1 .. Len(text) : \/ text[i] = "LF"
                            \/ text[i] = "CR" /\ (i = Len(text) \/ text[i + 1] # "LF")}

\* However a stream is cut into chunks, the capture is that of the whole text: its first bytes,
\* its last ones, its length and its number of lines (_BoundedStreamCapture).
CaptureExact ==
    \A c \in Runs, s \in Streams :
        LET text  == SubSeq(run[c].written[s], 1, run[c].taken[s])
            cap   == run[c].cap[s]
            kept  == Min({HeadLimit(s), Len(text)})
            after == Min({TailLimit(s), Len(text) - kept})
        IN  /\ cap.total = Len(text)
            /\ cap.head = SubSeq(text, 1, kept)
            /\ cap.tail = SubSeq(text, Len(text) - after + 1, Len(text))
            /\ LinesOf(cap) = Cardinality(LineEnds(text))
                 + (IF text # <<>> /\ Len(text) \notin LineEnds(text) THEN 1 ELSE 0)

\* What a command that was not given up is reported to have printed is what it printed, up to
\* the middle that the capture drops and counts.
OutputExact == OutputComplete /\ CaptureExact

\* What is shown of the two streams together keeps the budget, one oversized line excepted, and
\* a stream that is not shown whole is marked (_render_captured_output).
DisplayFits ==
    \A c \in Runs :
        LET v == run[c].view
        IN  /\ Fits(v) \/ (v.oversized /\ v.shown = v.need)
            /\ \A s \in Streams : v.shown[s] # v.need[s] => s \in v.cut

\* A batch gives away all of its budget that is needed, and a text is cut only if no other one
\* gets more than it, but for the remainder of the division (_allocate_stream_token_budgets).
SharesFair ==
    reply.kind = "batch" =>
        LET given == reply.shares
        IN  /\ Sum(given, Keys) = Min({MaxTokens \div 2, Sum(Needs, Keys)})
            /\ \A k \in Keys : given[k] <= Needs[k]
            /\ \A j, k \in Keys : given[k] < Needs[k] => given[j] <= given[k] + 1

\* The token budget is kept by every answer and shared fairly among the texts of a batch.
BudgetKept == DisplayFits /\ SharesFair

Started(c)  == c \in Runs /\ run[c].pc # "queued"
Answered(c) == c \in Runs /\ run[c].pc = "answered"

\* A command that was started is answered, its deadline and the kill seeing to that, unless a
\* process that left the group goes on holding one of the pipes.
RunsEnd ==
    \A c \in 1 .. 2 : Started(c) ~> (Answered(c) \/ (c \in Runs /\ HeldOutside(c)))

\* The same without the exception; it does not hold: close() waits for the blocked read.
AlwaysAnswers ==
    \A c \in 1 .. 2 : Started(c) ~> Answered(c)
================================================================================
