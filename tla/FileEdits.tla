------------------------------ MODULE FileEdits ------------------------------
(***************************************************************************)
(* The tools that change files: replace (replacing.py), apply_patch        *)
(* (patching.py) and write_file (files.py), called by several server       *)
(* processes at once.  Batches of replacements cooperate through one lock  *)
(* per file; patches and whole-file writes take no lock.                   *)
(*                                                                         *)
(* A text is a sequence of lines.  A line written Bad stands for bytes     *)
(* that are not valid UTF-8, Mended for what decoding with replacement     *)
(* characters makes of them.                                               *)
(***************************************************************************)
EXTENDS Naturals, FiniteSets, Sequences, SequencesExt

CONSTANTS Files,      \* numbers: their order is the order of the paths
          Callers,    \* server processes; each performs one call at a time
          Calls,      \* the calls that may be made
          FirstDisk,  \* what the files hold at the start
          Bad, Mended, NoLine, None,
          MaxFaults   \* failing writes and process deaths together

ASSUME FilesAreNumbers == Files \subseteq Nat /\ IsFiniteSet(Files)
ASSUME NoneIsNobody == None \notin Callers \cup Calls
ASSUME DiskIsOfFiles == FirstDisk \in [Files -> Range(FirstDisk)]
ASSUME TextsAreOfLines == \A f \in Files : FirstDisk[f] \in Seq(Range(FirstDisk[f]))
ASSUME FaultsAreCounted == MaxFaults \in Nat

VARIABLES
  disk,       \* [Files -> text], Absent for a path that does not exist
  orphaned,   \* [Files -> callers whose open file has been replaced]
  lock,       \* [Files -> the holder of the exclusive lock, or None]
  pc,         \* [Callers -> what the call is doing]
  call,       \* [Callers -> the call made, or None]
  pos,        \* [Callers -> position in the ordered files or operations]
  plan,       \* [Callers -> sequence of planned changes]
  answer,     \* [Callers -> the answer the caller gets, or None]
  failed,     \* [Callers -> a restoration of the rollback has failed]
  faults,
  (* history *)
  wrote,      \* [Callers -> files the call has changed]
  late,       \* [Callers -> files changed by others since the call's last look]
  lost,       \* [Callers -> files whose unseen contents the call overwrote]
  base,       \* [Callers -> the disk when the patch was planned]
  ledger,     \* the disk as the successful batches alone leave it
  calm        \* nothing but complete batches has changed a file

places == << disk, orphaned, lock >>
local == << pc, call, pos, plan, answer, failed, faults >>
history == << wrote, late, lost, base, ledger, calm >>
vars == << disk, orphaned, lock, pc, call, pos, plan, answer,
           failed, faults, wrote, late, lost, base, ledger, calm >>

Absent == << NoLine >>

-----------------------------------------------------------------------------
(* Texts, rules and hunks. *)

Decodable(text) == Bad \notin Range(text)

(* _read_text decodes with errors="replace": what is written back differs. *)
ReadText(text) == [i \in DOMAIN text |-> IF text[i] = Bad THEN Mended ELSE text[i]]

Occurrences(text, line) == {i \in DOMAIN text : text[i] = line}

(* One rule of a batch, literal or regular: the first `count` occurrences,  *)
(* all of them when count is 0, unless they exceed the remaining budget.   *)
ApplyRule(state, rule, budget) ==
  LET found == Cardinality(Occurrences(state.text, rule.pattern))
      n == IF rule.count > 0 /\ rule.count < found THEN rule.count ELSE found
      Counted(i) == Cardinality({j \in Occurrences(state.text, rule.pattern) : j <= i})
  IN  IF ~state.ok \/ n > budget - state.used
      THEN [state EXCEPT !.ok = FALSE]
      ELSE [ok   |-> TRUE, used |-> state.used + n,
            text |-> [i \in DOMAIN state.text |->
                        IF state.text[i] = rule.pattern /\ Counted(i) <= n
                        THEN rule.replacement ELSE state.text[i]]]

ApplyRules(text, used, rules, budget) ==
  FoldLeft(LAMBDA s, r : ApplyRule(s, r, budget), [ok |-> TRUE, used |-> used, text |-> text], rules)

OldLines(hunk) == LET kept == SelectSeq(hunk, LAMBDA d : d.kind # "+")
                  IN  [i \in DOMAIN kept |-> kept[i].line]
NewLines(hunk) == LET kept == SelectSeq(hunk, LAMBDA d : d.kind # "-")
                  IN  [i \in DOMAIN kept |-> kept[i].line]

(* A hunk must change something and must be anchored by more than the      *)
(* lines it adds.                                                          *)
WellFormedHunk(hunk) ==
  LET kinds == {hunk[i].kind : i \in DOMAIN hunk}
  IN  kinds \cap {"+", "-"} # {} /\ kinds # {"+"}

WellFormedPatch(ops) ==
  \A i \in DOMAIN ops : ops[i].kind = "update" =>
    /\ ops[i].hunks # << >> \/ ops[i].to # ops[i].file
    /\ \A h \in DOMAIN ops[i].hunks : WellFormedHunk(ops[i].hunks[h])

SequenceMatches(lines, needle) ==
  IF needle = << >> THEN {}
  ELSE {i \in 1..(Len(lines) - Len(needle) + 1) :
          SubSeq(lines, i, i + Len(needle) - 1) = needle}

(* Every hunk is looked for in the text as the hunks before it left it,    *)
(* and must match at exactly one place.                                    *)
ApplyHunk(state, hunk) ==
  LET old == OldLines(hunk)
      places_ == SequenceMatches(state.text, old)
  IN  IF ~state.ok \/ Cardinality(places_) # 1 THEN [state EXCEPT !.ok = FALSE]
      ELSE LET at == CHOOSE i \in places_ : TRUE
           IN  [ok   |-> TRUE,
                text |-> SubSeq(state.text, 1, at - 1) \o NewLines(hunk)
                           \o SubSeq(state.text, at + Len(old), Len(state.text))]

ApplyHunks(text, hunks) == FoldLeft(ApplyHunk, [ok |-> TRUE, text |-> text], hunks)

-----------------------------------------------------------------------------
(* Planning: from a disk to the changes an operation makes of it.          *)

Refusal(kind) == [ok |-> FALSE, code |-> kind]
Change(kind, file, from, text) ==
  [ok |-> TRUE, kind |-> kind, file |-> file, from |-> from, text |-> text]

PlanUpdate(d, op) ==
  LET result == ApplyHunks(ReadText(d[op.file]), op.hunks)
  IN  CASE d[op.file] = Absent -> Refusal("file_not_found")
        [] d[op.file] # Absent /\ ~result.ok -> Refusal("patch_context")
        [] d[op.file] # Absent /\ result.ok /\ op.to # op.file /\ d[op.to] # Absent
             -> Refusal("target_exists")
        [] OTHER -> Change(IF op.to = op.file THEN "update" ELSE "move",
                           op.to, op.file, result.text)

PlanAdd(d, op) ==
  IF d[op.file] # Absent THEN Refusal("path_exists")
  ELSE Change("add", op.file, op.file, op.text)

PlanDelete(d, op) ==
  IF d[op.file] = Absent THEN Refusal("path_not_found")
  ELSE Change("delete", op.file, op.file, << >>)

PlanOp(d, op) ==
  CASE op.kind = "update" -> PlanUpdate(d, op)
    [] op.kind = "add"    -> PlanAdd(d, op)
    [] op.kind = "delete" -> PlanDelete(d, op)

(* The operations of a batch are grouped by file: their rules in the order *)
(* given, and one expected text (Absent when none is stated).              *)
OperationsOn(ops, f) == SelectSeq(ops, LAMBDA op : op.file = f)
RulesFor(ops, f) == LET mine == OperationsOn(ops, f)
                    IN  FlattenSeq([i \in DOMAIN mine |-> mine[i].rules])
ExpectedOf(ops, f) == Head(OperationsOn(ops, f)).expected
Unusable(ops) == \/ ops = << >>
                 \/ \E i, j \in DOMAIN ops :
                      ops[i].file = ops[j].file /\ ops[i].expected # ops[j].expected

(* The files of a batch in the order in which they are locked, planned,    *)
(* checked and written (PathsAsGiven: in the caller's order, a mutant).    *)
BatchFiles(ops) == {ops[i].file : i \in DOMAIN ops}
PathsAsGiven(ops) == FoldLeft(LAMBDA s, op : IF Contains(s, op.file) THEN s ELSE Append(s, op.file), << >>, ops)
OrderedPaths(ops) ==
  CHOOSE s \in [1..Cardinality(BatchFiles(ops)) -> BatchFiles(ops)] :
    \A i, j \in DOMAIN s : i < j => s[i] < s[j]

(* What the tools let through: requests with paths they have resolved.     *)
OpFiles(op) == IF op.kind = "update" THEN {op.file, op.to} ELSE {op.file}

ASSUME CallsAreRequests ==
  \A request \in Calls :
    /\ request.tool \in {"replace", "patch", "write"} /\ request.dry \in BOOLEAN
    /\ request.tool = "write" => request.file \in Files
    /\ request.tool # "write" => request.ops \in Seq(Range(request.ops))
    /\ request.tool = "replace" =>
         /\ BatchFiles(request.ops) \subseteq Files /\ request.max \in Nat
         /\ \A f \in Files : LET rules == RulesFor(request.ops, f)
              IN  rules \in Seq(Range(rules)) /\ \A i \in DOMAIN rules : rules[i].count \in Nat
    /\ request.tool = "patch" => \A i \in DOMAIN request.ops :
         request.ops[i].kind \in {"add", "delete", "update"} /\ OpFiles(request.ops[i]) \subseteq Files

(* The change to one file of a batch, after `used` replacements.           *)
PlanReplace(d, request, f, used) ==
  LET result == ApplyRules(d[f], used, RulesFor(request.ops, f), request.max)
  IN  CASE d[f] = Absent -> Refusal("file_not_found")
        [] d[f] # Absent /\ ExpectedOf(request.ops, f) \notin {Absent, d[f]}
             -> Refusal("revision_conflict")
        [] d[f] # Absent /\ ExpectedOf(request.ops, f) \in {Absent, d[f]}
             /\ ~Decodable(d[f]) -> Refusal("encoding_error")
        [] d[f] # Absent /\ ExpectedOf(request.ops, f) \in {Absent, d[f]}
             /\ Decodable(d[f]) /\ ~result.ok -> Refusal("max_replacements_exceeded")
        [] OTHER -> [ok |-> TRUE, kind |-> "replace", file |-> f, from |-> f,
                     before |-> d[f], text |-> result.text, used |-> result.used]

-----------------------------------------------------------------------------
(* Who changes what.                                                       *)

Init ==
  /\ disk = FirstDisk
  /\ orphaned = [f \in Files |-> {}]
  /\ lock = [f \in Files |-> None]
  /\ pc = [c \in Callers |-> "idle"]
  /\ call = [c \in Callers |-> None]
  /\ pos = [c \in Callers |-> 1]
  /\ plan = [c \in Callers |-> << >>]
  /\ answer = [c \in Callers |-> None]
  /\ failed = [c \in Callers |-> FALSE]
  /\ faults = 0
  /\ wrote = [c \in Callers |-> {}]
  /\ late = [c \in Callers |-> {}]
  /\ lost = [c \in Callers |-> {}]
  /\ base = [c \in Callers |-> FirstDisk]
  /\ ledger = FirstDisk
  /\ calm = TRUE

IsBatch(c) == call[c] # None /\ call[c].tool = "replace"

(* Bookkeeping of a change of file f by caller c: everyone else has looked *)
(* at an older text.                                                       *)
Noted(c, f) ==
  /\ wrote' = [wrote EXCEPT ![c] = @ \cup {f}]
  /\ late' = [d \in Callers |-> IF d = c THEN late[d] ELSE late[d] \cup {f}]

Fault == faults < MaxFaults /\ faults' = faults + 1

Goto(c, place) == pc' = [pc EXCEPT ![c] = place]
Answer(c, what) ==
  /\ answer' = [answer EXCEPT ![c] = what]
  /\ Goto(c, "returning")

Call(c, request) ==
  /\ pc[c] = "idle"
  /\ call' = [call EXCEPT ![c] = request]
  /\ \/ /\ request.tool = "replace" /\ Unusable(request.ops)
        /\ Answer(c, "invalid_arguments") /\ UNCHANGED << plan, base >>
     \/ /\ request.tool = "replace" /\ ~Unusable(request.ops)
        /\ Goto(c, "locking") /\ UNCHANGED << answer, plan, base >>
     \/ /\ request.tool = "patch" /\ ~WellFormedPatch(request.ops)
        /\ Answer(c, "invalid_patch") /\ UNCHANGED << plan, base >>
     \/ /\ request.tool = "patch" /\ WellFormedPatch(request.ops)
        /\ IF request.ops = << >> THEN Answer(c, "success") ELSE Goto(c, "planning") /\ UNCHANGED answer
        /\ base' = [base EXCEPT ![c] = disk] /\ UNCHANGED plan
     \/ /\ request.tool = "write"
        /\ plan' = [plan EXCEPT ![c] =
              << Change("write", request.file, request.file, request.text) >>]
        /\ IF request.dry THEN Answer(c, "success") ELSE Goto(c, "applying") /\ UNCHANGED answer
        /\ UNCHANGED base
  /\ late' = [late EXCEPT ![c] = {}]
  /\ UNCHANGED << places, pos, failed, faults, wrote, lost, ledger, calm >>

-----------------------------------------------------------------------------
(* replace_files                                                           *)

Path(c) == OrderedPaths(call[c].ops)[pos[c]]
LastPath(c) == pos[c] = Len(OrderedPaths(call[c].ops))

(* One step of a loop over the ordered files, on to `next` at its end.     *)
Advance(c, next) ==
  IF LastPath(c) THEN /\ Goto(c, next) /\ pos' = [pos EXCEPT ![c] = 1]
                 ELSE /\ pos' = [pos EXCEPT ![c] = @ + 1] /\ UNCHANGED pc

(* Mutant: the lock does not exclude other batches. *)
LockPathShared(c) ==
  /\ pc[c] = "locking"
  /\ lock' = [lock EXCEPT ![Path(c)] = c]
  /\ Advance(c, "planning")
  /\ UNCHANGED << disk, orphaned, call, plan, answer, failed, faults, history >>

LockPath(c) ==
  /\ pc[c] = "locking"
  /\ lock[Path(c)] = None
  /\ lock' = [lock EXCEPT ![Path(c)] = c]
  /\ Advance(c, "planning")
  /\ UNCHANGED << disk, orphaned, call, plan, answer, failed, faults, history >>

PlannedPath(c) ==
  PlanReplace(disk, call[c], Path(c), IF plan[c] = << >> THEN 0 ELSE Last(plan[c]).used)

PlanPath(c) ==
  /\ pc[c] = "planning" /\ IsBatch(c)
  /\ LET p == PlannedPath(c)
     IN  IF p.ok THEN /\ plan' = [plan EXCEPT ![c] = Append(@, p)]
                      /\ Advance(c, "checking")
                      /\ UNCHANGED answer
         ELSE Answer(c, p.code) /\ UNCHANGED << plan, pos >>
  /\ UNCHANGED << places, call, failed, faults, history >>

(* The recheck right before the first write.                               *)
RecheckPath(c) ==
  /\ pc[c] = "checking"
  /\ IF disk[Path(c)] # plan[c][pos[c]].before
     THEN Answer(c, "revision_conflict") /\ UNCHANGED << pos, late >>
     ELSE /\ IF ~LastPath(c) THEN Advance(c, "checking") /\ UNCHANGED answer
             ELSE IF call[c].dry THEN Answer(c, "success") /\ UNCHANGED pos
             ELSE Advance(c, "writing") /\ UNCHANGED answer
          /\ late' = [late EXCEPT ![c] = @ \ {Path(c)}]
  /\ UNCHANGED << places, call, plan, failed, faults, wrote, lost, base, ledger, calm >>

(* Callers that have truncated file f and not written it yet.              *)
Filling(f) == {d \in Callers : pc[d] = "filling" /\ plan[d][pos[d]].file = f}

(* _atomic_write puts a complete new file in the place of the old one; a   *)
(* file that somebody has open for writing is theirs alone from then on.   *)
ReplaceFile(c, f, text) ==
  /\ disk' = [disk EXCEPT ![f] = text]
  /\ orphaned' = [orphaned EXCEPT ![f] = @ \cup Filling(f)]
  /\ Noted(c, f)

(* Only files that the rules change are written.                           *)
Unchanged(c) == plan[c][pos[c]].before = plan[c][pos[c]].text

SkipPath(c) ==
  /\ pc[c] = "writing" /\ Unchanged(c)
  /\ IF LastPath(c) THEN Answer(c, "success") /\ UNCHANGED pos
                    ELSE Advance(c, "writing") /\ UNCHANGED answer
  /\ UNCHANGED << places, call, plan, failed, faults, history >>

WritePath(c) ==
  /\ pc[c] = "writing" /\ ~Unchanged(c)
  /\ ReplaceFile(c, Path(c), plan[c][pos[c]].text)
  /\ lost' = [lost EXCEPT ![c] = IF disk[Path(c)] = plan[c][pos[c]].before THEN @ ELSE @ \cup {Path(c)}]
  /\ Goto(c, "verifying")
  /\ UNCHANGED << lock, call, pos, plan, answer, failed, faults, base, ledger, calm >>

VerifyPath(c) ==
  /\ pc[c] = "verifying"
  /\ IF disk[Path(c)] # plan[c][pos[c]].text
     THEN Goto(c, "restoring") /\ UNCHANGED << pos, answer >>
     ELSE IF LastPath(c) THEN Answer(c, "success") /\ UNCHANGED pos
     ELSE Goto(c, "writing") /\ pos' = [pos EXCEPT ![c] = @ + 1] /\ UNCHANGED answer
  /\ UNCHANGED << places, call, plan, failed, faults, history >>

(* The rollback goes backwards over the attempted files and does not stop  *)
(* at one that cannot be restored.                                         *)
AfterRestoring(c, bad) ==
  IF \E i \in 1..(pos[c] - 1) : plan[c][i].before # plan[c][i].text
  THEN /\ pos' = [pos EXCEPT ![c] = CHOOSE i \in 1..(@ - 1) :
             /\ plan[c][i].before # plan[c][i].text
             /\ \A j \in (i + 1)..(@ - 1) : plan[c][j].before = plan[c][j].text]
       /\ Goto(c, "restoring") /\ UNCHANGED answer
  ELSE UNCHANGED pos /\ Answer(c, IF bad THEN "rollback_failed" ELSE "rolled_back")

(* Mutant: a file counts as attempted only once its write has returned. *)
WriteFailsUnattempted(c) ==
  /\ pc[c] = "writing" /\ ~Unchanged(c)
  /\ Fault
  /\ \/ /\ ReplaceFile(c, Path(c), plan[c][pos[c]].text)
        /\ lost' = [lost EXCEPT ![c] = IF disk[Path(c)] = plan[c][pos[c]].before THEN @ ELSE @ \cup {Path(c)}]
     \/ UNCHANGED << disk, orphaned, wrote, late, lost >>
  /\ AfterRestoring(c, FALSE)
  /\ UNCHANGED << lock, call, plan, failed, base, ledger, calm >>

(* The write fails, before the new file is in place or after it (fsync of  *)
(* the directory): the file counts as attempted either way.                *)
WriteFails(c) ==
  /\ pc[c] = "writing" /\ ~Unchanged(c)
  /\ Fault
  /\ \/ /\ ReplaceFile(c, Path(c), plan[c][pos[c]].text)
        /\ lost' = [lost EXCEPT ![c] = IF disk[Path(c)] = plan[c][pos[c]].before THEN @ ELSE @ \cup {Path(c)}]
     \/ UNCHANGED << disk, orphaned, wrote, late, lost >>
  /\ Goto(c, "restoring")
  /\ UNCHANGED << lock, call, pos, plan, answer, failed, base, ledger, calm >>

RestorePath(c) ==
  /\ pc[c] = "restoring"
  /\ ReplaceFile(c, Path(c), plan[c][pos[c]].before)
  /\ lost' = [lost EXCEPT ![c] =
       IF disk[Path(c)] \in {plan[c][pos[c]].before, plan[c][pos[c]].text} THEN @ ELSE @ \cup {Path(c)}]
  /\ Goto(c, "confirming")
  /\ UNCHANGED << lock, call, pos, plan, answer, failed, faults, base, ledger, calm >>

ConfirmRestored(c) ==
  /\ pc[c] = "confirming"
  /\ LET bad == failed[c] \/ disk[Path(c)] # plan[c][pos[c]].before
     IN  /\ failed' = [failed EXCEPT ![c] = bad]
         /\ AfterRestoring(c, bad)
         /\ calm' = (calm /\ ~bad)
  /\ UNCHANGED << places, call, plan, faults, wrote, late, lost, base, ledger >>

RestoreFails(c) ==
  /\ pc[c] = "restoring"
  /\ Fault
  /\ failed' = [failed EXCEPT ![c] = TRUE]
  /\ AfterRestoring(c, TRUE)
  /\ calm' = FALSE
  /\ UNCHANGED << places, call, plan, wrote, late, lost, base, ledger >>

(* History: the same batch on the disk that the successful batches before  *)
(* it have left.                                                           *)
Replayed(d, request) ==
  [f \in Files |-> IF f \in BatchFiles(request.ops)
                   THEN ApplyRules(d[f], 0, RulesFor(request.ops, f), request.max).text ELSE d[f]]

(* Mutant: an answer other than success keeps its locks. *)
ReturnBatchKeepsLocks(c) ==
  /\ pc[c] = "returning" /\ IsBatch(c)
  /\ lock' = [f \in Files |-> IF lock[f] = c /\ answer[c] = "success" THEN None ELSE lock[f]]
  /\ Goto(c, "done")
  /\ ledger' = IF answer[c] = "success" /\ ~call[c].dry THEN Replayed(ledger, call[c]) ELSE ledger
  /\ UNCHANGED << disk, orphaned, call, pos, plan, answer, failed, faults,
                  wrote, late, lost, base, calm >>

(* Leaving replace_files releases all locks.                               *)
ReturnBatch(c) ==
  /\ pc[c] = "returning" /\ IsBatch(c)
  /\ lock' = [f \in Files |-> IF lock[f] = c THEN None ELSE lock[f]]
  /\ Goto(c, "done")
  /\ ledger' = IF answer[c] = "success" /\ ~call[c].dry THEN Replayed(ledger, call[c]) ELSE ledger
  /\ UNCHANGED << disk, orphaned, call, pos, plan, answer, failed, faults,
                  wrote, late, lost, base, calm >>

-----------------------------------------------------------------------------
(* apply_patch and write_file                                              *)

(* All operations are planned from the disk before any of them is applied. *)
PlannedOperation(c) == PlanOp(disk, call[c].ops[pos[c]])

PlanOperation(c) ==
  /\ pc[c] = "planning" /\ ~IsBatch(c)
  /\ LET p == PlannedOperation(c)
     IN  IF ~p.ok THEN Answer(c, p.code) /\ UNCHANGED << pos, plan >>
         ELSE /\ plan' = [plan EXCEPT ![c] = Append(@, p)]
              /\ IF pos[c] < Len(call[c].ops) THEN pos' = [pos EXCEPT ![c] = @ + 1] /\ UNCHANGED << pc, answer >>
                 ELSE /\ pos' = [pos EXCEPT ![c] = 1]
                      /\ IF call[c].dry THEN Answer(c, "success")
                                        ELSE Goto(c, "applying") /\ UNCHANGED answer
  /\ UNCHANGED << places, call, failed, faults, history >>

Item(c) == plan[c][pos[c]]

NextItem(c) ==
  IF pos[c] = Len(plan[c]) THEN Answer(c, "success") /\ UNCHANGED pos
  ELSE Goto(c, "applying") /\ pos' = [pos EXCEPT ![c] = @ + 1] /\ UNCHANGED answer

Unlink(c, f) ==
  IF disk[f] = Absent
  THEN Answer(c, "os_error") /\ UNCHANGED << disk, orphaned, pos, wrote, late, calm >>
  ELSE /\ disk' = [disk EXCEPT ![f] = Absent]
       /\ orphaned' = [orphaned EXCEPT ![f] = @ \cup Filling(f)]
       /\ Noted(c, f) /\ calm' = FALSE
       /\ NextItem(c)

ApplyDelete(c) ==
  /\ pc[c] = "applying" /\ Item(c).kind = "delete"
  /\ Unlink(c, Item(c).file)
  /\ UNCHANGED << lock, call, plan, failed, faults, lost, base, ledger >>

(* write_text truncates the file when it opens it ...                      *)
OpenForWriting(c) ==
  /\ pc[c] = "applying" /\ Item(c).kind # "delete"
  /\ disk' = [disk EXCEPT ![Item(c).file] = << >>]
  /\ Noted(c, Item(c).file) /\ calm' = FALSE
  /\ Goto(c, "filling")
  /\ UNCHANGED << orphaned, lock, call, pos, plan, answer, failed, faults, lost, base, ledger >>

(* Mutant: the old name of a moved file stays. *)
FillFileKeepsOld(c) ==
  /\ pc[c] = "filling"
  /\ IF c \in orphaned[Item(c).file]
     THEN UNCHANGED << disk, wrote, late >>
     ELSE /\ disk' = [disk EXCEPT ![Item(c).file] = Item(c).text]
          /\ Noted(c, Item(c).file)
  /\ orphaned' = [orphaned EXCEPT ![Item(c).file] = @ \ {c}]
  /\ NextItem(c)
  /\ UNCHANGED << lock, call, plan, failed, faults, lost, base, ledger, calm >>

(* ... and writes it afterwards, into the file it has open.                *)
FillFile(c) ==
  /\ pc[c] = "filling"
  /\ IF c \in orphaned[Item(c).file]
     THEN UNCHANGED << disk, wrote, late >>
     ELSE /\ disk' = [disk EXCEPT ![Item(c).file] = Item(c).text]
          /\ Noted(c, Item(c).file)
  /\ orphaned' = [orphaned EXCEPT ![Item(c).file] = @ \ {c}]
  /\ IF Item(c).kind = "move" THEN Goto(c, "unlinking") /\ UNCHANGED << pos, answer >>
                              ELSE NextItem(c)
  /\ UNCHANGED << lock, call, plan, failed, faults, lost, base, ledger, calm >>

UnlinkOld(c) ==
  /\ pc[c] = "unlinking"
  /\ Unlink(c, Item(c).from)
  /\ UNCHANGED << lock, call, plan, failed, faults, lost, base, ledger >>

(* An OSError is not caught: what was applied before stays.                *)
ApplyFails(c) ==
  /\ pc[c] \in {"applying", "filling", "unlinking"}
  /\ Fault
  /\ Answer(c, "os_error")
  /\ orphaned' = [orphaned EXCEPT ![Item(c).file] = @ \ {c}]
  /\ UNCHANGED << disk, lock, call, pos, plan, failed, history >>

ReturnChange(c) ==
  /\ pc[c] = "returning" /\ ~IsBatch(c)
  /\ Goto(c, "done")
  /\ UNCHANGED << places, call, pos, plan, answer, failed, faults, history >>

(* The process is killed; the system releases its locks.                   *)
Dies(c) ==
  /\ pc[c] \notin {"idle", "done", "dead"}
  /\ Fault
  /\ Goto(c, "dead")
  /\ lock' = [f \in Files |-> IF lock[f] = c THEN None ELSE lock[f]]
  /\ orphaned' = [f \in Files |-> orphaned[f] \ {c}]
  /\ calm' = (calm /\ wrote[c] = {})
  /\ UNCHANGED << disk, call, pos, plan, answer, failed, wrote, late, lost, base, ledger >>

BatchStep(c) ==
  \/ LockPath(c) \/ PlanPath(c) \/ RecheckPath(c) \/ SkipPath(c) \/ WritePath(c)
  \/ VerifyPath(c) \/ RestorePath(c) \/ ConfirmRestored(c) \/ ReturnBatch(c)

ChangeStep(c) ==
  \/ PlanOperation(c) \/ ApplyDelete(c) \/ OpenForWriting(c) \/ FillFile(c)
  \/ UnlinkOld(c) \/ ReturnChange(c)

Next == \E c \in Callers :
  \/ \E request \in Calls : Call(c, request)
  \/ BatchStep(c)
  \/ ChangeStep(c)
  \/ WriteFails(c)
  \/ RestoreFails(c)
  \/ ApplyFails(c)
  \/ Dies(c)

Spec == Init /\ [][Next]_vars

(* A process that runs a call goes on with it.                             *)
FairSpec == Spec /\ \A c \in Callers : WF_vars(BatchStep(c)) /\ WF_vars(ChangeStep(c))

-----------------------------------------------------------------------------
Places == {"idle", "locking", "planning", "checking", "writing", "verifying", "restoring",
           "confirming", "applying", "filling", "unlinking", "returning", "done", "dead"}

(* Type invariant; a call holds locks only while it runs, and positions    *)
(* stay within the plan they index.                                        *)
TypeOK ==
  /\ \A f \in Files : lock[f] \in Callers \cup {None} /\ orphaned[f] \subseteq Callers
  /\ \A c \in Callers :
       /\ pc[c] \in Places /\ pos[c] \in Nat \ {0} /\ failed[c] \in BOOLEAN
       /\ wrote[c] \cup late[c] \cup lost[c] \subseteq Files
       /\ pc[c] \in {"checking", "writing", "verifying", "restoring", "confirming",
                     "applying", "filling", "unlinking"} => pos[c] \in DOMAIN plan[c]
  /\ \A f \in Files : lock[f] # None => IsBatch(lock[f]) /\ pc[lock[f]] \notin {"idle", "done", "dead"}
  /\ faults \in 0..MaxFaults /\ calm \in BOOLEAN

(* replacing.py, "all-or-nothing for cooperative writers": when            *)
(* replace_files is about to return, its files hold all of its changes     *)
(* after success and none of them after any other answer but a failed      *)
(* rollback; files that others have changed since the recheck excepted.    *)
AllOrNothing ==
  \A c \in Callers : pc[c] = "returning" /\ IsBatch(c) =>
    \A i \in DOMAIN plan[c] :
      plan[c][i].file \notin late[c] =>
        /\ answer[c] = "success" =>
             disk[plan[c][i].file] = IF call[c].dry THEN plan[c][i].before ELSE plan[c][i].text
        /\ answer[c] = "rolled_back" => disk[plan[c][i].file] = plan[c][i].before
        /\ answer[c] \notin {"success", "rolled_back", "rollback_failed"} => plan[c][i].file \notin wrote[c]

(* Cooperating batches do not lose each other's replacements: as long as   *)
(* only complete batches have changed files, every file that nobody holds  *)
(* is what the successful batches make of the first disk one after the     *)
(* other in the order in which they returned.                              *)
BatchesSerial == calm => \A f \in Files : lock[f] = None => disk[f] = ledger[f]

(* The recheck of replace_files: contents that a batch overwrites without  *)
(* having planned on them were written by others after it looked last.     *)
OverwritesOnlyLateChanges == \A c \in Callers : lost[c] \subseteq late[c]

(* A patch that is refused (PatchError) has changed nothing: all of it is  *)
(* planned before any of it is applied.                                    *)
RefusedChangesNothing ==
  \A c \in Callers : answer[c] \notin {None, "success", "rolled_back", "rollback_failed", "os_error"}
                       => wrote[c] = {}

(* What replace and apply_patch answer agrees with what they have changed. *)
AnswersTrue == AllOrNothing /\ RefusedChangesNothing

(* A batch overwrites neither the replacements of another batch nor what   *)
(* others wrote before its recheck.                                        *)
ChangesSeen == BatchesSerial /\ OverwritesOnlyLateChanges

(* Reference: the operations of a patch one after the other, each from     *)
(* what the one before it left.                                            *)
Sequentially(d, ops) ==
  FoldLeft(LAMBDA e, op :
             LET p == PlanOp(e, op)
             IN  CASE ~p.ok -> e
                   [] p.ok /\ p.kind = "delete" -> [e EXCEPT ![p.file] = Absent]
                   [] p.ok /\ p.kind = "move" -> [e EXCEPT ![p.file] = p.text, ![p.from] = Absent]
                   [] OTHER -> [e EXCEPT ![p.file] = p.text],
           d, ops)

PatchFiles(ops) == UNION {OpFiles(ops[i]) : i \in DOMAIN ops}
Distinct(ops) == \A i, j \in DOMAIN ops : i # j => OpFiles(ops[i]) \cap OpFiles(ops[j]) = {}

PatchDone(c) == /\ pc[c] = "returning" /\ answer[c] = "success"
                /\ call[c].tool = "patch" /\ ~call[c].dry

(* A patch that names every file once and is answered with success leaves  *)
(* the files of each of its operations as the operations applied in order  *)
(* would, unless somebody else changed one of the two files of that        *)
(* operation after the patch was called.                                   *)
PatchIsSequential ==
  \A c \in Callers : PatchDone(c) /\ Distinct(call[c].ops) =>
    \A i \in DOMAIN call[c].ops : LET touched == OpFiles(call[c].ops[i])
      IN  touched \cap late[c] = {} =>
            \A f \in touched : disk[f] = Sequentially(base[c], call[c].ops)[f]

(* The same without the condition on the names: every hunk that the answer *)
(* counts as applied is in the file.  Two operations on one file are both  *)
(* planned from the file on disk, and the second overwrites the first.     *)
EveryOperationArrives ==
  \A c \in Callers : PatchDone(c) =>
    \A f \in PatchFiles(call[c].ops) \ late[c] :
      disk[f] = Sequentially(base[c], call[c].ops)[f]

(* Batches over overlapping sets of files never wait for each other in a   *)
(* circle: every call ends, with an answer or with its process.            *)
CallsEnd == \A c \in Callers : pc[c] \notin {"idle", "done", "dead"} ~> pc[c] \in {"done", "dead"}
==============================================================================
