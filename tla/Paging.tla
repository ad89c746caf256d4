-------------------------------- MODULE Paging --------------------------------
(***************************************************************************)
(* A reader who goes on where the last page ended until a tool says that   *)
(* there is no more: list_files, search, read, code_map and hexadecimal    *)
(* reads (items), read_text (lines, and files for a batch of paths),       *)
(* job_list (jobs), git_diff and git_show (diff), searches in the contents *)
(* of files (grep) and job_output, whose log grows while it is read (log). *)
(* What is read other than a log does not change meanwhile.                *)
(***************************************************************************)
EXTENDS GrepStream

CONSTANTS
    Sources,        \* what may be read
    Limits,         \* limit of a page: a number of items, 0 for any
    ByteLimits,     \* max_bytes of a page
    LogLimit        \* bytes a job may write

\* The schemas of the tools admit no negative number; what is read has its size.
ASSUME ReadingAssumption ==
    /\ Limits \subseteq Nat /\ ByteLimits \subseteq Nat \ {0} /\ LogLimit \in Nat
    /\ \A s \in Sources :
        /\ s.kind \in {"items", "lines", "jobs", "files", "diff", "grep", "log"}
        /\ s.kind \in {"items", "lines", "jobs"} => s.sizes \in Seq(Nat \ {0})
        /\ s.kind = "items" => s.envelope \in Nat /\ s.wrapper \in Nat
        /\ s.kind = "lines" => s.bytes \in Seq(Nat) /\ Len(s.bytes) = Len(s.sizes)
        /\ s.kind = "jobs"  => s.envelope \in Nat /\ s.warnings \in Nat
        /\ s.kind = "diff"  => s.chars \in Seq({1, 2}) /\ s.envelope \in Nat
        /\ s.kind = "files" => s.files \in Seq(Seq(Nat \ {0})) /\ s.envelope \in Nat /\ s.perFile \in Nat
        /\ s.kind = "log"   => s.leftover \in BOOLEAN

VARIABLES
    src,        \* what is read
    cursor,     \* the offset of the next page
    got,        \* what has been read, in order
    rest,       \* of a batch of files: those whose own pages go on, and where
    page,       \* the page answered last
    phase,      \* open until a page is the last one
    log,        \* the bytes of the log
    status,     \* of the job: running, over
    call,       \* the call of job_output in progress
    scan        \* the search in progress, and the events it has not read

vars == <<src, cursor, got, rest, page, phase, log, status, call, scan>>

NoPage == PageOf(<<>>, 0, FALSE, "none")
Idle   == [at |-> "idle", max |-> 0, terminal |-> FALSE, size |-> 0, raw |-> <<>>]
NoScan == [on |-> FALSE, limit |-> 0, c |-> Collector, events |-> <<>>, bad |-> FALSE]

Init ==
    /\ src \in Sources
    /\ cursor = 0 /\ got = <<>> /\ rest = {} /\ page = NoPage /\ phase = "open"
    /\ log = <<>> /\ status = "running" /\ call = Idle /\ scan = NoScan

(***************************************************************************)
(* Tools that answer from what is there when they are asked                *)
(***************************************************************************)
Pages(limit, maxBytes) ==
    CASE src.kind = "items" -> Collected(src, cursor, limit)
      [] src.kind = "lines" -> Lines(src, cursor, limit)
      [] src.kind = "jobs"  -> Jobs(src, cursor, Max({1, limit}))
      [] src.kind = "diff"  -> Diff(src, cursor, maxBytes)

\* Of a diff, a reader asks for at least a character.
Ask(limit, maxBytes) ==
    /\ src.kind \notin {"log", "files", "grep"} /\ phase = "open"
    /\ src.kind = "diff" => maxBytes >= 2
    /\ page'   = Pages(limit, maxBytes)
    /\ cursor' = page'.next
    /\ got'    = got \o page'.items
    /\ phase'  = IF page'.more THEN "open" ELSE "done"
    /\ UNCHANGED <<src, rest, log, status, call, scan>>

\* The lines of a result of a batch, and where the file goes on.
LinesOf(results) ==
    FlattenSeq([r \in 1 .. Len(results) |->
                   [i \in 1 .. results[r].lines |-> <<results[r].path, i>>]])

AskBatch ==
    /\ src.kind = "files" /\ phase = "open"
    /\ LET answer == Files(src, cursor)
       IN  /\ page' = [answer EXCEPT !.items = LinesOf(@)]
           /\ rest' = rest \cup {[path |-> r.path, next |-> r.next] :
                                    r \in {x \in Range(answer.items) : x.more}}
    /\ cursor' = page'.next
    /\ got'    = got \o page'.items
    /\ phase'  = IF page'.more THEN "open" ELSE "done"
    /\ UNCHANGED <<src, log, status, call, scan>>

\* The pages of a file of the batch, which read_text gives for its path alone.
RestOf(file, limit) ==
    LET lines == Lines([sizes |-> src.files[file.path], bytes |-> src.files[file.path]],
                       file.next, limit)
    IN  [lines EXCEPT !.items = [i \in DOMAIN @ |-> <<file.path, @[i]>>]]

AskRest(file, limit) ==
    /\ src.kind = "files" /\ file \in rest
    /\ page' = RestOf(file, limit)
    /\ got'  = got \o page'.items
    /\ rest' = (rest \ {file}) \cup
               (IF page'.more THEN {[file EXCEPT !.next = page'.next]} ELSE {})
    /\ UNCHANGED <<src, cursor, phase, log, status, call, scan>>

(***************************************************************************)
(* search in the contents of files                                         *)
(***************************************************************************)
Query == [search |-> src, offset |-> cursor, limit |-> scan.limit]

AskGrep(limit) ==
    /\ src.kind = "grep" /\ phase = "open" /\ ~ scan.on
    /\ scan' = [on |-> TRUE, limit |-> limit, c |-> Collector, events |-> Readable(src),
                bad |-> src.bad \in 1 .. Len(Stream(src))]
    /\ UNCHANGED <<src, cursor, got, rest, page, phase, log, status, call>>

ReadEvent ==
    /\ scan.on /\ scan.c.stop = "none" /\ scan.events # <<>>
    /\ scan' = [scan EXCEPT !.c = Consumed(Query, @, Head(scan.events)), !.events = Tail(@)]
    /\ UNCHANGED <<src, cursor, got, rest, page, phase, log, status, call>>

ReadMalformed ==
    /\ scan.on /\ scan.c.stop = "none" /\ scan.events = <<>> /\ scan.bad
    /\ scan' = [scan EXCEPT !.c.stop = "malformed", !.bad = FALSE]
    /\ UNCHANGED <<src, cursor, got, rest, page, phase, log, status, call>>

AnswerGrep ==
    /\ scan.on
    /\ scan.c.stop # "none" \/ (scan.events = <<>> /\ ~ scan.bad)
    /\ page'   = Grep(Query, Finished(Query, scan.c))
    /\ cursor' = page'.next
    /\ got'    = got \o page'.items
    /\ phase'  = IF page'.more THEN "open" ELSE "done"
    /\ scan'   = NoScan
    /\ UNCHANGED <<src, rest, log, status, call>>

ScanStep == ReadEvent \/ ReadMalformed \/ AnswerGrep

(***************************************************************************)
(* The job (external): it writes, it ends, and what it started may still   *)
(* write when its supervisor has recorded the end.                         *)
(***************************************************************************)
Write(byte) ==
    /\ src.kind = "log" /\ Len(log) < LogLimit
    /\ status = "running" \/ src.leftover
    /\ log' = Append(log, byte)
    /\ UNCHANGED <<src, cursor, got, rest, page, phase, status, call, scan>>

JobEnds ==
    /\ src.kind = "log" /\ status = "running"
    /\ status' = "over"
    /\ UNCHANGED <<src, cursor, got, rest, page, phase, log, call, scan>>

(***************************************************************************)
(* job_output                                                              *)
(***************************************************************************)
\* A reader who has been told how many bytes the next character takes asks for no fewer.
AskLog(maxBytes) ==
    /\ src.kind = "log" /\ phase = "open" /\ call.at = "idle"
    /\ page.note = "minimum_max_bytes" => maxBytes >= 2
    /\ call' = [Idle EXCEPT !.at = "status", !.max = maxBytes]
    /\ UNCHANGED <<src, cursor, got, rest, page, phase, log, status, scan>>

\* The status is read again whether or not the call has waited for bytes or for the end.
ReadStatus ==
    /\ call.at = "status"
    /\ call' = [call EXCEPT !.at = "size", !.terminal = status = "over"]
    /\ UNCHANGED <<src, cursor, got, rest, page, phase, log, status, scan>>

ReadSize ==
    /\ call.at = "size"
    /\ call' = [call EXCEPT !.at = "bytes", !.size = Len(log)]
    /\ UNCHANGED <<src, cursor, got, rest, page, phase, log, status, scan>>

ReadBytes ==
    /\ call.at = "bytes"
    /\ call' = [call EXCEPT !.at = "answer",
                            !.raw = SubSeq(log, cursor + 1,
                                           cursor + Min({call.max, call.size - cursor}))]
    /\ UNCHANGED <<src, cursor, got, rest, page, phase, log, status, scan>>

\* What remains of a log that nothing is expected to extend is decoded to its end.
LogAnswer(size, terminal) ==
    LogPage(cursor, call.raw, terminal /\ cursor + Len(call.raw) >= size, size, Room)

AnswerWith(size, terminal) ==
    /\ call.at = "answer"
    /\ page'   = LogAnswer(size, terminal)
    /\ cursor' = page'.next
    /\ got'    = got \o page'.items
    /\ phase'  = IF page'.next = size /\ terminal THEN "done" ELSE "open"
    /\ call'   = Idle
    /\ UNCHANGED <<src, rest, log, status, scan>>

\* MUTANT of Answer: the status is read last, and the size no more.
AnswerStatusLast == AnswerWith(call.size, status = "over")

\* The size is read once more.
Answer == AnswerWith(Len(log), call.terminal)

CallStep == ReadStatus \/ ReadSize \/ ReadBytes \/ Answer

Next ==
    \/ \E limit \in Limits, maxBytes \in ByteLimits : Ask(limit, maxBytes)
    \/ AskBatch
    \/ \E file \in rest, limit \in Limits : AskRest(file, limit)
    \/ \E byte \in Bytes : Write(byte)
    \/ JobEnds
    \/ \E maxBytes \in ByteLimits : AskLog(maxBytes)
    \/ CallStep
    \/ \E limit \in Limits : AskGrep(limit)
    \/ ScanStep

Spec == Init /\ [][Next]_vars

(***************************************************************************)
(* Properties                                                              *)
(***************************************************************************)
Whole ==
    CASE src.kind \in {"items", "lines", "jobs"} -> Span(0, Len(src.sizes))
      [] src.kind = "diff"  -> Span(0, Len(src.chars))
      [] src.kind = "grep"  -> Found(src)
      [] src.kind = "files" -> LinesOf([p \in 1 .. Len(src.files) |->
                                           [path |-> p, lines |-> Len(src.files[p])]])
      [] src.kind = "log"   -> UnitsOf(log, TRUE).units

\* Offsets stay within what is read, and a call and what it was told are of their kinds.
TypeOK ==
    /\ cursor \in 0 .. (CASE src.kind = "diff"  -> Total(src.chars)
                          [] src.kind = "log"   -> Len(log)
                          [] src.kind = "files" -> Len(src.files)
                          [] OTHER              -> Len(Whole))
    /\ \A file \in rest : file.next \in 0 .. Len(src.files[file.path]) - 1
    /\ phase \in {"open", "done"} /\ status \in {"running", "over"}
    /\ log \in BoundedSeq(Bytes, LogLimit)
    /\ call.at \in {"idle", "status", "size", "bytes", "answer"}
    /\ call.max \in {0} \cup ByteLimits /\ call.terminal \in BOOLEAN
    /\ call.size \in 0 .. Len(log) /\ Len(call.raw) <= call.max
    /\ Len(scan.c.pending) <= MaxPending

\* Where a match is, without the lines around it.
Places(items) == IF src.kind # "grep" THEN items
                 ELSE [i \in 1 .. Len(items) |-> <<items[i].path, items[i].first, items[i].last>>]

\* How much of the whole the pages so far have said they carry.
Upto == CASE src.kind = "diff" -> CharsUpTo(src.chars, cursor)
          [] src.kind = "log"  -> Len(got)
          [] OTHER             -> cursor

\* How many lines of a file of a batch the pages so far have said they carry.
UptoIn(path) ==
    LET open == {file \in rest : file.path = path}
    IN  IF path > cursor THEN 0
        ELSE IF open = {} THEN Len(src.files[path])
        ELSE (CHOOSE file \in open : TRUE).next

\* Lines of the same file are in their order, and none is there twice.
InOrder(lines) ==
    \A j, k \in DOMAIN lines :
        j < k /\ lines[j][1] = lines[k][1] => lines[j][2] < lines[k][2]

\* While a reader goes on as the pages say, what he has is the beginning of what is there: no
\* item, line or byte is passed over or repeated where one page ends and the next begins, be it
\* because the tool took items out again, because a file of a batch was shortened, because a
\* match was held back for its context, or because a character was not all written yet.
NothingLost ==
    IF src.kind = "files"
    THEN /\ InOrder(got)
         /\ \A path \in 1 .. Len(src.files) :
                {line \in Range(got) : line[1] = path} = {<<path, i>> : i \in 1 .. UptoIn(path)}
    ELSE phase = "open" => Places(got) = SubSeq(Places(Whole), 1, Upto)

\* A page begins where the last one ended, and within what is read.
PagesJoin == TypeOK /\ NothingLost

\* When a tool says that there is no more, everything that was there at that moment has been
\* read. For a log this takes a status that was read before the size. What is read excepts a
\* summary whose stream of events is cut: it is reported as complete (search.py:1016).
EndMeansAll ==
    [][ phase' = "done" /\ phase = "open"
        => IF src.kind = "files" THEN cursor' = Len(src.files) ELSE Places(got') = Places(Whole') ]_vars

\* Every match comes with the lines around it that before and after ask for, whichever page it is
\* on and however many other matches those lines hold. What is read excepts matches of several
\* lines that adjoin: ripgrep joins them, against the comment at search.py:472.
ContextsExact == src.kind = "grep" => got = SubSeq(Whole, 1, Len(got))

\* What was parsed before an event that cannot be is not taken back.
ParsedIsKept ==
    (src.kind = "grep" /\ page.note = "malformed") => cursor >= Parsed(src)

\* Where nothing is larger than a page, no search is cut, and the reader of a log whose job has
\* ended asks for a character.
Readily ==
    CASE src.kind \in {"lines", "jobs"} -> TRUE
      [] src.kind = "items" ->
            \A i \in DOMAIN src.sizes : src.sizes[i] + src.envelope + src.wrapper <= Room
      [] src.kind = "diff"  -> src.envelope < Room
      [] src.kind = "files" -> src.envelope + src.perFile <= Room
      [] src.kind = "grep"  ->
            /\ src.bad = 0
            /\ \A i \in DOMAIN Whole : Cost(Whole[i]) + src.envelope + src.wrapper <= Room
            /\ (src.after = 0 /\ src.whole) \/ Len(Whole) <= MaxPending
      [] src.kind = "log"   -> call.terminal /\ ~ src.leftover /\ call.max >= 2 /\ call.size > cursor

\* Nobody asks for the same page for ever: a page after which there is more carries something, and
\* lines and jobs are carried whatever their size. Where that cannot be, git_diff, git_show and
\* job_output say what is in the way, unless there was nothing yet when the log was read. As
\* offsets are bounded, who reads on comes to the end.
PagesAdvance ==
    [][ page' # page /\ page'.more
        => \/ page'.next > cursor
           \/ src.kind = "files" /\ rest' # rest
           \/ /\ ~ Readily
              /\ src.kind = "diff" => page'.note = "continuation_blocked"
              /\ src.kind = "log" /\ call.size > cursor => page'.note = "minimum_max_bytes" ]_vars
================================================================================
