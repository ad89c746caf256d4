------------------------------ MODULE GrepStream ------------------------------
(***************************************************************************)
(* search in the contents of files: ripgrep's events are consumed one by   *)
(* one, and only the page asked for is kept. A search is a record          *)
(*   files          each [count |-> lines, hits |-> <<first, last>> ...]   *)
(*   before, after  lines of context                                       *)
(*   mode           content, files (or counts), summary                    *)
(*   multiline      a match may span lines                                 *)
(*   whole          the line of a match is asked for, not the match alone  *)
(*   bad            the event that is malformed or too large (0: none)     *)
(*   envelope, wrapper   what the response costs, at first and when it has *)
(*                  the fields the tool adds                               *)
(* A line is its number: what it says does not matter.                     *)
(***************************************************************************)
EXTENDS PageRules

CONSTANT MaxPending     \* _MAX_PENDING_CONTENT_MATCHES

ASSUME PendingAssumption == MaxPending \in Nat \ {0}

(***************************************************************************)
(* ripgrep (external): one event for the lines of matches that share a     *)
(* line or, between lines, for those that touch; one for each other line   *)
(* of context, in order, and one at the end of the file.                   *)
(***************************************************************************)
Grouped(hits, gap) ==
    FoldLeft(LAMBDA groups, hit :
                IF groups # <<>> /\ hit[1] <= Last(groups).last + gap
                THEN Append(Front(groups),
                            [Last(groups) EXCEPT !.last = Max({@, hit[2]}), !.hits = Append(@, hit)])
                ELSE Append(groups, [first |-> hit[1], last |-> hit[2], hits |-> <<hit>>]),
             <<>>, hits)

FileEvents(search, path) ==
    LET file   == search.files[path]
        groups == Range(Grouped(file.hits, IF search.multiline THEN 1 ELSE 0))
        Near(line)  == \E g \in groups : line \in g.first - search.before .. g.last + search.after
        Inside(line) == \E g \in groups : line \in g.first .. g.last
        context == {line \in 1 .. file.count : Near(line) /\ ~ Inside(line)}
        events  == {[kind |-> "match", path |-> path, first |-> g.first, last |-> g.last,
                     hits |-> g.hits] : g \in groups}
                   \cup {[kind |-> "context", path |-> path, first |-> line, last |-> line,
                          hits |-> <<>>] : line \in context}
    IN  IF groups = {} THEN <<>>
        ELSE Append(SetToSortSeq(events, LAMBDA e, f : e.first < f.first),
                    [kind |-> "end", path |-> path, first |-> 0, last |-> 0, hits |-> <<>>])

Stream(search) == FlattenSeq([p \in 1 .. Len(search.files) |-> FileEvents(search, p)])

\* Its events up to the malformed one.
Readable(search) ==
    IF search.bad \in 1 .. Len(Stream(search)) THEN SubSeq(Stream(search), 1, search.bad - 1)
    ELSE Stream(search)

(***************************************************************************)
(* _PageCollector: items before offset are counted, and the first one that *)
(* does not fit stops the search.                                          *)
(***************************************************************************)
Collector == [seen |-> 0, items |-> <<>>, stop |-> "none",
              path |-> 0, hits |-> 0, recent |-> {}, pending |-> <<>>]

Cost(item) == 1 + Cardinality(item.before) + Cardinality(item.after)
Costs(items) == [i \in 1 .. Len(items) |-> Cost(items[i])]
Tokens(q, items) == q.search.envelope + Total(Costs(items))

PageAdd(q, c, item) ==
    LET counted == [c EXCEPT !.seen = @ + 1] IN
    CASE c.stop # "none"     -> c
      [] c.stop = "none" /\ c.seen < q.offset -> counted
      [] OTHER ->
            IF q.limit # 0 /\ Len(c.items) >= q.limit THEN [counted EXCEPT !.stop = "limit"]
            ELSE IF Tokens(q, Append(c.items, item)) > Room
                 THEN [counted EXCEPT !.stop = "token_budget"]
            ELSE [counted EXCEPT !.items = Append(@, item)]

(***************************************************************************)
(* _ContentCollector: a match waits until the lines after it have passed.  *)
(***************************************************************************)
\* The page gets the first n matches that wait.
FlushFirst(q, c, n) ==
    LET added == FoldLeft(LAMBDA d, item : PageAdd(q, d, item),
                          [c EXCEPT !.pending = SubSeq(@, n + 1, Len(@))],
                          SubSeq(c.pending, 1, n))
    IN  IF n > 0 /\ added.stop # "none" THEN [added EXCEPT !.pending = <<>>] ELSE added

\* MUTANT of FlushBefore: a match is let go one line early.
FlushAt(q, c, line) ==
    FlushFirst(q, c, Max({0} \cup {n \in 1 .. Len(c.pending) :
                                     \A i \in 1 .. n : c.pending[i].through <= line}))

\* Those go whose context ends before a line, up to the first one whose does not.
FlushBefore(q, c, line) ==
    FlushFirst(q, c, Max({0} \cup {n \in 1 .. Len(c.pending) :
                                     \A i \in 1 .. n : c.pending[i].through < line}))

FinishFile(q, c) ==
    [FlushFirst(q, c, Len(c.pending)) EXCEPT !.recent = {}, !.path = 0]

Queue(q, c, item) ==
    CASE c.stop # "none" -> c
      [] c.stop = "none" /\ c.seen < q.offset /\ c.pending = <<>> -> PageAdd(q, c, item)
      [] OTHER ->
            IF Len(c.pending) >= MaxPending
            THEN [c EXCEPT !.pending = <<>>, !.stop = "context_buffer_limit"]
            ELSE [c EXCEPT !.pending = Append(@, item)]

\* What an event says of the lines in it: to the matches that wait, and to those that follow.
Extended(c, e) ==
    [c EXCEPT !.pending = [i \in DOMAIN @ |->
        [@[i] EXCEPT !.after = @ \cup {line \in e.first .. e.last :
                                         c.pending[i].last < line /\ line <= c.pending[i].through}]]]

Recorded(q, c, e) ==
    [c EXCEPT !.recent = {line \in @ \cup e.first .. e.last : line > e.last - q.search.before}]

Match(q, c, e, hit) ==
    [path |-> e.path, first |-> hit[1], last |-> hit[2],
     before |-> {line \in c.recent : line \in hit[1] - q.search.before .. hit[1] - 1},
     after |-> {}, through |-> hit[2] + q.search.after]

Feed(q, c, e) ==
    LET fresh   == IF c.path = e.path THEN c ELSE [FinishFile(q, c) EXCEPT !.path = e.path]
        settled == Extended(FlushBefore(q, fresh, e.first), e)
        hits    == IF q.search.whole THEN SubSeq(e.hits, 1, Min({1, Len(e.hits)})) ELSE e.hits
        queued  == FoldLeft(LAMBDA d, hit : Queue(q, d, Match(q, settled, e, hit)), settled, hits)
    IN  IF e.kind = "end" THEN FinishFile(q, c)
        ELSE FlushBefore(q, Recorded(q, queued, e), e.last + 1)

(***************************************************************************)
(* files_with_matches and count: a file is an item once the next has begun.*)
(***************************************************************************)
FileItem(c) == [path |-> c.path, first |-> c.hits, last |-> 0,
                before |-> {}, after |-> {}, through |-> 0]

FinishCount(q, c) ==
    IF c.path = 0 THEN c ELSE [PageAdd(q, c, FileItem(c)) EXCEPT !.path = 0, !.hits = 0]

Count(q, c, e) ==
    LET fresh == IF c.path = e.path THEN c ELSE FinishCount(q, c)
    IN  IF e.kind # "match" THEN c
        ELSE IF fresh.stop # "none" THEN fresh
        ELSE [fresh EXCEPT !.path = e.path, !.hits = @ + Len(e.hits)]

\* A summary counts files and matches, and has no page to fill.
Summed(c, e) ==
    IF e.kind # "match" THEN c
    ELSE [c EXCEPT !.path = e.path, !.hits = @ + Len(e.hits),
                   !.seen = IF c.path = e.path THEN @ ELSE @ + 1]

(***************************************************************************)
(* grep_files: an event is consumed; at the end, or after a malformed event*)
(* once the page has been told so, what waits is given to the page.        *)
(***************************************************************************)
Consumed(q, c, e) ==
    CASE q.search.mode = "content" -> Feed(q, c, e)
      [] q.search.mode = "files"   -> Count(q, c, e)
      [] q.search.mode = "summary" -> Summed(c, e)

Finished(q, c) ==
    CASE q.search.mode = "content" -> FinishFile(q, c)
      [] q.search.mode = "files"   -> FinishCount(q, c)
      [] q.search.mode = "summary" -> c

Bare(items) == [i \in 1 .. Len(items) |->
                   [path |-> items[i].path, first |-> items[i].first, last |-> items[i].last,
                    before |-> items[i].before, after |-> items[i].after]]

Entry(path, first, last) ==
    [path |-> path, first |-> first, last |-> last, before |-> {}, after |-> {}]

\* The files and the matches of a summary, which is complete whatever it has missed.
Summary(c) == PageOf(<<Entry(c.seen, c.hits, 0)>>, 1, FALSE, "none")

\* What is left of a page once the tool has added its own fields.
Left(q, c) == Fitting(Costs(c.items), 0, 0, Room - q.search.envelope - q.search.wrapper)

Grep(q, c) ==
    IF q.search.mode = "summary" THEN Summary(c)
    ELSE PageOf(Bare(SubSeq(c.items, 1, Left(q, c))), q.offset + Left(q, c),
                c.stop # "none" \/ Left(q, c) < Len(c.items), c.stop)

(***************************************************************************)
(* Reference: what a search finds, each match with the lines around it.    *)
(***************************************************************************)
Around(search, path, hit) ==
    LET lines == 1 .. search.files[path].count
    IN  [path |-> path, first |-> hit[1], last |-> hit[2],
         before |-> lines \cap (hit[1] - search.before .. hit[1] - 1),
         after  |-> lines \cap (hit[2] + 1 .. hit[2] + search.after)]

\* The matches of a file that are answered each on its own.
Answered(search, path) ==
    LET hits == search.files[path].hits
    IN  SelectSeq([i \in 1 .. Len(hits) |-> <<i, hits[i]>>],
                  LAMBDA h : search.whole => \A i \in 1 .. h[1] - 1 : hits[i][1] # h[2][1])

Found(search) ==
    LET paths == 1 .. Len(search.files)
        Hits(path) == Len(search.files[path].hits)
        InFile(path) ==
            IF search.mode = "content"
            THEN [i \in 1 .. Len(Answered(search, path)) |->
                     Around(search, path, Answered(search, path)[i][2])]
            ELSE IF Hits(path) = 0 THEN <<>> ELSE <<Entry(path, Hits(path), 0)>>
    IN  IF search.mode = "summary"
        THEN <<Entry(Cardinality({p \in paths : Hits(p) > 0}), MapThenSumSet(Hits, paths), 0)>>
        ELSE FlattenSeq([p \in paths |-> InFile(p)])

\* How many of them had been parsed when the malformed event came.
Parsed(search) ==
    LET matches == {e \in Range(Readable(search)) : e.kind = "match"}
    IN  IF search.mode = "content"
        THEN MapThenSumSet(LAMBDA e : IF search.whole THEN 1 ELSE Len(e.hits), matches)
        ELSE Cardinality({e.path : e \in matches})
================================================================================
