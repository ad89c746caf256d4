------------------------------- MODULE MCPaging -------------------------------
(***************************************************************************)
(* What is read in the runs of Paging: everything of each kind within small*)
(* bounds.                                                                 *)
(***************************************************************************)
EXTENDS Paging

ItemSources ==
    {[kind |-> "items", sizes |-> s, envelope |-> 1, wrapper |-> w] :
        s \in BoundedSeq(1 .. 4, 4), w \in 0 .. 2}

\* Lines of some tokens and bytes: within both budgets, beyond one, beyond both.
LineSources ==
    {[kind |-> "lines", sizes |-> [i \in DOMAIN s |-> s[i][1]], bytes |-> [i \in DOMAIN s |-> s[i][2]]] :
        s \in BoundedSeq({1, 3, 8} \X {1, 4, 8}, 3)}

JobSources ==
    {[kind |-> "jobs", sizes |-> s, envelope |-> 1, warnings |-> w] :
        s \in BoundedSeq({1, 3, 7}, 3), w \in 0 .. 2}

FileSources ==
    {[kind |-> "files", files |-> f, perFile |-> p, envelope |-> 1] :
        f \in BoundedSeq(BoundedSeq({1, 2, 7}, 2), 3), p \in 1 .. 2}

DiffSources ==
    {[kind |-> "diff", chars |-> c, envelope |-> e] :
        c \in BoundedSeq({1, 2}, 6), e \in {0, 1, 3, 6, 7}}

LogSources == {[kind |-> "log", leftover |-> l] : l \in BOOLEAN}

\* Up to three matches in a file of four lines, two of them perhaps on one line; or two files.
Hits ==
    {s \in BoundedSeq({<<1, 1>>, <<2, 2>>, <<4, 4>>}, 3) :
        \A i \in 1 .. Len(s) - 1 : s[i][1] <= s[i + 1][1]}
OneOrTwo ==
    {<<s>> : s \in Hits} \cup
    {<<s, t>> : s, t \in {<<>>, <<<<2, 2>>>>, <<<<4, 4>>>>, <<<<1, 1>>, <<2, 2>>>>}}
Spans == {<<<<1, 2>>, <<4, 4>>>>, <<<<2, 3>>>>, <<<<1, 1>>, <<3, 4>>>>}

Search(mode, files, before, after, whole, bad, wrapper) ==
    [kind |-> "grep", mode |-> mode, multiline |-> FALSE, whole |-> whole,
     files |-> [i \in 1 .. Len(files) |-> [count |-> 4, hits |-> files[i]]],
     before |-> before, after |-> after, bad |-> bad, envelope |-> 1, wrapper |-> wrapper]

GrepSources ==
    {Search("content", f, b, a, o, 0, w) :
        f \in OneOrTwo, b \in 0 .. 1, a \in 0 .. 2, o \in BOOLEAN, w \in 0 .. 1}
    \cup {Search(m, f, 0, 0, TRUE, 0, w) : m \in {"files", "summary"}, f \in OneOrTwo, w \in 0 .. 1}
    \cup {Search(m, f, 0, 1, TRUE, bad, 0) : m \in {"content", "files"}, f \in OneOrTwo, bad \in 1 .. 3}
    \cup {[Search("content", <<f>>, b, a, FALSE, 0, 0) EXCEPT !.multiline = TRUE] :
             f \in Spans, b \in 0 .. 1, a \in 0 .. 1}

AllSources == ItemSources \cup LineSources \cup JobSources \cup FileSources
              \cup DiffSources \cup LogSources \cup GrepSources

\* Matches in a stream that is cut by an event too large to be read.
CutSearches ==
    {Search(m, f, 0, a, TRUE, bad, 0) :
        m \in {"content", "files"}, f \in OneOrTwo, a \in 0 .. 1, bad \in 2 .. 4}

\* Matches over several lines that touch or overlap, which ripgrep reports together.
JoinedSearches ==
    {[Search("content", <<f>>, b, a, FALSE, 0, 0) EXCEPT !.multiline = TRUE] :
        f \in {<<<<1, 1>>, <<2, 2>>>>, <<<<1, 2>>, <<3, 4>>>>, <<<<2, 3>>, <<3, 4>>>>},
        b \in 0 .. 1, a \in 0 .. 1}
================================================================================
