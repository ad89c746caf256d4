------------------------------ MODULE TokenBudget ------------------------------
(***************************************************************************)
(* What run_command keeps and shows of a command's output (shell.py): the  *)
(* bounded capture of one stream, the division of a token budget among     *)
(* streams, and the text that is finally shown. Tokens are counted, texts  *)
(* are not modelled: a truncated text has any size up to what it was       *)
(* allowed, and the text of two streams put together may count a few       *)
(* tokens more or less than the two alone.                                 *)
(***************************************************************************)
EXTENDS Integers, Sequences, FiniteSets, FiniteSetsExt, SequencesExt

CONSTANTS
    CaptureMax,     \* capture_max_bytes
    MaxTokens,      \* max_tokens
    Rounds,         \* bound on re-measurements; the code makes 8
    SeamMax         \* bound on what putting two texts together adds or takes

ASSUME BudgetAssumption ==
    /\ CaptureMax \in Nat \ {0} /\ MaxTokens \in Nat \ {0}
    /\ Rounds \in Nat \ {0} /\ SeamMax \in Nat

stderr  == 1    \* in the order in which the names sort
stdout  == 2
Streams == {stderr, stdout}

(***************************************************************************)
(* Capture: head and tail windows, and a line count kept chunk by chunk.   *)
(***************************************************************************)
StreamMax(s) == IF s = stdout THEN (CaptureMax + 1) \div 2 ELSE CaptureMax \div 2
HeadLimit(s) == (StreamMax(s) + 1) \div 2
TailLimit(s) == StreamMax(s) - HeadLimit(s)

Places(bytes, b) == {i \in 1 .. Len(bytes) : bytes[i] = b}
CRLFs(bytes)  == {i \in Places(bytes, "CR") : i + 1 \in Places(bytes, "LF")}
Breaks(bytes) == Cardinality(Places(bytes, "CR")) + Cardinality(Places(bytes, "LF"))
                 - Cardinality(CRLFs(bytes))

NoCapture == [head |-> <<>>, tail |-> <<>>, total |-> 0, breaks |-> 0, last |-> "none"]

Add(cap, s, chunk) ==
    LET room  == Min({HeadLimit(s) - Len(cap.head), Len(chunk)})
        later == cap.tail \o SubSeq(chunk, room + 1, Len(chunk))
        split == cap.last = "CR" /\ chunk[1] = "LF"
    IN  [head   |-> cap.head \o SubSeq(chunk, 1, room),
         tail   |-> SubSeq(later, Max({1, Len(later) - TailLimit(s) + 1}), Len(later)),
         total  |-> cap.total + Len(chunk),
         breaks |-> cap.breaks + Breaks(chunk) - (IF split THEN 1 ELSE 0),
         last   |-> Last(chunk)]

Dropped(cap) == cap.total - Len(cap.head) - Len(cap.tail)
LinesOf(cap) == IF cap.total = 0 THEN 0
                ELSE cap.breaks + (IF cap.last \in {"LF", "CR"} THEN 0 ELSE 1)

(***************************************************************************)
(* Division of a budget: whoever needs no more than an equal share gets    *)
(* what it needs, and the rest is divided anew among the others.           *)
(***************************************************************************)
Sum(f, K) == MapThenSumSet(LAMBDA k : f[k], K)

\* Those that get less than they need.
Unsatisfied(needs, max) ==
    LET Demand == {k \in DOMAIN needs : needs[k] > 0}
        Left(P)  == max - Sum(needs, Demand \ P)
        fill[P \in SUBSET Demand] ==
            LET fed == {k \in P : needs[k] <= Left(P) \div Cardinality(P)}
            IN  IF P = {} \/ fed = {} THEN P ELSE fill[P \ fed]
    IN  fill[Demand]

\* MUTANT of Allocate: one equal share for all, none handed on.
AllocateEqually(needs, max) ==
    [k \in DOMAIN needs |-> Min({needs[k], max \div Cardinality(DOMAIN needs)})]

Allocate(needs, max) ==
    LET P    == Unsatisfied(needs, max)
        left == max - Sum(needs, DOMAIN needs \ P)
        rank(k) == Cardinality({j \in P : j < k})
        n    == Cardinality(P)
    IN  [k \in DOMAIN needs |->
            IF k \notin P THEN needs[k]
            ELSE left \div n + (IF rank(k) < left % n THEN 1 ELSE 0)]

\* Sizes that a text of t tokens may have when a are allowed.
Truncated(t, a) == IF t <= a THEN {t} ELSE 0 .. a

(***************************************************************************)
(* What is shown: need is the size of each captured text, shown that of    *)
(* its rendering, seam what the concatenation adds to the sum.             *)
(***************************************************************************)
Total(v) == v.shown[stderr] + v.shown[stdout] + v.seam
Fits(v)  == Total(v) <= MaxTokens
AllSeams == -SeamMax .. SeamMax
Seams(shown) == IF \E s \in Streams : shown[s] = 0 THEN {0} ELSE AllSeams
Largest(v)   == IF v.shown[stdout] >= v.shown[stderr] THEN stdout ELSE stderr

Whole(need, seam) ==
    [need |-> need, shown |-> need, seam |-> seam, cut |-> {}, oversized |-> FALSE,
     alloc |-> <<MaxTokens, MaxTokens>>]

\* The views in which stream s has been given a tokens and the other is as in v.
Resized(v, s, a) ==
    {w \in [need : {v.need}, shown : {[v.shown EXCEPT ![s] = t] : t \in Truncated(v.need[s], a)},
            seam : AllSeams, oversized : {FALSE}, alloc : {[v.alloc EXCEPT ![s] = a]},
            cut : {IF v.need[s] > a THEN v.cut \cup {s} ELSE v.cut \ {s}}] :
        w.seam \in IF w.shown = v.shown THEN {v.seam} ELSE Seams(w.shown)}

Divided(v) ==
    LET given == Allocate(v.need, MaxTokens)
    IN  UNION {Resized(w, stdout, given[stdout]) : w \in Resized(v, stderr, given[stderr])}

\* One round: the larger stream is cut by what is too much.
Tightenings(v) ==
    IF Fits(v) THEN {v}
    ELSE LET s == Largest(v)
         IN  Resized(v, s, Max({0, v.alloc[s] - (Total(v) - MaxTokens)}))

\* The last resort, without another measurement.
Emptied(v) ==
    LET s == Largest(v)
    IN  [v EXCEPT !.shown[s] = 0, !.alloc[s] = 0, !.seam = 0,
                  !.cut = IF v.need[s] > 0 THEN @ \cup {s} ELSE @ \ {s}]

\* _render_captured_output: a single line of a single stream is shown although it does not fit.
Rendered(v, oneLine) ==
    LET round[n \in 0 .. Rounds - 1] ==
            IF n = 0 THEN Divided(v) ELSE UNION {Tightenings(w) : w \in round[n - 1]}
        last == round[Rounds - 1]
        tight == {w \in last : Fits(w)}
    IN  IF Fits(v) THEN {v}
        ELSE IF oneLine THEN {[v EXCEPT !.oversized = TRUE]}
        ELSE tight \cup {Emptied(w) : w \in UNION {Tightenings(u) : u \in last \ tight}}
================================================================================
