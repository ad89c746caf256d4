------------------------------- MODULE PageRules -------------------------------
(***************************************************************************)
(* How the tools cut what they answer into pages. A page is a record       *)
(*   items  what it carries                                                *)
(*   next   the offset at which the tool says to go on                     *)
(*   more   whether it says to go on at all                                *)
(*   note   the one thing it says of itself that a reader must know        *)
(* Sizes are in tokens; envelope is what a response costs beside its items.*)
(***************************************************************************)
EXTENDS Integers, Sequences, FiniteSets, FiniteSetsExt, SequencesExt

CONSTANTS
    Room,           \* the token budget
    MaxBytes        \* max_bytes of read_text

ASSUME PageAssumption == Room \in Nat \ {0} /\ MaxBytes \in Nat \ {0}

Span(from, n)  == [i \in 1 .. n |-> from + i]
Size(sizes, from, n) ==
    LET sum[k \in 0 .. n] == IF k = 0 THEN 0 ELSE sum[k - 1] + sizes[from + k]
    IN  sum[n]
Total(sizes) == Size(sizes, 0, Len(sizes))
PageOf(items, next, more, note) == [items |-> items, next |-> next, more |-> more, note |-> note]

\* As many items after the first from ones as fit, and no more than most (0: any number).
Fitting(sizes, from, most, room) ==
    LET rest == Len(sizes) - from
        top  == IF most = 0 THEN rest ELSE Min({most, rest})
        fit  == {n \in 0 .. top : Size(sizes, from, n) <= room}
    IN  IF fit = {} THEN 0 ELSE Max(fit)

(***************************************************************************)
(* Items that are added one by one while the whole response fits: entries, *)
(* symbols, lines of read, bytes in hexadecimal, results of a batch of     *)
(* searches. The first one may be too large for the page to carry it.      *)
(***************************************************************************)
\* The collector's page, and what is left of it when the wrapper has added its own fields.
Collected(src, from, limit) ==
    LET n    == Fitting(src.sizes, from, limit, Room - src.envelope)
        kept == IF n = 0 THEN 0 ELSE Fitting(src.sizes, from, n, Room - src.envelope - src.wrapper)
    IN  PageOf(Span(from, kept), from + kept, from + kept < Len(src.sizes), "none")

(***************************************************************************)
(* Lines of read_text: a page never stops within a line, and its first     *)
(* line is returned whole however long it is.                              *)
(***************************************************************************)
\* Lines of a file of the given sizes in tokens and bytes that make up a page.
LineCount(tokens, bytes, from, limit) ==
    LET n == Min({Fitting(tokens, from, limit, Room), Fitting(bytes, from, limit, MaxBytes)})
    IN  IF n = 0 /\ from < Len(tokens) THEN 1 ELSE n

\* MUTANT of Lines: an oversized line is left for a larger budget.
LinesThatFit(src, from, limit) ==
    LET n == Min({Fitting(src.sizes, from, limit, Room), Fitting(src.bytes, from, limit, MaxBytes)})
    IN  PageOf(Span(from, n), from + n, from + n < Len(src.sizes), "none")

Lines(src, from, limit) ==
    LET n == LineCount(src.sizes, src.bytes, from, limit)
    IN  PageOf(Span(from, n), from + n, from + n < Len(src.sizes), "none")

(***************************************************************************)
(* job_list: warnings give way before jobs do, and one job always stays.   *)
(***************************************************************************)
Jobs(src, from, limit) ==
    LET wanted == Min({limit, Len(src.sizes) - from})
        n      == Fitting(src.sizes, from, wanted, Room - src.envelope)
        kept   == IF n = 0 /\ wanted > 0 THEN 1 ELSE n
        warned == Max({0} \cup {w \in 0 .. src.warnings :
                                  src.envelope + w + Size(src.sizes, from, kept) <= Room})
    IN  PageOf(Span(from, kept), from + kept, from + kept < Len(src.sizes),
               IF warned < src.warnings THEN "warnings_truncated" ELSE "none")

(***************************************************************************)
(* A batch of files: a file that does not fit gives up lines from its end, *)
(* and says where its own pages go on.                                     *)
(***************************************************************************)
FileResult(src, path, lines) ==
    [path |-> path, lines |-> lines,
     next |-> IF lines < Len(src.files[path]) THEN lines ELSE Len(src.files[path]),
     more |-> lines < Len(src.files[path])]

\* As many files as fit whole, and what fits of the next.
Files(src, from) ==
    LET Whole(path) == LineCount(src.files[path], src.files[path], 0, 0)
        Cost(path, lines) == src.perFile + Size(src.files[path], 0, lines)
        wholes == [path \in 1 .. Len(src.files) |-> Cost(path, Whole(path))]
        n      == Fitting(wholes, from, 0, Room - src.envelope)
        left   == Room - src.envelope - Size(wholes, from, n)
        next   == from + n + 1
        part   == IF next > Len(src.files) THEN {}
                  ELSE {lines \in 0 .. Whole(next) - 1 : Cost(next, lines) <= left}
        page   == [i \in 1 .. n |-> FileResult(src, from + i, Whole(from + i))]
                  \o (IF part = {} THEN <<>> ELSE <<FileResult(src, next, Max(part))>>)
    IN  PageOf(page, from + Len(page), from + Len(page) < Len(src.files), "none")

(***************************************************************************)
(* git diff and git show: a page of bytes that ends between characters,    *)
(* then halved until the response fits. A character has one or two bytes   *)
(* and one token; the diff is also repeated file by file until there is no *)
(* room for that.                                                          *)
(***************************************************************************)
\* Characters that end at or before a byte.
CharsUpTo(chars, byte) == Max({n \in 0 .. Len(chars) : Size(chars, 0, n) <= byte})

\* A diff of n characters, halved until it fits.
Halved(n, room) ==
    LET half[k \in 0 .. n] == IF k <= room THEN k ELSE half[k \div 2]
    IN  half[n]

\* Whether the response fits with whole file diffs, and with shortened ones.
WholeFits(src, flat) == src.envelope + flat + Len(src.chars) <= Room
TrimmedFits(src, flat) ==
    src.envelope + flat + Min({Len(src.chars), Max({1, Room \div 4})}) <= Room

\* The characters of a page that may end at a byte.
Paged(src, byte, maxBytes) == CharsUpTo(src.chars, byte + maxBytes) - CharsUpTo(src.chars, byte)
HalfOf(paged) == Min({paged, Max({1, Room \div 2})})

DiffPage(src, byte, maxBytes) ==
    LET from  == CharsUpTo(src.chars, byte)
        paged == Paged(src, byte, maxBytes)
        n     == IF WholeFits(src, paged) THEN paged
                 ELSE Halved(HalfOf(paged), Max({0, Room - src.envelope}))
        next  == byte + Size(src.chars, from, n)
    IN  PageOf(Span(from, n), next, next < Total(src.chars), "none")

Diff(src, byte, maxBytes) ==
    LET page  == DiffPage(src, byte, maxBytes)
        paged == Paged(src, byte, maxBytes)
        blocked == /\ page.more /\ page.next = byte
                   /\ ~ WholeFits(src, paged) /\ ~ TrimmedFits(src, HalfOf(paged))
    IN  IF blocked THEN [page EXCEPT !.note = "continuation_blocked"] ELSE page

(***************************************************************************)
(* The log of a job: bytes are A (a character of its own), L (the first of *)
(* two), C (the second of two). A unit is a character or a replacement.    *)
(***************************************************************************)
Bytes == {"A", "L", "C"}
UnitBytes(unit) == IF unit = "LC" THEN 2 ELSE 1

\* What the bytes stand for from the end backwards: the units, and how many bytes are left over.
UnitsOf(bytes, final) ==
    LET read[i \in 1 .. Len(bytes) + 2] ==
            IF i > Len(bytes) THEN [units |-> <<>>, left |-> 0]
            ELSE IF bytes[i] = "L" /\ i = Len(bytes) /\ ~ final THEN [units |-> <<>>, left |-> 1]
            ELSE IF bytes[i] = "L" /\ i < Len(bytes) /\ bytes[i + 1] = "C"
                 THEN [read[i + 2] EXCEPT !.units = <<"LC">> \o @]
            ELSE [read[i + 1] EXCEPT !.units = <<IF bytes[i] = "A" THEN "A" ELSE "?">> \o @]
    IN  read[1]

\* MUTANT of Decoded: the first byte of two at the end of a chunk is taken for a broken character.
DecodedAtOnce(bytes, final) == UnitsOf(bytes, TRUE)

Decoded(bytes, final) == UnitsOf(bytes, final)

UnitSizes(units) == [i \in 1 .. Len(units) |-> UnitBytes(units[i])]

\* The page of a chunk: whole units while they fit, the first one whatever its size.
LogPage(cursor, raw, final, size, tokens) ==
    LET all   == Decoded(raw, final)
        n     == Min({Len(all.units), Max({1, Fitting(UnitSizes(all.units), 0, 0, tokens)})})
        taken == SubSeq(all.units, 1, n)
        next  == cursor + Total(UnitSizes(taken))
    IN  PageOf(taken, next, next < size,
               IF n = 0 /\ all.left > 0 THEN "minimum_max_bytes" ELSE "none")
================================================================================
