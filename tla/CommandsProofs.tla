---------------------------- MODULE CommandsProofs ----------------------------
(***************************************************************************)
(* What Commands promises, for every set of calls, every size of the       *)
(* chunks, of the capture and of the token budget, and however many rounds *)
(* the tightening makes: what is captured is exact however the pipes are   *)
(* read, a timeout leaves nothing of the group, what is shown keeps the    *)
(* budget, and a batch divides it fairly. First the capture of one stream, *)
(* then sums and the division of a budget, then what is shown, and at last *)
(* the invariant of the commands.                                          *)
(***************************************************************************)
EXTENDS Commands, FiniteSetTheorems, SequenceTheorems, TLAPS

-----------------------------------------------------------------------------
(* The capture of a stream.                                                *)

(* What the capture of a text is: its first bytes, its last ones, its      *)
(* length, its line breaks and its last byte.                              *)
KeptOf(s, text)  == Min({HeadLimit(s), Len(text)})
AfterOf(s, text) == Min({TailLimit(s), Len(text) - KeptOf(s, text)})
LastOf(text)     == IF text = <<>> THEN "none" ELSE text[Len(text)]

HeadIs(cap, s, text) == cap.head = SubSeq(text, 1, KeptOf(s, text))
TailIs(cap, s, text) == cap.tail = SubSeq(text, Len(text) - AfterOf(s, text) + 1, Len(text))

IsCapture(cap, s, text) ==
    /\ HeadIs(cap, s, text) /\ TailIs(cap, s, text)
    /\ cap.total = Len(text) /\ cap.breaks = Breaks(text) /\ cap.last = LastOf(text)

(* The smaller of two numbers.                                             *)
LEMMA SmallerOf ==
    ASSUME NEW a \in Int, NEW b \in Int
    PROVE  Min({a, b}) = IF a <= b THEN a ELSE b
<1>1. \E x \in {a, b} : \A y \in {a, b} : x <= y
  <2>1. CASE a <= b
    BY <2>1
  <2>2. CASE ~ (a <= b)
    <3>1. b <= a
      BY <2>2
    <3> QED
      BY <3>1
  <2> QED
    BY <2>1, <2>2
<1>2. Min({a, b}) \in {a, b} /\ \A y \in {a, b} : Min({a, b}) <= y
  BY <1>1 DEF Min
<1>3. Min({a, b}) <= a /\ Min({a, b}) <= b
  BY <1>2
<1> QED
  BY <1>2, <1>3

(* The larger of two numbers.                                              *)
LEMMA LargerOf ==
    ASSUME NEW a \in Int, NEW b \in Int
    PROVE  Max({a, b}) = IF a >= b THEN a ELSE b
<1>1. \E x \in {a, b} : \A y \in {a, b} : x >= y
  <2>1. CASE a >= b
    BY <2>1
  <2>2. CASE ~ (a >= b)
    <3>1. b >= a
      BY <2>2
    <3> QED
      BY <3>1
  <2> QED
    BY <2>1, <2>2
<1>2. Max({a, b}) \in {a, b} /\ \A y \in {a, b} : Max({a, b}) >= y
  BY <1>1 DEF Max
<1>3. Max({a, b}) >= a /\ Max({a, b}) >= b
  BY <1>2
<1> QED
  BY <1>2, <1>3

(* The two windows of a stream.                                            *)
LEMMA LimitsTyped ==
    ASSUME NEW s \in Streams
    PROVE  HeadLimit(s) \in Nat /\ TailLimit(s) \in Nat
BY BudgetAssumption DEF HeadLimit, TailLimit, StreamMax, Streams, stdout, stderr

(* Two texts are the same that have the same length and the same bytes.    *)
LEMMA SameText ==
    ASSUME NEW t \in Seq(STRING), NEW u \in Seq(STRING), Len(t) = Len(u),
           \A i \in 1..Len(t) : t[i] = u[i]
    PROVE  t = u
OBVIOUS

(* A part of a text: the k bytes after the first d.                        *)
IsPart(part, t, d, k) ==
    part \in Seq(STRING) /\ Len(part) = k /\ \A i \in 1..k : part[i] = t[d + i]

(* A part of a text is as long as it should be and has its bytes.          *)
LEMMA PartOfText ==
    ASSUME NEW t \in Seq(STRING), NEW m \in 1..Len(t) + 1, NEW n \in m - 1..Len(t)
    PROVE  IsPart(SubSeq(t, m, n), t, m - 1, n - m + 1)
<1>1. \A i \in m..n : t[i] \in STRING
  OBVIOUS
<1> DEFINE p == SubSeq(t, m, n)
<1>2. /\ p \in Seq(STRING)
      /\ Len(p) = IF m <= n THEN n - m + 1 ELSE 0
      /\ \A i \in 1..(n - m + 1) : p[i] = t[m + i - 1]
  BY <1>1, SubSeqProperties
<1>3. \A i \in Int : m + i - 1 = m - 1 + i
  OBVIOUS
<1> HIDE DEF p
<1> QED
  BY <1>2, <1>3 DEF IsPart

(* One text after another.                                                 *)
IsBoth(both, t, u) ==
    /\ both \in Seq(STRING) /\ Len(both) = Len(t) + Len(u)
    /\ \A i \in 1..Len(t) + Len(u) : both[i] = IF i <= Len(t) THEN t[i] ELSE u[i - Len(t)]

(* The bytes of two texts put together.                                    *)
LEMMA TextsPutTogether ==
    ASSUME NEW t \in Seq(STRING), NEW u \in Seq(STRING)
    PROVE  IsBoth(t \o u, t, u)
BY DEF IsBoth

(* The windows after a chunk of K bytes, of a text of L.                   *)
Cut(H, T, L, K, kept, room, after) ==
    kept = Min({H, L}) /\ room = Min({H - kept, K}) /\ after = Min({T, L - kept})

Windows(H, T, L, K, kept, room, after) ==
    /\ kept \in Nat /\ room \in Nat /\ after \in Nat
    /\ kept <= L /\ kept <= H /\ room <= K /\ after <= T /\ after <= L - kept
    /\ room = 0 \/ (kept = L /\ after = 0)
    /\ Min({H, L + K}) = kept + room
    /\ Min({T, L + K - (kept + room)}) = Min({T, after + K - room})

(* The arithmetic of the two windows when bytes are added.                 *)
LEMMA WindowsMove ==
    ASSUME NEW H \in Nat, NEW T \in Nat, NEW L \in Nat, NEW K \in Nat,
           NEW kept, NEW room, NEW after, Cut(H, T, L, K, kept, room, after)
    PROVE  Windows(H, T, L, K, kept, room, after)
<1>1. kept = IF H <= L THEN H ELSE L
  BY SmallerOf DEF Cut
<1>2. kept \in Nat /\ kept <= H /\ kept <= L /\ (kept = H \/ kept = L)
  BY <1>1
<1>3. room = IF H - kept <= K THEN H - kept ELSE K
  <2>1. H - kept \in Int
    BY <1>2
  <2> QED
    <3>1. Min({H - kept, K}) = IF H - kept <= K THEN H - kept ELSE K
      BY <2>1, SmallerOf
    <3> QED
      BY <3>1 DEF Cut
<1>4. room \in Nat /\ room <= K /\ room <= H - kept /\ (room = H - kept \/ room = K)
  BY <1>2, <1>3
<1>5. after = IF T <= L - kept THEN T ELSE L - kept
  <2>1. L - kept \in Int
    BY <1>2
  <2> QED
    BY <2>1, SmallerOf DEF Cut
<1>6. after \in Nat /\ after <= T /\ after <= L - kept /\ (after = T \/ after = L - kept)
  BY <1>2, <1>5
<1>7. Min({H, L + K}) = kept + room
  <2>1. Min({H, L + K}) = IF H <= L + K THEN H ELSE L + K
    <3>1. L + K \in Int
      OBVIOUS
    <3> QED
      BY <3>1, SmallerOf
  <2> QED
    BY <2>1, <1>1, <1>2, <1>3
<1>8. room = 0 \/ (kept = L /\ after = 0)
  BY <1>1, <1>2, <1>3, <1>4, <1>5, <1>6
<1>9. Min({T, L + K - (kept + room)}) = Min({T, after + K - room})
  <2>1. L + K - (kept + room) \in Int /\ after + K - room \in Int
    BY <1>2, <1>4, <1>6
  <2>2. Min({T, L + K - (kept + room)}) = IF T <= L + K - (kept + room) THEN T ELSE L + K - (kept + room)
    BY <2>1, SmallerOf
  <2>3. Min({T, after + K - room}) = IF T <= after + K - room THEN T ELSE after + K - room
    BY <2>1, SmallerOf
  <2> QED
    BY <2>2, <2>3, <1>2, <1>4, <1>5, <1>6
<1> QED
  BY <1>2, <1>4, <1>6, <1>7, <1>8, <1>9 DEF Windows

(* _BoundedStreamCapture.add, its first window.                            *)
HeadOf(text, chunk, head, kept, room) ==
    head \o SubSeq(chunk, 1, room) = SubSeq(text \o chunk, 1, kept + room)

(* _BoundedStreamCapture.add: the first bytes.                             *)
LEMMA AddKeepsHead ==
    ASSUME NEW text \in Seq(STRING), NEW chunk \in Seq(STRING), NEW head, NEW kept \in 0..Len(text),
           NEW room \in 0..Len(chunk), room = 0 \/ kept = Len(text), IsPart(head, text, 0, kept)
    PROVE  HeadOf(text, chunk, head, kept, room)
<1> DEFINE all  == text \o chunk
           more == SubSeq(chunk, 1, room)
           h == head \o more
           g == SubSeq(all, 1, kept + room)
           L == Len(text)
           K == Len(chunk)
<1>1. IsPart(more, chunk, 0, room)
  <2>1. 1 \in 1..Len(chunk) + 1 /\ room \in 1 - 1..Len(chunk) /\ 1 - 1 = 0 /\ room - 1 + 1 = room
    OBVIOUS
  <2> QED
    BY <2>1, PartOfText
<1>2. IsBoth(all, text, chunk)
  BY TextsPutTogether
<1>3. IsBoth(h, head, more)
  <2> HIDE DEF more
  <2> QED
    BY <1>1, TextsPutTogether DEF IsPart
<1> HIDE DEF all, more, h
<1>4. IsPart(g, all, 0, kept + room)
  <2>1. all \in Seq(STRING) /\ 1 \in 1..Len(all) + 1 /\ kept + room \in 1 - 1..Len(all)
        /\ 1 - 1 = 0 /\ kept + room - 1 + 1 = kept + room
    BY <1>2 DEF IsBoth
  <2> QED
    BY <2>1, PartOfText
<1> HIDE DEF g
<1>5. L \in Nat /\ K \in Nat /\ kept \in Nat /\ room \in Nat /\ kept <= L /\ room <= K
  OBVIOUS
<1>6. /\ h \in Seq(STRING) /\ Len(h) = kept + room /\ g \in Seq(STRING) /\ Len(g) = kept + room
      /\ Len(all) = L + K
  BY <1>1, <1>2, <1>3, <1>4 DEF IsBoth, IsPart
<1>7. ASSUME NEW i \in 1..kept + room
      PROVE  h[i] = g[i]
  <2>1. g[i] = all[i]
    BY <1>4, <1>5 DEF IsPart
  <2>2. all[i] = IF i <= L THEN text[i] ELSE chunk[i - L]
    BY <1>2, <1>5 DEF IsBoth
  <2>3. h[i] = IF i <= kept THEN head[i] ELSE more[i - kept]
    BY <1>1, <1>3, <1>5 DEF IsBoth, IsPart
  <2>4. CASE i <= kept
    <3>1. head[i] = text[0 + i] /\ 0 + i = i /\ i <= L
      BY <1>5, <2>4 DEF IsPart
    <3> QED
      BY <2>1, <2>2, <2>3, <2>4, <3>1
  <2>5. CASE ~ (i <= kept)
    <3>1. kept = L /\ i - kept \in 1..room /\ 0 + (i - kept) = i - kept
      BY <1>5, <2>5
    <3>2. more[i - kept] = chunk[i - kept]
      BY <1>1, <3>1 DEF IsPart
    <3> QED
      BY <2>1, <2>2, <2>3, <2>5, <3>1, <3>2
  <2> QED
    BY <2>4, <2>5
<1>8. h = g
  BY <1>5, <1>6, <1>7, SameText
<1> QED
  BY <1>8 DEF h, g, more, all, HeadOf

(* Its second window: what is kept of the text, the chunk's rest after it. *)
TailOf(later, all, T, n) ==
    SubSeq(later, Max({1, Len(later) - T + 1}), Len(later))
      = SubSeq(all, Len(all) - Min({T, n}) + 1, Len(all))

(* _BoundedStreamCapture.add: the last bytes.                              *)
LEMMA AddKeepsTail ==
    ASSUME NEW text \in Seq(STRING), NEW chunk \in Seq(STRING), NEW tail, NEW T \in Nat,
           NEW after \in 0..Len(text), NEW room \in 0..Len(chunk), room = 0 \/ after = 0,
           IsPart(tail, text, Len(text) - after, after)
    PROVE  TailOf(tail \o SubSeq(chunk, room + 1, Len(chunk)), text \o chunk, T,
                  after + Len(chunk) - room)
<1> DEFINE later == tail \o SubSeq(chunk, room + 1, Len(chunk))
           all   == text \o chunk
           n     == after + Len(chunk) - room
           L == Len(text)
           K == Len(chunk)
           rest == SubSeq(chunk, room + 1, Len(chunk))
           from == Max({1, Len(later) - T + 1})
           last == Min({T, n})
           h == SubSeq(later, from, Len(later))
           g == SubSeq(all, Len(all) - last + 1, Len(all))
<1>1. L \in Nat /\ K \in Nat /\ after \in Nat /\ room \in Nat /\ after <= L /\ room <= K /\ n \in Nat /\ n <= L + K
      /\ T \in Nat /\ n = after + K - room
  OBVIOUS
<1> HIDE DEF n
<1>2. IsPart(rest, chunk, room, K - room)
  <2>1. room + 1 \in 1..Len(chunk) + 1 /\ K \in (room + 1) - 1..Len(chunk)
        /\ (room + 1) - 1 = room /\ K - (room + 1) + 1 = K - room
    BY <1>1
  <2> QED
    BY <2>1, PartOfText
<1>3. IsBoth(all, text, chunk)
  BY TextsPutTogether
<1>4. IsBoth(later, tail, rest)
  <2> HIDE DEF rest
  <2> QED
    <3>1. tail \in Seq(STRING) /\ rest \in Seq(STRING)
      BY <1>2 DEF IsPart
    <3>2. IsBoth(tail \o rest, tail, rest)
      BY <3>1, TextsPutTogether
    <3> QED
      BY <3>2 DEF rest
<1> HIDE DEF rest, later, all, n
<1>5. later \in Seq(STRING) /\ Len(later) = n /\ all \in Seq(STRING) /\ Len(all) = L + K
  <2>1. Len(tail) = after /\ Len(rest) = K - room
    BY <1>2 DEF IsPart
  <2>2. later \in Seq(STRING) /\ Len(later) = Len(tail) + Len(rest) /\ all \in Seq(STRING) /\ Len(all) = L + K
    BY <1>3, <1>4 DEF IsBoth
  <2> QED
    BY <1>1, <2>1, <2>2
<1>6. last = (IF T <= n THEN T ELSE n) /\ from = IF 1 >= n - T + 1 THEN 1 ELSE n - T + 1
  <2>1. n - T + 1 \in Int /\ Len(later) = n /\ n \in Int /\ T \in Int
    BY <1>1, <1>5
  <2>2. last = IF T <= n THEN T ELSE n
    BY <2>1, SmallerOf
  <2>3. from = Max({1, n - T + 1})
    BY <2>1
  <2>4. Max({1, n - T + 1}) = IF 1 >= n - T + 1 THEN 1 ELSE n - T + 1
    <3>1. 1 \in Int /\ n - T + 1 \in Int
      BY <2>1
    <3> QED
      BY ONLY <3>1, LargerOf
  <2> HIDE DEF last, from
  <2> QED
    BY ONLY <2>2, <2>3, <2>4
<1> HIDE DEF last, from
<1>7. last \in Nat /\ last <= n /\ from = n - last + 1
  <2>1. CASE T <= n
    <3>1. last = T /\ (1 >= n - T + 1 => from = 1) /\ (~ (1 >= n - T + 1) => from = n - T + 1)
      BY ONLY <1>6, <2>1
    <3> QED
      BY ONLY <1>1, <2>1, <3>1
  <2>2. CASE ~ (T <= n)
    <3>1. last = n /\ (1 >= n - T + 1 => from = 1) /\ (~ (1 >= n - T + 1) => from = n - T + 1)
      BY ONLY <1>6, <2>2
    <3> QED
      BY ONLY <1>1, <2>2, <3>1
  <2> QED
    BY <2>1, <2>2
<1>8. IsPart(h, later, n - last, last)
  <2>1. from \in 1..Len(later) + 1 /\ Len(later) \in from - 1..Len(later)
        /\ from - 1 = n - last /\ Len(later) - from + 1 = last
    BY ONLY <1>1, <1>5, <1>7
  <2>2. IsPart(h, later, from - 1, Len(later) - from + 1)
    BY <1>5, <2>1, PartOfText
  <2> QED
    BY <2>1, <2>2
<1>9. IsPart(g, all, L + K - last, last)
  <2>1. Len(all) - last + 1 \in 1..Len(all) + 1 /\ Len(all) \in (Len(all) - last + 1) - 1..Len(all)
        /\ (Len(all) - last + 1) - 1 = L + K - last /\ Len(all) - (Len(all) - last + 1) + 1 = last
    <3> HIDE DEF L, K
    <3> QED
      BY ONLY <1>1, <1>5, <1>7
  <2>2. IsPart(g, all, (Len(all) - last + 1) - 1, Len(all) - (Len(all) - last + 1) + 1)
    BY <1>5, <2>1, PartOfText
  <2> QED
    BY <2>1, <2>2
<1> HIDE DEF h, g
<1>10. ASSUME NEW i \in 1..last
       PROVE  h[i] = g[i]
  <2> DEFINE j == n - last + i
  <2> HIDE DEF L, K
  <2>1. j \in 1..n /\ h[i] = later[j]
    <3>1. i \in 1..last
      BY <1>10
    <3>2. j \in 1..n
      BY ONLY <1>1, <1>7, <3>1
    <3> QED
      BY <1>8, <3>1, <3>2 DEF IsPart
  <2> DEFINE k == L + K - last + i
  <2>2. g[i] = all[k] /\ k \in 1..L + K /\ k = L - after + room + j
    <3>1. i \in 1..last
      BY <1>10
    <3>2. k \in 1..L + K /\ k = L - after + room + j
      BY ONLY <1>1, <1>7, <3>1
    <3> QED
      BY <1>9, <3>1, <3>2 DEF IsPart
  <2>3. later[j] = IF j <= after THEN tail[j] ELSE rest[j - after]
    <3>1. j \in 1..Len(tail) + Len(rest) /\ Len(tail) = after
      BY <1>1, <1>2, <2>1 DEF IsPart
    <3> QED
      BY <1>4, <3>1 DEF IsBoth
  <2> HIDE DEF j, k
  <2>4. all[k] = IF k <= L THEN text[k] ELSE chunk[k - L]
    BY <1>3, <2>2 DEF IsBoth, L, K
  <2>5. CASE j <= after
    <3>1. j \in 1..after /\ k = L - after + j /\ k <= L
      BY ONLY <1>1, <2>1, <2>2, <2>5, room = 0 \/ after = 0
    <3>2. tail[j] = text[L - after + j]
      BY <3>1 DEF IsPart, L
    <3>3. tail[j] = text[k] /\ all[k] = text[k]
      BY <2>4, <3>1, <3>2
    <3> QED
      BY <2>1, <2>2, <2>3, <2>5, <3>3
  <2>6. CASE ~ (j <= after)
    <3>1. j - after \in 1..K - room /\ k - L = room + (j - after) /\ ~ (k <= L)
      BY ONLY <1>1, <2>1, <2>2, <2>6
    <3>2. rest[j - after] = chunk[room + (j - after)]
      BY <1>2, <3>1 DEF IsPart
    <3>3. rest[j - after] = chunk[k - L] /\ all[k] = chunk[k - L]
      BY <2>4, <3>1, <3>2
    <3> QED
      BY <2>1, <2>2, <2>3, <2>6, <3>3
  <2> QED
    BY <2>5, <2>6
<1>11. h = g
  <2>1. h \in Seq(STRING) /\ Len(h) = last /\ g \in Seq(STRING) /\ Len(g) = last
    BY <1>8, <1>9 DEF IsPart
  <2> QED
    BY <1>10, <2>1, SameText
<1> QED
  BY <1>11 DEF h, g, from, last, later, all, n, rest, TailOf

(* The windows of a text of n bytes.                                       *)
LEMMA EndsOf ==
    ASSUME NEW s, NEW t, NEW n, Len(t) = n
    PROVE  /\ KeptOf(s, t) = Min({HeadLimit(s), n})
           /\ AfterOf(s, t) = Min({TailLimit(s), n - Min({HeadLimit(s), n})})
BY DEF KeptOf, AfterOf

(* _BoundedStreamCapture.add keeps the two windows of the whole text.      *)
LEMMA AddKeepsEnds ==
    ASSUME NEW s \in Streams, NEW cap, NEW text \in Seq(STRING), NEW chunk \in Seq(STRING),
           IsCapture(cap, s, text)
    PROVE  HeadIs(Add(cap, s, chunk), s, text \o chunk) /\ TailIs(Add(cap, s, chunk), s, text \o chunk)
<1> DEFINE H == HeadLimit(s)
           T == TailLimit(s)
           L == Len(text)
           K == Len(chunk)
           kept  == KeptOf(s, text)
           after == AfterOf(s, text)
           room  == Min({H - kept, K})
           all   == text \o chunk
           later == cap.tail \o SubSeq(chunk, room + 1, K)
           n     == after + K - room
<1>1. H \in Nat /\ T \in Nat /\ L \in Nat /\ K \in Nat
  BY LimitsTyped
<1>2. Windows(H, T, L, K, kept, room, after)
  <2>1. Cut(H, T, L, K, kept, room, after)
    BY DEF KeptOf, AfterOf, Cut
  <2> HIDE DEF H, T, L, K, kept, room, after
  <2> QED
    BY <1>1, <2>1, WindowsMove
<1>3. all \in Seq(STRING) /\ Len(all) = L + K
  OBVIOUS
<1>4. KeptOf(s, all) = kept + room /\ AfterOf(s, all) = Min({T, n})
  <2>1. KeptOf(s, all) = Min({H, L + K}) /\ AfterOf(s, all) = Min({T, L + K - Min({H, L + K})})
    <3>1. Len(all) = L + K
      BY <1>3
    <3> HIDE DEF all, L, K, H, T
    <3>2. KeptOf(s, all) = Min({H, Len(all)}) /\ AfterOf(s, all) = Min({T, Len(all) - Min({H, Len(all)})})
      BY EndsOf DEF H, T
    <3>3. {H, Len(all)} = {H, L + K}
      BY <3>1
    <3>4. KeptOf(s, all) = Min({H, L + K}) /\ AfterOf(s, all) = Min({T, Len(all) - Min({H, L + K})})
      BY <3>2, <3>3
    <3>5. Len(all) - Min({H, L + K}) = L + K - Min({H, L + K})
      <4>1. Min({H, L + K}) \in Int /\ L \in Int /\ K \in Int
        <5> HIDE DEF kept, room, after
        <5> QED
          BY <1>1, <1>2 DEF Windows
      <4> QED
        BY <3>1, <4>1
    <3> QED
      BY <3>4, <3>5
  <2> HIDE DEF all, H, T, L, K, kept, room, after
  <2> QED
    BY <1>2, <2>1 DEF Windows
<1>5. cap.head = SubSeq(text, 1, kept) /\ cap.tail = SubSeq(text, L - after + 1, L)
  BY DEF IsCapture, HeadIs, TailIs
<1>6. Add(cap, s, chunk).head = cap.head \o SubSeq(chunk, 1, room)
  <2>1. HeadLimit(s) - Len(cap.head) = H - kept
    <3>1. kept \in Nat /\ kept <= L
      BY <1>2 DEF Windows
    <3> HIDE DEF kept
    <3> QED
      BY <1>5, <3>1
  <2> HIDE DEF H, kept
  <2> QED
    BY <2>1 DEF Add
<1>7. Add(cap, s, chunk).tail = SubSeq(later, Max({1, Len(later) - T + 1}), Len(later))
  <2>1. HeadLimit(s) - Len(cap.head) = H - kept
    <3>1. kept \in Nat /\ kept <= L
      BY <1>2 DEF Windows
    <3> HIDE DEF kept
    <3> QED
      BY <1>5, <3>1
  <2> HIDE DEF H, kept
  <2> QED
    BY <2>1 DEF Add
<1>8. /\ kept \in 0..L /\ room \in 0..K /\ after \in 0..L
      /\ (room = 0 \/ kept = L) /\ (room = 0 \/ after = 0)
  <2> HIDE DEF H, T, L, K, kept, room, after
  <2> QED
    BY <1>1, <1>2 DEF Windows
<1>9. IsPart(cap.head, text, 0, kept)
  <2> HIDE DEF kept
  <2>1. 1 \in 1..Len(text) + 1 /\ kept \in 1 - 1..Len(text) /\ 1 - 1 = 0 /\ kept - 1 + 1 = kept
    BY <1>8
  <2> QED
    BY <1>5, <2>1, PartOfText
<1>10. IsPart(cap.tail, text, L - after, after)
  <2> HIDE DEF after
  <2>1. L - after + 1 \in 1..Len(text) + 1 /\ L \in (L - after + 1) - 1..Len(text)
        /\ (L - after + 1) - 1 = L - after /\ L - (L - after + 1) + 1 = after
    BY <1>1, <1>8
  <2> HIDE DEF L
  <2> QED
    BY <1>5, <2>1, PartOfText
<1>11. HeadIs(Add(cap, s, chunk), s, all)
  <2> HIDE DEF kept, room
  <2>1. HeadOf(text, chunk, cap.head, kept, room)
    BY <1>8, <1>9, AddKeepsHead DEF L, K
  <2> QED
    BY <1>4, <1>6, <2>1 DEF HeadIs, HeadOf
<1>12. TailIs(Add(cap, s, chunk), s, all)
  <2>1. TailOf(later, all, T, n)
    <3> HIDE DEF after, room, T
    <3> QED
      BY <1>1, <1>8, <1>10, AddKeepsTail
  <2> QED
    BY <1>4, <1>7, <2>1 DEF TailIs, TailOf
<1> QED
  BY <1>11, <1>12

(* Numbers moved by n are as many.                                         *)
Moved(S, n) == {i + n : i \in S}

(* Moving places does not change how many they are.                        *)
LEMMA MovedAreAsMany ==
    ASSUME NEW S \in SUBSET Int, IsFiniteSet(S), NEW n \in Int
    PROVE  IsFiniteSet(Moved(S, n)) /\ Cardinality(Moved(S, n)) = Cardinality(S)
<1> DEFINE f == [i \in S |-> i + n]
<1>1. f \in Bijection(S, Moved(S, n))
  <2>1. f \in [S -> Moved(S, n)]
    BY DEF Moved
  <2>2. \A i, j \in S : f[i] = f[j] => i = j
    OBVIOUS
  <2>3. \A k \in Moved(S, n) : \E i \in S : f[i] = k
    BY DEF Moved
  <2> HIDE DEF f
  <2> QED
    BY <2>1, <2>2, <2>3 DEF Bijection, Injection, Surjection, IsInjective
<1>2. ExistsBijection(S, Moved(S, n))
  BY <1>1 DEF ExistsBijection
<1> QED
  BY <1>2, FS_Bijection

(* Sets of places are finite.                                              *)
LEMMA PlacesTyped ==
    ASSUME NEW t \in Seq(STRING)
    PROVE  /\ \A b : Places(t, b) \subseteq 1..Len(t) /\ IsFiniteSet(Places(t, b))
                     /\ Cardinality(Places(t, b)) \in Nat
           /\ CRLFs(t) \subseteq 1..Len(t) /\ IsFiniteSet(CRLFs(t)) /\ Cardinality(CRLFs(t)) \in Nat
<1>1. IsFiniteSet(1..Len(t))
  BY FS_Interval
<1>2. \A b : Places(t, b) \subseteq 1..Len(t)
  BY DEF Places
<1>3. CRLFs(t) \subseteq 1..Len(t)
  BY <1>2 DEF CRLFs
<1> QED
  BY <1>1, <1>2, <1>3, FS_Subset, FS_CardinalityType

(* The places of a byte in one text after another.                         *)
PlacesSplit(t, u, b) == Places(t \o u, b) = Places(t, b) \cup Moved(Places(u, b), Len(t))

(* The places of a byte in two texts put together are those of both.       *)
LEMMA PlacesOfBoth ==
    ASSUME NEW t \in Seq(STRING), NEW u \in Seq(STRING), NEW b
    PROVE  PlacesSplit(t, u, b)
<1> DEFINE all == t \o u
           L == Len(t)
<1>1. IsBoth(all, t, u)
  BY TextsPutTogether
<1> HIDE DEF all
<1>2. ASSUME NEW i \in Places(all, b)
      PROVE  i \in Places(t, b) \cup Moved(Places(u, b), L)
  <2>1. i \in 1..L + Len(u) /\ all[i] = b
    BY <1>1, <1>2 DEF Places, IsBoth
  <2>2. CASE i <= L
    BY <1>1, <2>1, <2>2 DEF Places, IsBoth
  <2>3. CASE ~ (i <= L)
    <3>1. i - L \in 1..Len(u) /\ u[i - L] = b /\ i = (i - L) + L
      BY <1>1, <2>1, <2>3 DEF IsBoth
    <3>2. i - L \in Places(u, b)
      BY <3>1 DEF Places
    <3> QED
      BY <3>1, <3>2 DEF Moved
  <2> QED
    BY <2>2, <2>3
<1>3. ASSUME NEW i \in Places(t, b)
      PROVE  i \in Places(all, b)
  <2>1. i \in 1..L /\ t[i] = b
    BY <1>3 DEF Places
  <2>2. i \in 1..L + Len(u) /\ i <= L
    BY <2>1
  <2> QED
    BY <1>1, <2>1, <2>2 DEF Places, IsBoth
<1>4. ASSUME NEW i \in Moved(Places(u, b), L)
      PROVE  i \in Places(all, b)
  <2>1. PICK j \in Places(u, b) : i = j + L
    BY <1>4 DEF Moved
  <2>2. j \in 1..Len(u) /\ u[j] = b
    BY <2>1 DEF Places
  <2>3. i \in 1..L + Len(u) /\ ~ (i <= L) /\ i - L = j
    BY <2>1, <2>2
  <2> QED
    BY <1>1, <2>2, <2>3 DEF Places, IsBoth
<1> QED
  BY <1>2, <1>3, <1>4 DEF PlacesSplit, all

(* A chunk whose first byte completes a line break that the text before it *)
(* began.                                                                  *)
Halves(t, u) == LastOf(t) = "CR" /\ u[1] = "LF"
PairsSplit(t, u) ==
    CRLFs(t \o u) = CRLFs(t) \cup Moved(CRLFs(u), Len(t)) \cup (IF Halves(t, u) THEN {Len(t)} ELSE {})

(* A pair of CR and LF lies in either text or across the two.              *)
LEMMA PairsOfBoth ==
    ASSUME NEW t \in Seq(STRING), NEW u \in Seq(STRING), u # <<>>
    PROVE  PairsSplit(t, u)
<1> DEFINE all == t \o u
           L == Len(t)
           cr == Places(all, "CR")
           lf == Places(all, "LF")
<1>1. cr = Places(t, "CR") \cup Moved(Places(u, "CR"), L) /\ lf = Places(t, "LF") \cup Moved(Places(u, "LF"), L)
  <2>1. PlacesSplit(t, u, "CR") /\ PlacesSplit(t, u, "LF")
    BY PlacesOfBoth
  <2> QED
    BY <2>1 DEF PlacesSplit
<1>2. \A b : Places(t, b) \subseteq 1..L /\ Places(u, b) \subseteq 1..Len(u)
  BY PlacesTyped
<1>3. L \in Nat /\ Len(u) \in Nat /\ Len(u) >= 1
  OBVIOUS
<1>4. Halves(t, u) <=> (L \in Places(t, "CR") /\ 1 \in Places(u, "LF"))
  <2>1. CASE t = <<>>
    BY <2>1 DEF Halves, LastOf, Places
  <2>2. CASE t # <<>>
    <3>1. L \in 1..L /\ 1 \in 1..Len(u)
      BY <2>2, <1>3
    <3> QED
      BY <2>2, <3>1 DEF Halves, LastOf, Places
  <2> QED
    BY <2>1, <2>2
<1> HIDE DEF L, cr, lf
<1>5. ASSUME NEW i \in CRLFs(all)
      PROVE  i \in CRLFs(t) \cup Moved(CRLFs(u), L) \cup (IF Halves(t, u) THEN {L} ELSE {})
  <2>1. i \in cr /\ i + 1 \in lf
    BY DEF CRLFs, cr, lf
  <2>2. CASE i \in Places(t, "CR") /\ i + 1 \in Places(t, "LF")
    BY <2>2 DEF CRLFs
  <2>3. CASE i \in Places(t, "CR") /\ i + 1 \in Moved(Places(u, "LF"), L)
    <3>1. PICK j \in Places(u, "LF") : i + 1 = j + L
      BY <2>3 DEF Moved
    <3>2. i \in 1..L /\ j \in 1..Len(u)
      BY <1>2, <2>3
    <3>3. i = L /\ j = 1
      BY ONLY <1>3, <3>1, <3>2
    <3> QED
      BY <1>4, <2>3, <3>1, <3>3
  <2>4. CASE i \in Moved(Places(u, "CR"), L)
    <3>1. PICK j \in Places(u, "CR") : i = j + L
      BY <2>4 DEF Moved
    <3>2. j \in 1..Len(u)
      BY <1>2
    <3>3. i + 1 \notin Places(t, "LF")
      BY <1>2, <1>3, <3>1, <3>2
    <3>4. PICK k \in Places(u, "LF") : i + 1 = k + L
      BY <1>1, <2>1, <3>3 DEF Moved
    <3>5. k \in 1..Len(u)
      BY <1>2
    <3>6. k = j + 1
      BY ONLY <1>3, <3>1, <3>2, <3>4, <3>5
    <3>7. j \in CRLFs(u)
      BY <3>6 DEF CRLFs
    <3> QED
      BY <3>1, <3>7 DEF Moved
  <2> QED
    BY <1>1, <2>1, <2>2, <2>3, <2>4
<1>6. ASSUME NEW i \in CRLFs(t)
      PROVE  i \in CRLFs(all)
  BY <1>1, <1>6 DEF CRLFs, cr, lf
<1>7. ASSUME NEW i \in Moved(CRLFs(u), L)
      PROVE  i \in CRLFs(all)
  <2>1. PICK j \in CRLFs(u) : i = j + L
    BY <1>7 DEF Moved
  <2>2. j \in Places(u, "CR") /\ j + 1 \in Places(u, "LF") /\ j \in 1..Len(u)
    BY <1>2 DEF CRLFs
  <2>3. (j + 1) + L = i + 1
    BY <1>3, <2>1, <2>2
  <2>4. i \in Moved(Places(u, "CR"), L) /\ i + 1 \in Moved(Places(u, "LF"), L)
    BY <2>1, <2>2, <2>3 DEF Moved
  <2> QED
    BY <1>1, <2>4 DEF CRLFs, cr, lf
<1>8. ASSUME Halves(t, u)
      PROVE  L \in CRLFs(all)
  <2>1. L \in Places(t, "CR") /\ 1 \in Places(u, "LF")
    BY <1>4, <1>8
  <2>2. 1 + L = L + 1
    BY <1>3
  <2>3. L + 1 \in Moved(Places(u, "LF"), L)
    BY <2>1, <2>2 DEF Moved
  <2> QED
    BY <1>1, <2>1, <2>3 DEF CRLFs, cr, lf
<1> QED
  BY <1>5, <1>6, <1>7, <1>8 DEF PairsSplit, all, L

(* Two sets without a common member.                                       *)
LEMMA ApartAreAsMany ==
    ASSUME NEW S, NEW T, IsFiniteSet(S), IsFiniteSet(T), S \cap T = {}
    PROVE  IsFiniteSet(S \cup T) /\ Cardinality(S \cup T) = Cardinality(S) + Cardinality(T)
<1>1. Cardinality(S \cap T) = 0 /\ Cardinality(S) \in Nat /\ Cardinality(T) \in Nat
  BY FS_EmptySet, FS_CardinalityType
<1>2. IsFiniteSet(S \cup T)
      /\ Cardinality(S \cup T) = Cardinality(S) + Cardinality(T) - Cardinality(S \cap T)
  BY FS_Union
<1> QED
  BY <1>1, <1>2

(* _count_lines of a chunk adds to what was counted before, but for a line *)
(* break in halves.                                                        *)
BreaksAddUp(t, u) == Breaks(t \o u) = Breaks(t) + Breaks(u) - (IF Halves(t, u) THEN 1 ELSE 0)

(* The line breaks add up, but for a pair that was cut in two.             *)
LEMMA BreaksOfBoth ==
    ASSUME NEW t \in Seq(STRING), NEW u \in Seq(STRING), u # <<>>
    PROVE  BreaksAddUp(t, u)
<1> DEFINE L == Len(t)
           n(S) == Cardinality(S)
<1>1. ASSUME NEW b
      PROVE  n(Places(t \o u, b)) = n(Places(t, b)) + n(Places(u, b))
  <2>1. Places(t \o u, b) = Places(t, b) \cup Moved(Places(u, b), L)
    BY PlacesOfBoth DEF PlacesSplit
  <2>2. /\ Places(t, b) \subseteq 1..L /\ IsFiniteSet(Places(t, b))
        /\ Places(u, b) \subseteq 1..Len(u) /\ IsFiniteSet(Places(u, b))
    BY PlacesTyped
  <2>3. IsFiniteSet(Moved(Places(u, b), L)) /\ n(Moved(Places(u, b), L)) = n(Places(u, b))
    <3>1. Places(u, b) \in SUBSET Int /\ L \in Int
      BY <2>2
    <3> HIDE DEF L
    <3> QED
      BY <2>2, <3>1, MovedAreAsMany
  <2>4. Places(t, b) \cap Moved(Places(u, b), L) = {}
    BY <2>2 DEF Moved
  <2> HIDE DEF L
  <2> QED
    BY <2>1, <2>2, <2>3, <2>4, ApartAreAsMany
<1>2. n(CRLFs(t \o u)) = n(CRLFs(t)) + n(CRLFs(u)) + (IF Halves(t, u) THEN 1 ELSE 0)
  <2> DEFINE M == Moved(CRLFs(u), L)
             N == CRLFs(t) \cup M
  <2>1. CRLFs(t \o u) = N \cup (IF Halves(t, u) THEN {L} ELSE {})
    BY PairsOfBoth DEF PairsSplit
  <2>2. /\ CRLFs(t) \subseteq 1..L /\ IsFiniteSet(CRLFs(t)) /\ n(CRLFs(t)) \in Nat
        /\ CRLFs(u) \subseteq 1..Len(u) /\ IsFiniteSet(CRLFs(u)) /\ n(CRLFs(u)) \in Nat
    BY PlacesTyped
  <2>3. IsFiniteSet(M) /\ n(M) = n(CRLFs(u))
    <3>1. CRLFs(u) \in SUBSET Int /\ L \in Int
      BY <2>2
    <3> HIDE DEF L
    <3> QED
      BY <2>2, <3>1, MovedAreAsMany
  <2>4. CRLFs(t) \cap M = {}
    BY <2>2 DEF Moved
  <2>5. L \notin N
    <3>1. L \notin CRLFs(t)
      <4>1. \A i \in Places(t, "LF") : i <= L
        BY DEF Places
      <4>2. ~ (L + 1 <= L) /\ L \in Nat
        OBVIOUS
      <4> HIDE DEF L
      <4> QED
        BY <4>1, <4>2 DEF CRLFs
    <3>2. L \notin M
      BY <2>2 DEF Moved
    <3> QED
      BY <3>1, <3>2
  <2>6. IsFiniteSet(N) /\ n(N) = n(CRLFs(t)) + n(CRLFs(u))
    <3> HIDE DEF M
    <3> QED
      BY <2>2, <2>3, <2>4, ApartAreAsMany
  <2> HIDE DEF N, L
  <2>7. CASE Halves(t, u)
    <3>1. CRLFs(t \o u) = N \cup {L}
      BY <2>1, <2>7
    <3>2. n(CRLFs(t \o u)) = n(N) + 1
      BY <2>5, <2>6, <3>1, FS_AddElement
    <3> QED
      BY <2>6, <2>7, <3>2
  <2>8. CASE ~ Halves(t, u)
    <3>1. CRLFs(t \o u) = N
      BY <2>1, <2>8
    <3> QED
      BY <2>2, <2>6, <2>8, <3>1
  <2> QED
    BY <2>7, <2>8
<1>3. /\ \A b : n(Places(t, b)) \in Nat /\ n(Places(u, b)) \in Nat
      /\ n(CRLFs(t)) \in Nat /\ n(CRLFs(u)) \in Nat
  BY PlacesTyped
<1>4. /\ n(Places(t \o u, "CR")) = n(Places(t, "CR")) + n(Places(u, "CR"))
      /\ n(Places(t \o u, "LF")) = n(Places(t, "LF")) + n(Places(u, "LF"))
  BY <1>1
<1>5. n(Places(t, "CR")) \in Nat /\ n(Places(u, "CR")) \in Nat /\ n(Places(t, "LF")) \in Nat /\ n(Places(u, "LF")) \in Nat
  BY <1>3
<1> QED
  BY <1>2, <1>3, <1>4, <1>5 DEF BreaksAddUp, Breaks

(* _BoundedStreamCapture.add: the capture of the text and the chunk.       *)
LEMMA AddIsCapture ==
    ASSUME NEW s \in Streams, NEW cap, NEW text \in Seq(STRING), NEW chunk \in Seq(STRING),
           chunk # <<>>, IsCapture(cap, s, text)
    PROVE  IsCapture(Add(cap, s, chunk), s, text \o chunk)
<1> DEFINE all == text \o chunk
<1>1. HeadIs(Add(cap, s, chunk), s, all) /\ TailIs(Add(cap, s, chunk), s, all)
  BY AddKeepsEnds
<1>2. cap.total = Len(text) /\ cap.breaks = Breaks(text) /\ cap.last = LastOf(text)
  BY DEF IsCapture
<1>3. Add(cap, s, chunk).total = Len(all)
  BY <1>2 DEF Add
<1>4. Add(cap, s, chunk).breaks = Breaks(all)
  <2>1. Add(cap, s, chunk).breaks = cap.breaks + Breaks(chunk) - (IF cap.last = "CR" /\ chunk[1] = "LF" THEN 1 ELSE 0)
    BY DEF Add
  <2>2. Breaks(all) = Breaks(text) + Breaks(chunk) - (IF Halves(text, chunk) THEN 1 ELSE 0)
    BY BreaksOfBoth DEF BreaksAddUp
  <2> QED
    BY <1>2, <2>1, <2>2 DEF Halves
<1>5. Add(cap, s, chunk).last = LastOf(all)
  <2>1. Add(cap, s, chunk).last = chunk[Len(chunk)]
    BY DEF Add, Last
  <2>2. all # <<>> /\ all[Len(all)] = chunk[Len(chunk)]
    <3>1. Len(all) = Len(text) + Len(chunk) /\ Len(chunk) >= 1 /\ Len(all) >= 1
      OBVIOUS
    <3>2. IsBoth(all, text, chunk)
      BY TextsPutTogether
    <3> HIDE DEF all
    <3>3. ~ (Len(all) <= Len(text)) /\ Len(all) \in 1..Len(text) + Len(chunk) /\ Len(all) - Len(text) = Len(chunk)
      BY <3>1
    <3> QED
      BY <3>1, <3>2, <3>3 DEF IsBoth
  <2> QED
    BY <2>1, <2>2 DEF LastOf
<1> QED
  BY <1>1, <1>3, <1>4, <1>5 DEF IsCapture

(* A stream of which nothing was read.                                     *)
LEMMA NothingCaptured ==
    ASSUME NEW s \in Streams
    PROVE  IsCapture(NoCapture, s, <<>>)
<1> DEFINE H == HeadLimit(s)
           T == TailLimit(s)
<1>1. H \in Nat /\ T \in Nat
  BY LimitsTyped
<1> HIDE DEF H, T
<1>2. KeptOf(s, <<>>) = 0 /\ AfterOf(s, <<>>) = 0
  <2>1. Min({H, 0}) = 0
    BY <1>1, SmallerOf
  <2>2. 0 - 0 = 0 /\ Min({T, 0}) = 0
    BY <1>1, SmallerOf
  <2>3. KeptOf(s, <<>>) = 0
    BY <2>1 DEF KeptOf, H
  <2> QED
    BY <2>2, <2>3 DEF AfterOf, T
<1>3. SubSeq(<<>>, 1, 0) = <<>>
  BY SubSeqEmpty
<1>4. Places(<<>>, "CR") = {} /\ Places(<<>>, "LF") = {} /\ CRLFs(<<>>) = {}
  BY DEF Places, CRLFs
<1>5. Breaks(<<>>) = 0
  <2>1. Cardinality({}) = 0
    BY FS_EmptySet
  <2>2. Breaks(<<>>) = Cardinality({}) + Cardinality({}) - Cardinality({})
    BY <1>4, Zenon DEF Breaks
  <2> QED
    BY <2>1, <2>2
<1> QED
  BY <1>2, <1>3, <1>5 DEF IsCapture, HeadIs, TailIs, NoCapture, LastOf

(* _BoundedStreamCapture.total_lines: the line breaks are the line ends.   *)
LEMMA BreaksAreLineEnds ==
    ASSUME NEW t \in Seq(STRING)
    PROVE  Cardinality(LineEnds(t)) = Breaks(t)
<1> DEFINE cr == Places(t, "CR")
           lf == Places(t, "LF")
           pairs == CRLFs(t)
<1>1. /\ cr \subseteq 1..Len(t) /\ IsFiniteSet(cr) /\ Cardinality(cr) \in Nat
      /\ lf \subseteq 1..Len(t) /\ IsFiniteSet(lf) /\ Cardinality(lf) \in Nat
      /\ pairs \subseteq 1..Len(t) /\ IsFiniteSet(pairs) /\ Cardinality(pairs) \in Nat
  BY PlacesTyped
<1>2. cr \cap lf = {}
  BY DEF Places
<1>3. LineEnds(t) = (cr \cup lf) \ pairs
  <2>1. \A i \in 1..Len(t) : i # Len(t) => i + 1 \in 1..Len(t)
    OBVIOUS
  <2>2. Len(t) + 1 \notin 1..Len(t)
    OBVIOUS
  <2> QED
    BY <2>1, <2>2 DEF LineEnds, Places, CRLFs
<1>4. pairs \subseteq cr
  BY DEF CRLFs
<1> HIDE DEF cr, lf, pairs
<1>5. IsFiniteSet(cr \cup lf) /\ Cardinality(cr \cup lf) = Cardinality(cr) + Cardinality(lf)
  BY <1>1, <1>2, ApartAreAsMany
<1>6. (cr \cup lf) \cap pairs = pairs
  BY <1>4
<1>7. Cardinality((cr \cup lf) \ pairs) = Cardinality(cr \cup lf) - Cardinality(pairs)
  <2> DEFINE both == cr \cup lf
  <2>1. IsFiniteSet(both) /\ both \cap pairs = pairs
    BY <1>5, <1>6
  <2> HIDE DEF both
  <2>2. Cardinality(both \ pairs) = Cardinality(both) - Cardinality(both \cap pairs)
    BY <2>1, FS_Difference
  <2>3. Cardinality(both \ pairs) = Cardinality(both) - Cardinality(pairs)
    BY <2>1, <2>2
  <2> QED
    BY <2>3 DEF both
<1>8. Cardinality(LineEnds(t)) = Cardinality(cr) + Cardinality(lf) - Cardinality(pairs)
  BY <1>1, <1>3, <1>5, <1>7
<1> QED
  BY <1>8 DEF Breaks, cr, lf, pairs

(* What the capture says of a text is true of it.                          *)
CaptureTells(cap, s, text) ==
    LET kept  == Min({HeadLimit(s), Len(text)})
        after == Min({TailLimit(s), Len(text) - kept})
    IN  /\ cap.total = Len(text)
        /\ cap.head = SubSeq(text, 1, kept)
        /\ cap.tail = SubSeq(text, Len(text) - after + 1, Len(text))
        /\ LinesOf(cap) = Cardinality(LineEnds(text))
             + (IF text # <<>> /\ Len(text) \notin LineEnds(text) THEN 1 ELSE 0)

(* What CaptureExact asks of a capture follows.                            *)
LEMMA CapturesTell ==
    ASSUME NEW s \in Streams, NEW cap, NEW text \in Seq(STRING), IsCapture(cap, s, text)
    PROVE  CaptureTells(cap, s, text)
<1>1. cap.total = Len(text) /\ cap.breaks = Breaks(text) /\ cap.last = LastOf(text)
  BY DEF IsCapture
<1>2. Cardinality(LineEnds(text)) = Breaks(text)
  BY BreaksAreLineEnds
<1>3. Breaks(text) \in Int
  BY PlacesTyped DEF Breaks
<1>4. LinesOf(cap) = Breaks(text) + (IF text # <<>> /\ Len(text) \notin LineEnds(text) THEN 1 ELSE 0)
  <2>1. CASE text = <<>>
    <3>1. Places(text, "CR") = {} /\ Places(text, "LF") = {} /\ CRLFs(text) = {}
      BY <2>1 DEF Places, CRLFs
    <3>2. Breaks(text) = 0
      <4>1. Cardinality({}) = 0
        BY FS_EmptySet
      <4>2. Breaks(text) = Cardinality({}) + Cardinality({}) - Cardinality({})
        BY <3>1, Zenon DEF Breaks
      <4> QED
        BY <4>1, <4>2
    <3>3. Len(text) = 0
      BY <2>1
    <3> QED
      BY <1>1, <2>1, <3>2, <3>3 DEF LinesOf
  <2>2. CASE text # <<>>
    <3>1. Len(text) # 0 /\ Len(text) \in 1..Len(text)
      BY <2>2
    <3>2. Len(text) \in LineEnds(text) <=> text[Len(text)] \in {"LF", "CR"}
      BY <3>1 DEF LineEnds
    <3> QED
      BY <1>1, <1>3, <2>2, <3>1, <3>2 DEF LinesOf, LastOf
  <2> QED
    BY <2>1, <2>2
<1>5. cap.head = SubSeq(text, 1, KeptOf(s, text))
      /\ cap.tail = SubSeq(text, Len(text) - AfterOf(s, text) + 1, Len(text))
  BY DEF IsCapture, HeadIs, TailIs
<1> QED
  BY <1>1, <1>2, <1>4, <1>5 DEF CaptureTells, KeptOf, AfterOf

-----------------------------------------------------------------------------
(* Sums.                                                                   *)

(* Every set of numbers has a least one.                                   *)
LEMMA LeastNatural ==
    ASSUME NEW T \in SUBSET Nat, T # {}
    PROVE  \E m \in T : \A k \in T : m <= k
<1> DEFINE R == {p \in Nat \X Nat : p[1] < p[2]}
<1>1. IsWellFoundedOn(R, Nat)
  BY NatLessThanWellFounded DEF OpToRel
<1>2. \A x, y \in Nat : y < x => << y, x >> \in R
  OBVIOUS
<1> HIDE DEF R
<1>3. PICK x \in T : \A y \in T : ~ (<< y, x >> \in R)
  BY <1>1, WFMin
<1>4. ASSUME NEW k \in T
      PROVE  x <= k
  <2>1. x \in Nat /\ k \in Nat
    OBVIOUS
  <2>2. ~ (k < x)
    BY <1>2, <1>3, <2>1
  <2> QED
    BY ONLY <2>1, <2>2
<1> QED
  BY <1>4

(* Any member of a set, always the same one. *)
AnyOf(s) == CHOOSE x \in s : TRUE

(* A part of a finite set with one member less.                            *)
LEMMA OneLess ==
    ASSUME NEW s, IsFiniteSet(s), NEW x \in s
    PROVE  /\ Cardinality(s) \in Nat \ {0} /\ IsFiniteSet(s \ {x})
           /\ Cardinality(s \ {x}) = Cardinality(s) - 1
<1>1. Cardinality(s) \in Nat /\ Cardinality(s) # 0
  BY FS_CardinalityType, FS_EmptySet
<1> QED
  BY <1>1, FS_RemoveElement

(* The subsets with at most n members.                                     *)
UpTo(K, n) == {s \in SUBSET K : Cardinality(s) <= n}

(* The partial sums of the subsets of K with at most n members.            *)
IsTally(g, f, K, n) ==
    g = [s \in UpTo(K, n) |-> IF s = {} THEN 0 ELSE f[AnyOf(s)] + g[s \ {AnyOf(s)}]]

(* The sets of one size more.                                              *)
LEMMA NextLevel ==
    ASSUME NEW K, IsFiniteSet(K), NEW n \in Nat, NEW s \in UpTo(K, n + 1), s # {}
    PROVE  s \ {AnyOf(s)} \in UpTo(K, n)
<1>1. AnyOf(s) \in s
  BY DEF AnyOf
<1>2. s \in SUBSET K /\ Cardinality(s) <= n + 1
  BY DEF UpTo
<1>3. IsFiniteSet(s)
  BY <1>2, FS_Subset
<1>4. Cardinality(s) \in Nat \ {0} /\ Cardinality(s \ {AnyOf(s)}) = Cardinality(s) - 1
  BY <1>1, <1>3, OneLess
<1>5. Cardinality(s \ {AnyOf(s)}) <= n
  BY ONLY <1>2, <1>4, n \in Nat
<1> QED
  BY <1>2, <1>5 DEF UpTo

(* A function that adds up the terms of every small set exists.            *)
LEMMA TalliesExist ==
    ASSUME NEW K, IsFiniteSet(K), NEW f, NEW n \in Nat
    PROVE  \E g : IsTally(g, f, K, n)
<1> DEFINE Missing == {m \in Nat : ~ \E g : IsTally(g, f, K, m)}
<1>1. \E g : IsTally(g, f, K, 0)
  <2> DEFINE g == [s \in UpTo(K, 0) |-> 0]
  <2>1. \A s \in UpTo(K, 0) : s = {}
    <3> TAKE s \in UpTo(K, 0)
    <3>1. s \in SUBSET K /\ Cardinality(s) <= 0
      BY DEF UpTo
    <3>2. IsFiniteSet(s) /\ Cardinality(s) \in Nat
      BY <3>1, FS_Subset, FS_CardinalityType
    <3>3. Cardinality(s) = 0
      BY ONLY <3>1, <3>2
    <3> QED
      BY <3>2, <3>3, FS_EmptySet
  <2>2. IsTally(g, f, K, 0)
    BY <2>1 DEF IsTally
  <2> QED
    BY <2>2
<1>2. ASSUME NEW m \in Nat, NEW g, IsTally(g, f, K, m)
      PROVE  \E h : IsTally(h, f, K, m + 1)
  <2> DEFINE h == [s \in UpTo(K, m + 1) |-> IF s = {} THEN 0 ELSE f[AnyOf(s)] + g[s \ {AnyOf(s)}]]
  <2>1. \A s \in UpTo(K, m) : s \in UpTo(K, m + 1)
    <3> TAKE s \in UpTo(K, m)
    <3>1. s \in SUBSET K /\ Cardinality(s) <= m
      BY DEF UpTo
    <3>2. Cardinality(s) \in Nat
      BY <3>1, FS_Subset, FS_CardinalityType
    <3>3. Cardinality(s) <= m + 1
      BY ONLY <3>1, <3>2, m \in Nat
    <3> QED
      BY <3>1, <3>3 DEF UpTo
  <2>2. \A s \in UpTo(K, m) : h[s] = g[s]
    BY <1>2, <2>1 DEF IsTally
  <2>3. \A s \in UpTo(K, m + 1) : s # {} => h[s \ {AnyOf(s)}] = g[s \ {AnyOf(s)}]
    BY <2>2, NextLevel
  <2>4. IsTally(h, f, K, m + 1)
    BY <2>3 DEF IsTally
  <2> QED
    BY <2>4
<1>3. Missing = {}
  <2> SUFFICES ASSUME Missing # {}
               PROVE  FALSE
    OBVIOUS
  <2>1. PICK m \in Missing : \A k \in Missing : m <= k
    BY LeastNatural
  <2>2. m \in Nat /\ ~ \E g : IsTally(g, f, K, m)
    BY <2>1
  <2>3. m # 0
    BY <1>1, <2>2
  <2>4. m - 1 \in Nat /\ m - 1 \notin Missing /\ (m - 1) + 1 = m
    BY <2>1, <2>2, <2>3
  <2>5. \E g : IsTally(g, f, K, m - 1)
    BY <2>4
  <2> QED
    BY <1>2, <2>2, <2>4, <2>5
<1> QED
  BY <1>3

(* A sum is a member of its partial sums.                                  *)
LEMMA SumIsTallied ==
    ASSUME NEW K, IsFiniteSet(K), NEW f
    PROVE  \E g : IsTally(g, f, K, Cardinality(K)) /\ Sum(f, K) = g[K]
<1> DEFINE Tally(g) == g = [s \in SUBSET K |-> IF s = {} THEN 0 ELSE f[AnyOf(s)] + g[s \ {AnyOf(s)}]]
           iter == CHOOSE g : Tally(g)
<1>1. Cardinality(K) \in Nat
  BY FS_CardinalityType
<1>2. SUBSET K = UpTo(K, Cardinality(K))
  BY FS_Subset DEF UpTo
<1>3. \E g : Tally(g)
  <2>1. PICK g : IsTally(g, f, K, Cardinality(K))
    BY <1>1, TalliesExist
  <2>2. Tally(g)
    BY <1>2, <2>1 DEF IsTally
  <2> QED
    BY <2>2
<1>4. Tally(iter)
  <2> HIDE DEF Tally
  <2> QED
    BY <1>3
<1>5. Sum(f, K) = iter[K]
  BY DEF Sum, MapThenSumSet, MapThenFoldSet, AnyOf
<1> QED
  BY <1>2, <1>4, <1>5 DEF IsTally

(* Partial sums do not depend on the whole.                                *)
LEMMA TalliesAgree ==
    ASSUME NEW K, IsFiniteSet(K), NEW U \in SUBSET K, NEW f, NEW g, NEW h,
           IsTally(g, f, K, Cardinality(K)), IsTally(h, f, U, Cardinality(U))
    PROVE  g[U] = h[U]
<1> DEFINE Odd == {m \in Nat : \E s \in SUBSET U : Cardinality(s) = m /\ g[s] # h[s]}
<1>1. \A s \in SUBSET U : IsFiniteSet(s) /\ Cardinality(s) \in Nat
        /\ s \in UpTo(K, Cardinality(K)) /\ s \in UpTo(U, Cardinality(U))
  <2>1. IsFiniteSet(U)
    BY FS_Subset
  <2> TAKE s \in SUBSET U
  <2>2. IsFiniteSet(s) /\ Cardinality(s) \in Nat /\ Cardinality(s) <= Cardinality(U)
    BY <2>1, FS_Subset, FS_CardinalityType
  <2>3. s \in SUBSET K
    OBVIOUS
  <2>4. Cardinality(s) <= Cardinality(K)
    BY <2>3, FS_Subset
  <2> QED
    BY <2>2, <2>3, <2>4 DEF UpTo
<1>2. Odd = {}
  <2> SUFFICES ASSUME Odd # {}
               PROVE  FALSE
    OBVIOUS
  <2>1. PICK m \in Odd : \A k \in Odd : m <= k
    BY LeastNatural
  <2>2. PICK s \in SUBSET U : Cardinality(s) = m /\ g[s] # h[s]
    BY <2>1
  <2>3. /\ g[s] = IF s = {} THEN 0 ELSE f[AnyOf(s)] + g[s \ {AnyOf(s)}]
        /\ h[s] = IF s = {} THEN 0 ELSE f[AnyOf(s)] + h[s \ {AnyOf(s)}]
    BY <1>1 DEF IsTally
  <2>4. s # {}
    BY <2>2, <2>3
  <2>5. AnyOf(s) \in s
    BY <2>4 DEF AnyOf
  <2>6. m \in Nat \ {0} /\ Cardinality(s \ {AnyOf(s)}) = m - 1
    BY <1>1, <2>2, <2>5, OneLess
  <2>7. m - 1 \in Nat /\ m - 1 \notin Odd
    <3>1. m - 1 \in Nat /\ ~ (m <= m - 1)
      BY ONLY <2>6
    <3> QED
      BY <2>1, <3>1
  <2>8. g[s \ {AnyOf(s)}] = h[s \ {AnyOf(s)}]
    <3>1. s \ {AnyOf(s)} \in SUBSET U
      OBVIOUS
    <3> QED
      BY <2>6, <2>7, <3>1
  <2> QED
    BY <2>2, <2>3, <2>4, <2>8
<1>3. Cardinality(U) \in Nat /\ U \in SUBSET U
  BY <1>1
<1> QED
  BY <1>2, <1>3

(* A sum is one of its terms and the sum of the others.                    *)
LEMMA SumOfNext ==
    ASSUME NEW K, IsFiniteSet(K), NEW f
    PROVE  Sum(f, K) = IF K = {} THEN 0 ELSE f[AnyOf(K)] + Sum(f, K \ {AnyOf(K)})
<1>1. PICK g : IsTally(g, f, K, Cardinality(K)) /\ Sum(f, K) = g[K]
  BY SumIsTallied
<1>2. K \in UpTo(K, Cardinality(K))
  BY FS_CardinalityType DEF UpTo
<1>3. g[K] = IF K = {} THEN 0 ELSE f[AnyOf(K)] + g[K \ {AnyOf(K)}]
  BY <1>1, <1>2 DEF IsTally
<1> DEFINE U == K \ {AnyOf(K)}
<1>4. IsFiniteSet(U) /\ U \in SUBSET K
  BY FS_Subset
<1>5. PICK h : IsTally(h, f, U, Cardinality(U)) /\ Sum(f, U) = h[U]
  BY <1>4, SumIsTallied
<1>6. g[U] = h[U]
  BY <1>1, <1>4, <1>5, TalliesAgree
<1> QED
  BY <1>1, <1>3, <1>5, <1>6

(* Terms that are numbers. *)
Terms(f, K) == \A k \in K : f[k] \in Nat

(* Whichever term is taken out.                                            *)
Splits(f, K) == Sum(f, K) \in Nat /\ \A x \in K : Sum(f, K) = f[x] + Sum(f, K \ {x})

(* A sum is a number, and any of its terms can be taken out of it.         *)
LEMMA SumSplits ==
    ASSUME NEW K, IsFiniteSet(K), NEW f, Terms(f, K)
    PROVE  Splits(f, K)
<1> DEFINE Odd == {m \in Nat : \E s \in SUBSET K : Cardinality(s) = m /\ ~ Splits(f, s)}
<1>1. \A s \in SUBSET K : IsFiniteSet(s) /\ Cardinality(s) \in Nat
  BY FS_Subset, FS_CardinalityType
<1>2. Odd = {}
  <2> SUFFICES ASSUME Odd # {}
               PROVE  FALSE
    OBVIOUS
  <2>1. PICK m \in Odd : \A k \in Odd : m <= k
    BY LeastNatural
  <2>2. PICK s \in SUBSET K : Cardinality(s) = m /\ ~ Splits(f, s)
    BY <2>1
  <2>3. ASSUME NEW u \in SUBSET s, Cardinality(u) < m
        PROVE  Splits(f, u)
    <3>1. u \in SUBSET K /\ Cardinality(u) \in Nat
      BY <1>1
    <3>2. Cardinality(u) \notin Odd
      BY <2>1, <2>3, <3>1
    <3> QED
      BY <3>1, <3>2
  <2>4. s # {}
    <3>1. ASSUME s = {}
          PROVE  Splits(f, s)
      BY <1>1, <3>1, SumOfNext DEF Splits
    <3> QED
      BY <2>2, <3>1
  <2> DEFINE y == AnyOf(s)
  <2>5. y \in s
    BY <2>4 DEF AnyOf
  <2>6. Sum(f, s) = f[y] + Sum(f, s \ {y})
    BY <1>1, <2>4, SumOfNext
  <2> HIDE DEF y
  <2>7. ASSUME NEW x \in s
        PROVE  Splits(f, s \ {x})
    <3>1. Cardinality(s) \in Nat \ {0} /\ Cardinality(s \ {x}) = Cardinality(s) - 1
      BY <1>1, OneLess
    <3>2. Cardinality(s \ {x}) < m
      BY ONLY <2>2, <3>1
    <3> QED
      BY <2>3, <3>2
  <2>8. \A x \in s : f[x] \in Nat /\ Sum(f, s \ {x}) \in Nat
    BY <2>7 DEF Splits, Terms
  <2>9. Sum(f, s) \in Nat
    BY <2>5, <2>6, <2>8
  <2>10. ASSUME NEW x \in s
         PROVE  Sum(f, s) = f[x] + Sum(f, s \ {x})
    <3>1. CASE x = y
      BY <2>6, <3>1
    <3>2. CASE x # y
      <4>1. Sum(f, s \ {y}) = f[x] + Sum(f, (s \ {y}) \ {x})
        BY <2>5, <2>7, <3>2 DEF Splits
      <4>2. Sum(f, s \ {x}) = f[y] + Sum(f, (s \ {x}) \ {y})
        BY <2>5, <2>7, <3>2 DEF Splits
      <4>3. (s \ {y}) \ {x} = (s \ {x}) \ {y}
        OBVIOUS
      <4>4. Sum(f, (s \ {x}) \ {y}) \in Nat
        <5>1. (s \ {x}) \ {y} \in SUBSET s /\ IsFiniteSet(s \ {x}) /\ y \in s \ {x}
          BY <1>1, <2>5, <3>2
        <5>2. Cardinality((s \ {x}) \ {y}) = Cardinality(s \ {x}) - 1 /\ Cardinality(s \ {x}) = Cardinality(s) - 1
              /\ Cardinality(s) \in Nat
          BY <1>1, <5>1, OneLess
        <5>3. Cardinality((s \ {x}) \ {y}) < m
          BY ONLY <2>2, <5>2
        <5> QED
          BY <2>3, <5>1, <5>3 DEF Splits
      <4> DEFINE r == Sum(f, (s \ {x}) \ {y})
      <4>5. Sum(f, s) = f[y] + (f[x] + r) /\ Sum(f, s \ {x}) = f[y] + r
        BY <2>6, <4>1, <4>2, <4>3
      <4>6. f[x] \in Nat /\ f[y] \in Nat /\ r \in Nat
        BY <2>5, <2>8, <4>4
      <4> HIDE DEF r
      <4> QED
        BY ONLY <4>5, <4>6
    <3> QED
      BY <3>1, <3>2
  <2> QED
    BY <2>2, <2>9, <2>10 DEF Splits
<1>3. Cardinality(K) \in Nat /\ K \in SUBSET K
  BY <1>1
<1> QED
  BY <1>2, <1>3

(* The sum of nothing.                                                     *)
LEMMA SumOfNothing ==
    ASSUME NEW f
    PROVE  Sum(f, {}) = 0
BY FS_EmptySet, SumOfNext

(* What holds of nothing, and of a set when it holds of the set without    *)
(* one of its members, holds of every finite set.                          *)
LEMMA ByTakingOut ==
    ASSUME NEW K, IsFiniteSet(K), NEW G, {} \in G,
           \A s \in SUBSET K : s # {} => \E x \in s : s \ {x} \in G => s \in G
    PROVE  K \in G
<1> DEFINE Odd == {m \in Nat : \E s \in SUBSET K : Cardinality(s) = m /\ s \notin G}
<1>1. \A s \in SUBSET K : IsFiniteSet(s) /\ Cardinality(s) \in Nat
  BY FS_Subset, FS_CardinalityType
<1>2. Odd = {}
  <2> SUFFICES ASSUME Odd # {}
               PROVE  FALSE
    OBVIOUS
  <2>1. PICK m \in Odd : \A k \in Odd : m <= k
    BY LeastNatural
  <2>2. PICK s \in SUBSET K : Cardinality(s) = m /\ s \notin G
    BY <2>1
  <2>3. PICK x \in s : s \ {x} \in G => s \in G
    BY <2>2
  <2>4. m \in Nat \ {0} /\ Cardinality(s \ {x}) = m - 1
    BY <1>1, <2>2, OneLess
  <2>5. m - 1 \in Nat /\ ~ (m <= m - 1)
    BY ONLY <2>4
  <2>6. m - 1 \notin Odd
    BY <2>1, <2>5
  <2>7. s \ {x} \in SUBSET K
    OBVIOUS
  <2> QED
    BY <2>2, <2>3, <2>4, <2>5, <2>6, <2>7
<1>3. Cardinality(K) \in Nat /\ K \in SUBSET K
  BY <1>1
<1> QED
  BY <1>2, <1>3

(* Sums of the same terms.                                                 *)
LEMMA SumOfSame ==
    ASSUME NEW K, IsFiniteSet(K), NEW f, NEW g, Terms(f, K), \A k \in K : f[k] = g[k]
    PROVE  Sum(f, K) = Sum(g, K)
<1> DEFINE G == {s \in SUBSET K : Sum(f, s) = Sum(g, s)}
<1>1. {} \in G
  BY SumOfNothing
<1>2. ASSUME NEW s \in SUBSET K, NEW x \in s, s \ {x} \in G
      PROVE  s \in G
  <2>1. IsFiniteSet(s) /\ Terms(f, s) /\ Terms(g, s)
    BY FS_Subset DEF Terms
  <2>2. Sum(f, s) = f[x] + Sum(f, s \ {x}) /\ Sum(g, s) = g[x] + Sum(g, s \ {x})
    BY <2>1, SumSplits DEF Splits
  <2> QED
    BY <1>2, <2>2
<1>3. \A s \in SUBSET K : s # {} => \E x \in s : s \ {x} \in G => s \in G
  BY <1>2
<1> HIDE DEF G
<1>4. K \in G
  BY <1>1, <1>3, ByTakingOut
<1> QED
  BY <1>4 DEF G

(* The sum of a part and of the rest.                                      *)
LEMMA SumOfParts ==
    ASSUME NEW K, IsFiniteSet(K), NEW P \in SUBSET K, NEW f, Terms(f, K)
    PROVE  Sum(f, K) = Sum(f, P) + Sum(f, K \ P)
<1> DEFINE G == {s \in SUBSET P : Sum(f, K) = Sum(f, s) + Sum(f, K \ s)}
<1>1. \A s \in SUBSET K : IsFiniteSet(s) /\ Terms(f, s) /\ Splits(f, s)
  BY FS_Subset, SumSplits DEF Terms
<1>2. {} \in G
  <2>1. K \ {} = K /\ Sum(f, {}) = 0 /\ Sum(f, K) \in Nat
    BY <1>1, SumOfNothing DEF Splits
  <2> QED
    BY <2>1
<1>3. ASSUME NEW s \in SUBSET P, NEW x \in s, s \ {x} \in G
      PROVE  s \in G
  <2> DEFINE r == K \ (s \ {x})
  <2>1. s \in SUBSET K /\ s \ {x} \in SUBSET K /\ r \in SUBSET K /\ x \in r /\ r \ {x} = K \ s /\ K \ s \in SUBSET K
    OBVIOUS
  <2>2. Sum(f, s) = f[x] + Sum(f, s \ {x}) /\ Sum(f, r) = f[x] + Sum(f, K \ s)
    BY <1>1, <2>1 DEF Splits
  <2>3. Sum(f, K) = Sum(f, s \ {x}) + Sum(f, r)
    BY <1>3
  <2>4. Sum(f, s \ {x}) \in Nat /\ Sum(f, K \ s) \in Nat /\ f[x] \in Nat /\ Sum(f, s) \in Nat
    BY <1>1, <2>1 DEF Splits, Terms
  <2> HIDE DEF r
  <2>5. Sum(f, K) = Sum(f, s) + Sum(f, K \ s)
    BY ONLY <2>2, <2>3, <2>4
  <2> QED
    BY <2>5
<1>4. \A s \in SUBSET P : s # {} => \E x \in s : s \ {x} \in G => s \in G
  BY <1>3
<1>5. IsFiniteSet(P)
  BY <1>1
<1> HIDE DEF G
<1>6. P \in G
  BY <1>2, <1>4, <1>5, ByTakingOut
<1> QED
  BY <1>6 DEF G

(* The sum of no more than q from each.                                    *)
LEMMA SumAtMost ==
    ASSUME NEW K, IsFiniteSet(K), NEW f, Terms(f, K), NEW q \in Nat, \A k \in K : f[k] <= q
    PROVE  Sum(f, K) <= Cardinality(K) * q
<1> DEFINE G == {s \in SUBSET K : Sum(f, s) <= Cardinality(s) * q}
<1>1. {} \in G
  <2>1. Sum(f, {}) = 0 /\ Cardinality({}) = 0
    BY SumOfNothing, FS_EmptySet
  <2> QED
    BY <2>1
<1>2. ASSUME NEW s \in SUBSET K, NEW x \in s, s \ {x} \in G
      PROVE  s \in G
  <2>1. IsFiniteSet(s) /\ IsFiniteSet(s \ {x}) /\ Terms(f, s) /\ Terms(f, s \ {x})
    BY FS_Subset DEF Terms
  <2>2. Sum(f, s) = f[x] + Sum(f, s \ {x}) /\ Sum(f, s \ {x}) \in Nat /\ f[x] \in Nat /\ f[x] <= q
    BY <2>1, SumSplits DEF Splits, Terms
  <2>3. Cardinality(s) \in Nat \ {0} /\ Cardinality(s \ {x}) = Cardinality(s) - 1
    BY <2>1, OneLess
  <2>4. Sum(f, s \ {x}) <= Cardinality(s \ {x}) * q
    BY <1>2
  <2> DEFINE n == Cardinality(s)
  <2>5. (n - 1) * q = n * q - q
    <3>1. n \in Nat
      BY <2>3
    <3> HIDE DEF n
    <3> QED
      BY <3>1
  <2>6. n * q \in Nat
    <3>1. n \in Nat
      BY <2>3
    <3> HIDE DEF n
    <3> QED
      BY <3>1
  <2>7. Sum(f, s) <= n * q
    <3>1. Sum(f, s \ {x}) <= n * q - q
      BY <2>3, <2>4, <2>5
    <3> HIDE DEF n
    <3> QED
      BY ONLY <2>2, <2>6, <3>1, q \in Nat
  <2> QED
    BY <2>7
<1>3. \A s \in SUBSET K : s # {} => \E x \in s : s \ {x} \in G => s \in G
  BY <1>2
<1> HIDE DEF G
<1>4. K \in G
  BY <1>1, <1>3, ByTakingOut
<1> QED
  BY <1>4 DEF G

(* The sum of smaller terms.                                               *)
LEMMA SumOfLess ==
    ASSUME NEW K, IsFiniteSet(K), NEW f, NEW g, Terms(f, K), Terms(g, K), \A k \in K : f[k] <= g[k]
    PROVE  Sum(f, K) <= Sum(g, K)
<1> DEFINE G == {s \in SUBSET K : Sum(f, s) <= Sum(g, s)}
<1>1. {} \in G
  <2>1. Sum(f, {}) = 0 /\ Sum(g, {}) = 0
    BY SumOfNothing
  <2> QED
    BY <2>1
<1>2. ASSUME NEW s \in SUBSET K, NEW x \in s, s \ {x} \in G
      PROVE  s \in G
  <2>1. IsFiniteSet(s) /\ IsFiniteSet(s \ {x}) /\ Terms(f, s) /\ Terms(f, s \ {x}) /\ Terms(g, s) /\ Terms(g, s \ {x})
    BY FS_Subset DEF Terms
  <2>2. /\ Sum(f, s) = f[x] + Sum(f, s \ {x}) /\ Sum(g, s) = g[x] + Sum(g, s \ {x})
        /\ Sum(f, s \ {x}) \in Nat /\ Sum(g, s \ {x}) \in Nat
    BY <2>1, SumSplits DEF Splits
  <2>3. f[x] \in Nat /\ g[x] \in Nat /\ f[x] <= g[x] /\ Sum(f, s \ {x}) <= Sum(g, s \ {x})
    BY <1>2 DEF Terms
  <2>4. Sum(f, s) <= Sum(g, s)
    BY ONLY <2>2, <2>3
  <2> QED
    BY <2>4
<1>3. \A s \in SUBSET K : s # {} => \E x \in s : s \ {x} \in G => s \in G
  BY <1>2
<1> HIDE DEF G
<1>4. K \in G
  BY <1>1, <1>3, ByTakingOut
<1> QED
  BY <1>4 DEF G

(* A term is no more than the sum.                                         *)
LEMMA TermAtMostSum ==
    ASSUME NEW K, IsFiniteSet(K), NEW f, Terms(f, K), NEW k \in K
    PROVE  f[k] <= Sum(f, K)
<1>1. Sum(f, K) = f[k] + Sum(f, K \ {k}) /\ f[k] \in Nat
  BY SumSplits DEF Splits, Terms
<1>2. Sum(f, K \ {k}) \in Nat
  <2>1. IsFiniteSet(K \ {k}) /\ Terms(f, K \ {k})
    BY FS_Subset DEF Terms
  <2> QED
    BY <2>1, SumSplits DEF Splits
<1> QED
  BY <1>1, <1>2

-----------------------------------------------------------------------------
(* The division of a budget.                                               *)

(* Division with remainder.                                                *)
LEMMA Division ==
    ASSUME NEW L \in Nat, NEW n \in Nat \ {0}
    PROVE  /\ L \div n \in Nat /\ L % n \in 0..(n - 1)
           /\ L = n * (L \div n) + (L % n) /\ n * (L \div n) <= L
<1>1. L \div n \in Nat /\ L % n \in 0..(n - 1)
  OBVIOUS
<1>2. L \in Int /\ n \in Int /\ n > 0
  OBVIOUS
<1>3. L % n = L - n * (L \div n)
  OBVIOUS
<1> DEFINE r == L % n
           p == n * (L \div n)
<1>4. r \in Nat /\ p \in Nat /\ r = L - p
  BY <1>1, <1>3
<1> HIDE DEF r, p
<1>5. L = p + r /\ p <= L
  BY <1>4
<1> QED
  BY <1>1, <1>5 DEF p, r

(* What can be given to each of n is no more than the quotient.            *)
LEMMA QuotientIsLargest ==
    ASSUME NEW L \in Nat, NEW n \in Nat \ {0}, NEW q \in Nat, n * q <= L
    PROVE  q <= L \div n
<1> DEFINE d == L \div n
<1>1. d \in Nat /\ L = n * d + (L % n) /\ L % n \in 0..(n - 1)
  BY Division
<1> HIDE DEF d
<1>2. SUFFICES ASSUME d + 1 <= q
               PROVE  FALSE
  BY <1>1 DEF d
<1>3. n * (d + 1) <= n * q
  BY <1>1, <1>2
<1>4. n * (d + 1) = n * d + n
  BY <1>1
<1> QED
  BY <1>1, <1>3, <1>4

(* What is left for P, the equal share of its members, and those that need *)
(* no more than it.                                                        *)
LeftFor(needs, max, D, P)  == max - Sum(needs, D \ P)
ShareOf(needs, max, D, P)  == LeftFor(needs, max, D, P) \div Cardinality(P)
Fed(needs, max, D, P)      == {k \in P : needs[k] <= ShareOf(needs, max, D, P)}

(* While the budget is handed out: those that were fed needed no more than *)
(* an equal share of what is left.                                         *)
Halfway(needs, max, D, P) ==
    /\ P \in SUBSET D /\ Sum(needs, D \ P) <= max
    /\ P # {} => \A k \in D \ P : needs[k] <= ShareOf(needs, max, D, P)

(* The parts of a whole of finitely many needs. *)
LEMMA PartsOfNeeds ==
    ASSUME NEW D, IsFiniteSet(D), NEW needs, Terms(needs, D), NEW P \in SUBSET D
    PROVE  IsFiniteSet(P) /\ Cardinality(P) \in Nat /\ Terms(needs, P) /\ Sum(needs, P) \in Nat
<1>1. IsFiniteSet(P) /\ Terms(needs, P) /\ Cardinality(P) \in Nat
  BY FS_Subset, FS_CardinalityType DEF Terms
<1> QED
  BY <1>1, SumSplits DEF Splits

(* One round of _allocate_stream_token_budgets.                            *)
LEMMA FeedingGoesOn ==
    ASSUME NEW D, IsFiniteSet(D), NEW needs, Terms(needs, D), NEW max \in Nat,
           NEW P, Halfway(needs, max, D, P), P # {}
    PROVE  Halfway(needs, max, D, P \ Fed(needs, max, D, P))
<1> DEFINE F == Fed(needs, max, D, P)
           R == P \ F
           L == LeftFor(needs, max, D, P)
           n == Cardinality(P)
           m == Cardinality(F)
           q == L \div n
           given == Sum(needs, F)
           before == Sum(needs, D \ P)
           after  == Sum(needs, D \ R)
<1>1. P \in SUBSET D /\ before <= max /\ F \in SUBSET P /\ R \in SUBSET D /\ F \in SUBSET D
  BY DEF Halfway, Fed
<1>2. before \in Nat /\ given \in Nat /\ after \in Nat
  <2>1. D \ P \in SUBSET D /\ D \ R \in SUBSET D
    OBVIOUS
  <2> QED
    BY <1>1, <2>1, PartsOfNeeds
<1>3. L \in Nat /\ L = max - before
  <2>1. L = max - before
    BY DEF LeftFor
  <2> HIDE DEF L, before
  <2> QED
    BY <1>1, <1>2, <2>1
<1>4. n \in Nat \ {0} /\ m \in Nat /\ m <= n /\ IsFiniteSet(P) /\ IsFiniteSet(F) /\ Terms(needs, F)
  <2>1. n \in Nat /\ IsFiniteSet(P) /\ m \in Nat /\ IsFiniteSet(F) /\ Terms(needs, F)
    BY <1>1, PartsOfNeeds
  <2>2. n # 0
    BY <2>1, FS_EmptySet
  <2>3. m <= n
    BY <1>1, <2>1, FS_Subset
  <2> QED
    BY <2>1, <2>2, <2>3
<1>5. q \in Nat /\ n * q <= L
  <2> HIDE DEF L, n
  <2> QED
    BY <1>3, <1>4, Division
<1>6. \A k \in F : needs[k] <= q
  BY DEF Fed, ShareOf
<1>7. given <= m * q
  <2> HIDE DEF F, q
  <2> QED
    BY <1>4, <1>5, <1>6, SumAtMost
<1>8. after = before + given
  <2>1. D \ R \in SUBSET D /\ F \in SUBSET (D \ R) /\ (D \ R) \ F = D \ P
    BY <1>1
  <2>2. IsFiniteSet(D \ R) /\ Terms(needs, D \ R)
    BY <2>1, PartsOfNeeds
  <2> DEFINE U == D \ R
  <2>3. IsFiniteSet(U) /\ F \in SUBSET U /\ Terms(needs, U) /\ U \ F = D \ P
    BY <2>1, <2>2
  <2> HIDE DEF U, F
  <2>4. Sum(needs, U) = Sum(needs, F) + Sum(needs, U \ F)
    BY <2>3, SumOfParts
  <2>5. Sum(needs, U) = given + before
    BY <2>3, <2>4
  <2> HIDE DEF given, before
  <2>6. Sum(needs, U) = before + given
    BY ONLY <1>2, <2>5
  <2> QED
    BY <2>6 DEF U
<1>9. Cardinality(R) = n - m
  <2>1. P \cap F = F
    BY <1>1
  <2> HIDE DEF F
  <2>2. Cardinality(P \ F) = Cardinality(P) - Cardinality(P \cap F)
    BY <1>4, FS_Difference
  <2> QED
    BY <2>1, <2>2
<1>10. L - given \in Nat /\ (n - m) * q <= L - given /\ after <= max /\ LeftFor(needs, max, D, R) = L - given
  <2>1. LeftFor(needs, max, D, R) = max - after
    BY DEF LeftFor
  <2> HIDE DEF L, given, before, after, n, m, q, R
  <2>2. n * q \in Nat /\ m * q \in Nat /\ (n - m) * q = n * q - m * q /\ (n - m) * q \in Nat
    BY <1>4, <1>5
  <2> QED
    BY <1>1, <1>2, <1>3, <1>5, <1>7, <1>8, <2>1, <2>2
<1>11. ASSUME R # {}
       PROVE  q <= ShareOf(needs, max, D, R)
  <2>1. n - m \in Nat \ {0}
    <3>1. IsFiniteSet(R) /\ Cardinality(R) \in Nat
      BY <1>1, PartsOfNeeds
    <3>2. Cardinality(R) # 0
      BY <1>11, <3>1, FS_EmptySet
    <3> QED
      BY <1>9, <3>1, <3>2
  <2>2. ShareOf(needs, max, D, R) = (L - given) \div (n - m)
    BY <1>9, <1>10 DEF ShareOf
  <2> HIDE DEF L, given, n, m, q
  <2>3. q <= (L - given) \div (n - m)
    BY <1>5, <1>10, <2>1, QuotientIsLargest
  <2> QED
    BY <2>2, <2>3
<1>12. ASSUME R # {}, NEW k \in D \ R
       PROVE  needs[k] <= ShareOf(needs, max, D, R)
  <2>1. needs[k] <= q
    <3>1. CASE k \in F
      BY <1>6, <3>1
    <3>2. CASE k \notin F
      <4>1. k \in D \ P
        BY <1>12, <3>2
      <4> QED
        BY <4>1 DEF Halfway, ShareOf
    <3> QED
      BY <3>1, <3>2
  <2>2. needs[k] \in Nat
    BY <1>12 DEF Terms
  <2>3. ShareOf(needs, max, D, R) \in Int
    <3>1. Cardinality(R) \in Nat /\ IsFiniteSet(R)
      BY <1>1, PartsOfNeeds
    <3>2. Cardinality(R) \in Nat \ {0}
      BY <1>12, <3>1, FS_EmptySet
    <3>3. ShareOf(needs, max, D, R) = (L - given) \div Cardinality(R)
      BY <1>10 DEF ShareOf
    <3> HIDE DEF L, given, R
    <3> QED
      BY <1>10, <3>2, <3>3
  <2>4. q <= ShareOf(needs, max, D, R)
    BY <1>11, <1>12
  <2> HIDE DEF q, R
  <2> QED
    BY ONLY <1>5, <2>1, <2>2, <2>3, <2>4
<1>13. Sum(needs, D \ R) <= max
  BY <1>10
<1> HIDE DEF R
<1>14. Halfway(needs, max, D, R)
  BY <1>1, <1>12, <1>13 DEF Halfway
<1> QED
  BY <1>14 DEF R

(* The rounds from the parts with at most n members on.                    *)
IsFilling(g, needs, max, D, n) ==
    g = [P \in UpTo(D, n) |->
            IF P = {} \/ Fed(needs, max, D, P) = {} THEN P ELSE g[P \ Fed(needs, max, D, P)]]

(* What is not yet fed becomes less.                                       *)
LEMMA FewerAreLeft ==
    ASSUME NEW D, IsFiniteSet(D), NEW n \in Nat, NEW P \in UpTo(D, n + 1), NEW F \in SUBSET P, F # {}
    PROVE  P \ F \in UpTo(D, n)
<1>1. P \in SUBSET D /\ Cardinality(P) <= n + 1
  BY DEF UpTo
<1>2. IsFiniteSet(P) /\ IsFiniteSet(F) /\ Cardinality(P) \in Nat /\ Cardinality(F) \in Nat
  BY <1>1, FS_Subset, FS_CardinalityType
<1>3. Cardinality(F) # 0
  BY <1>2, FS_EmptySet
<1>4. P \cap F = F /\ Cardinality(P \ F) = Cardinality(P) - Cardinality(P \cap F)
  BY <1>2, FS_Difference
<1>5. Cardinality(P \ F) <= n
  BY <1>1, <1>2, <1>3, <1>4
<1> QED
  BY <1>1, <1>5 DEF UpTo

(* The function by which Unsatisfied is defined exists.                    *)
LEMMA FillingsExist ==
    ASSUME NEW D, IsFiniteSet(D), NEW needs, NEW max, NEW n \in Nat
    PROVE  \E g : IsFilling(g, needs, max, D, n)
<1> DEFINE F(P) == Fed(needs, max, D, P)
           Missing == {m \in Nat : ~ \E g : IsFilling(g, needs, max, D, m)}
<1>1. \E g : IsFilling(g, needs, max, D, 0)
  <2> DEFINE g == [P \in UpTo(D, 0) |-> P]
  <2>1. \A P \in UpTo(D, 0) : P = {}
    <3> TAKE s \in UpTo(D, 0)
    <3>1. s \in SUBSET D /\ Cardinality(s) <= 0
      BY DEF UpTo
    <3>2. IsFiniteSet(s) /\ Cardinality(s) \in Nat
      BY <3>1, FS_Subset, FS_CardinalityType
    <3>3. Cardinality(s) = 0
      BY ONLY <3>1, <3>2
    <3> QED
      BY <3>2, <3>3, FS_EmptySet
  <2>2. IsFilling(g, needs, max, D, 0)
    BY <2>1 DEF IsFilling
  <2> QED
    BY <2>2
<1>2. ASSUME NEW m \in Nat, NEW g, IsFilling(g, needs, max, D, m)
      PROVE  \E h : IsFilling(h, needs, max, D, m + 1)
  <2> DEFINE h == [P \in UpTo(D, m + 1) |-> IF P = {} \/ F(P) = {} THEN P ELSE g[P \ F(P)]]
  <2>1. \A s \in UpTo(D, m) : s \in UpTo(D, m + 1)
    <3> TAKE s \in UpTo(D, m)
    <3>1. s \in SUBSET D /\ Cardinality(s) <= m
      BY DEF UpTo
    <3>2. Cardinality(s) \in Nat
      BY <3>1, FS_Subset, FS_CardinalityType
    <3>3. Cardinality(s) <= m + 1
      BY ONLY <3>1, <3>2, m \in Nat
    <3> QED
      BY <3>1, <3>3 DEF UpTo
  <2>2. \A s \in UpTo(D, m) : h[s] = g[s]
    BY <1>2, <2>1 DEF IsFilling
  <2>3. \A P \in UpTo(D, m + 1) : F(P) # {} => P \ F(P) \in UpTo(D, m)
    <3>1. \A P : F(P) \in SUBSET P
      BY DEF Fed
    <3> HIDE DEF F
    <3> QED
      BY <3>1, FewerAreLeft
  <2>4. \A P \in UpTo(D, m + 1) : F(P) # {} => h[P \ F(P)] = g[P \ F(P)]
    BY <2>2, <2>3
  <2>5. IsFilling(h, needs, max, D, m + 1)
    BY <2>4 DEF IsFilling
  <2> QED
    BY <2>5
<1>3. Missing = {}
  <2> SUFFICES ASSUME Missing # {}
               PROVE  FALSE
    OBVIOUS
  <2>1. PICK m \in Missing : \A k \in Missing : m <= k
    BY LeastNatural
  <2>2. m \in Nat /\ ~ \E g : IsFilling(g, needs, max, D, m)
    BY <2>1
  <2>3. m # 0
    BY <1>1, <2>2
  <2>4. m - 1 \in Nat /\ m - 1 \notin Missing /\ (m - 1) + 1 = m
    BY <2>1, <2>2, <2>3
  <2>5. \E g : IsFilling(g, needs, max, D, m - 1)
    BY <2>4
  <2> QED
    BY <1>2, <2>2, <2>4, <2>5
<1> QED
  BY <1>3

(* Where the rounds end nobody can be fed.                                 *)
LEMMA FillingsSettle ==
    ASSUME NEW D, IsFiniteSet(D), NEW needs, Terms(needs, D), NEW max \in Nat,
           NEW g, IsFilling(g, needs, max, D, Cardinality(D)),
           NEW P, Halfway(needs, max, D, P)
    PROVE  Halfway(needs, max, D, g[P]) /\ (g[P] # {} => Fed(needs, max, D, g[P]) = {})
<1> DEFINE Settles(Q) == Halfway(needs, max, D, g[Q]) /\ (g[Q] # {} => Fed(needs, max, D, g[Q]) = {})
           Odd == {m \in Nat : \E Q : Halfway(needs, max, D, Q) /\ Cardinality(Q) = m /\ ~ Settles(Q)}
<1>1. ASSUME NEW Q, Halfway(needs, max, D, Q)
      PROVE  /\ IsFiniteSet(Q) /\ Cardinality(Q) \in Nat
             /\ g[Q] = IF Q = {} \/ Fed(needs, max, D, Q) = {} THEN Q ELSE g[Q \ Fed(needs, max, D, Q)]
  <2>1. Q \in SUBSET D
    BY <1>1 DEF Halfway
  <2>2. Q \in UpTo(D, Cardinality(D))
    BY <2>1, FS_Subset DEF UpTo
  <2>3. IsFiniteSet(Q) /\ Cardinality(Q) \in Nat
    BY <2>1, FS_Subset, FS_CardinalityType
  <2> QED
    BY <2>2, <2>3 DEF IsFilling
<1>2. Odd = {}
  <2> SUFFICES ASSUME Odd # {}
               PROVE  FALSE
    OBVIOUS
  <2>1. PICK m \in Odd : \A k \in Odd : m <= k
    BY LeastNatural
  <2>2. PICK Q : Halfway(needs, max, D, Q) /\ Cardinality(Q) = m /\ ~ Settles(Q)
    BY <2>1
  <2> DEFINE F == Fed(needs, max, D, Q)
  <2>3. Q # {} /\ F # {}
    <3>1. ASSUME Q = {} \/ F = {}
          PROVE  Settles(Q)
      <4>1. g[Q] = Q
        BY <1>1, <2>2, <3>1
      <4> QED
        BY <2>2, <3>1, <4>1
    <3> QED
      BY <2>2, <3>1
  <2>4. Halfway(needs, max, D, Q \ F)
    BY <2>2, <2>3, FeedingGoesOn
  <2>5. Cardinality(Q \ F) \in Nat /\ Cardinality(Q \ F) < m
    <3>1. F \in SUBSET Q
      BY DEF Fed
    <3>2. IsFiniteSet(Q) /\ Cardinality(Q) \in Nat /\ IsFiniteSet(F) /\ Cardinality(F) \in Nat
      BY <1>1, <2>2, <3>1, FS_Subset, FS_CardinalityType
    <3> HIDE DEF F
    <3>3. Cardinality(F) # 0
      BY <2>3, <3>2, FS_EmptySet
    <3>4. Q \cap F = F /\ Cardinality(Q \ F) = Cardinality(Q) - Cardinality(Q \cap F)
      BY <3>1, <3>2, FS_Difference
    <3>5. Cardinality(Q \ F) = Cardinality(Q) - Cardinality(F)
      BY <3>4
    <3>6. Cardinality(Q \ F) \in Nat
      BY <1>1, <2>4
    <3> QED
      BY ONLY <2>2, <3>2, <3>3, <3>5, <3>6
  <2>6. Cardinality(Q \ F) \notin Odd
    <3>1. m \in Nat /\ ~ (m <= Cardinality(Q \ F))
      BY <2>1, <2>5
    <3> QED
      BY <2>1, <3>1
  <2>7. Settles(Q \ F)
    BY <2>4, <2>5, <2>6
  <2>8. g[Q] = g[Q \ F]
    BY <1>1, <2>2, <2>3
  <2>9. Settles(Q)
    BY <2>7, <2>8
  <2> QED
    BY <2>2, <2>9
<1>3. Cardinality(P) \in Nat
  BY <1>1
<1> QED
  BY <1>2, <1>3

Demanding(needs) == {k \in DOMAIN needs : needs[k] > 0}

(* Those that get less than they need.                                     *)
LEMMA UnsatisfiedSettles ==
    ASSUME NEW needs, IsFiniteSet(DOMAIN needs), Terms(needs, DOMAIN needs), NEW max \in Nat
    PROVE  /\ Halfway(needs, max, Demanding(needs), Unsatisfied(needs, max))
           /\ Unsatisfied(needs, max) # {} =>
                Fed(needs, max, Demanding(needs), Unsatisfied(needs, max)) = {}
<1> DEFINE D == Demanding(needs)
           Filling(g) == g = [P \in SUBSET D |->
               IF P = {} \/ Fed(needs, max, D, P) = {} THEN P ELSE g[P \ Fed(needs, max, D, P)]]
           fill == CHOOSE g : Filling(g)
<1>1. IsFiniteSet(D) /\ Terms(needs, D) /\ Cardinality(D) \in Nat
  BY FS_Subset, FS_CardinalityType DEF Demanding, Terms
<1>2. SUBSET D = UpTo(D, Cardinality(D))
  BY <1>1, FS_Subset DEF UpTo
<1>3. \E g : Filling(g)
  <2>1. PICK g : IsFilling(g, needs, max, D, Cardinality(D))
    BY <1>1, FillingsExist
  <2>2. Filling(g)
    BY <1>2, <2>1 DEF IsFilling
  <2> QED
    BY <2>2
<1>4. Filling(fill)
  <2> HIDE DEF Filling
  <2> QED
    BY <1>3
<1>5. Unsatisfied(needs, max) = fill[D]
  BY DEF Unsatisfied, Fed, ShareOf, LeftFor, Demanding
<1>6. IsFilling(fill, needs, max, D, Cardinality(D))
  BY <1>2, <1>4 DEF IsFilling
<1>7. Halfway(needs, max, D, D)
  <2>1. D \ D = {} /\ Sum(needs, {}) = 0
    BY SumOfNothing
  <2> QED
    BY <2>1 DEF Halfway
<1> HIDE DEF fill, D
<1>8. Halfway(needs, max, D, fill[D]) /\ (fill[D] # {} => Fed(needs, max, D, fill[D]) = {})
  BY <1>1, <1>6, <1>7, FillingsSettle
<1> QED
  BY <1>5, <1>8 DEF D

(* How many members come before k.                                         *)
Before(R, k) == Cardinality({j \in R : j < k})

(* q each, and one more to each of the first r.                            *)
Dealt(R, q, r) == [k \in R |-> q + (IF Before(R, k) < r THEN 1 ELSE 0)]

DealsOut(R, q) == \A r \in 0..Cardinality(R) : Sum(Dealt(R, q, r), R) = Cardinality(R) * q + r

(* What is dealt out is a number for everybody.                            *)
LEMMA DealtTyped ==
    ASSUME NEW R, NEW q \in Nat, NEW r
    PROVE  Terms(Dealt(R, q, r), R) /\ \A k \in R : Dealt(R, q, r)[k] \in {q, q + 1}
BY DEF Dealt, Terms

(* Dealing out a remainder one by one gives away all of it.                *)
LEMMA DealingAddsUp ==
    ASSUME NEW K \in SUBSET Nat, IsFiniteSet(K), NEW q \in Nat
    PROVE  DealsOut(K, q)
<1> DEFINE G == {s \in SUBSET K : DealsOut(s, q)}
<1>1. {} \in G
  <2> SUFFICES ASSUME NEW r \in 0..Cardinality({})
               PROVE  Sum(Dealt({}, q, r), {}) = Cardinality({}) * q + r
    BY DEF DealsOut
  <2>1. Cardinality({}) = 0
    BY FS_EmptySet
  <2>2. r = 0
    BY <2>1
  <2>3. Sum(Dealt({}, q, r), {}) = 0
    BY SumOfNothing
  <2> QED
    BY <2>1, <2>2, <2>3
<1>2. ASSUME NEW s \in SUBSET K, NEW x \in s, \A k \in s : x <= k, s \ {x} \in G
      PROVE  s \in G
  <2> DEFINE u == s \ {x}
             n == Cardinality(s)
  <2>1. IsFiniteSet(s) /\ IsFiniteSet(u) /\ s \in SUBSET Nat /\ x \in Nat
    BY FS_Subset
  <2>2. n \in Nat \ {0} /\ Cardinality(u) = n - 1
    BY <2>1, OneLess
  <2>3. \A k \in s : Before(s, k) \in Nat /\ Before(u, k) \in Nat
    <3> TAKE k \in s
    <3>1. {j \in s : j < k} \in SUBSET s /\ {j \in u : j < k} \in SUBSET s
      OBVIOUS
    <3> QED
      BY <2>1, <3>1, FS_Subset, FS_CardinalityType DEF Before
  <2>4. Before(s, x) = 0
    <3>1. {j \in s : j < x} = {}
      <4> SUFFICES ASSUME NEW j \in s, j < x
                   PROVE  FALSE
        OBVIOUS
      <4>1. x <= j /\ j \in Nat
        BY <1>2, <2>1
      <4> QED
        BY ONLY <2>1, <4>1, j < x
    <3> QED
      BY <3>1, FS_EmptySet DEF Before
  <2>5. ASSUME NEW k \in u
        PROVE  Before(s, k) = Before(u, k) + 1
    <3> DEFINE b == {j \in u : j < k}
    <3>1. x < k
      <4>1. x <= k /\ k # x /\ k \in Nat
        BY <1>2, <2>1
      <4> QED
        BY ONLY <2>1, <4>1
    <3>2. {j \in s : j < k} = b \cup {x} /\ x \notin b
      BY <3>1
    <3>3. IsFiniteSet(b)
      BY <2>1, FS_Subset
    <3> HIDE DEF b
    <3>4. Cardinality(b \cup {x}) = Cardinality(b) + 1
      BY <3>2, <3>3, FS_AddElement
    <3> QED
      BY <3>2, <3>4 DEF Before, b
  <2>6. ASSUME NEW r \in 0..n
        PROVE  Sum(Dealt(s, q, r), s) = n * q + r
    <3> DEFINE f == Dealt(s, q, r)
               p == IF r = 0 THEN 0 ELSE r - 1
               g == Dealt(u, q, p)
    <3>1. p \in 0..(n - 1) /\ r \in Nat
      BY <2>2, <2>6
    <3>2. Sum(g, u) = (n - 1) * q + p
      <4>1. \A t \in 0..Cardinality(u) : Sum(Dealt(u, q, t), u) = Cardinality(u) * q + t
        BY <1>2 DEF DealsOut
      <4> HIDE DEF p, u, n
      <4> QED
        BY <2>2, <3>1, <4>1
    <3>3. \A k \in u : f[k] = g[k]
      <4> TAKE k \in u
      <4>1. k \in s /\ Before(s, k) = Before(u, k) + 1 /\ Before(u, k) \in Nat
        BY <2>3, <2>5
      <4>2. Before(s, k) < r <=> Before(u, k) < p
        BY ONLY <3>1, <4>1 DEF p
      <4> QED
        BY <4>1, <4>2 DEF Dealt
    <3>4. f[x] = q + (IF r = 0 THEN 0 ELSE 1)
      <4>1. Before(s, x) < r <=> r # 0
        BY <2>4, <3>1
      <4> QED
        BY <4>1 DEF Dealt
    <3>5. Terms(f, s) /\ Terms(f, u)
      BY DealtTyped DEF Terms
    <3> HIDE DEF f, g, u
    <3>6. Sum(f, u) = Sum(g, u)
      BY <2>1, <3>3, <3>5, SumOfSame
    <3>7. Sum(f, s) = f[x] + Sum(f, u)
      BY <2>1, <3>5, SumSplits DEF Splits, u
    <3> HIDE DEF n
    <3>8. Sum(f, s) = (q + (IF r = 0 THEN 0 ELSE 1)) + ((n - 1) * q + p)
      BY <3>2, <3>4, <3>6, <3>7
    <3>9. (n - 1) * q = n * q - q /\ n * q \in Nat
      BY <2>2
    <3>10. (IF r = 0 THEN 0 ELSE 1) + p = r
      BY <3>1 DEF p
    <3> DEFINE nq == n * q
    <3> HIDE DEF nq
    <3>11. Sum(f, s) = (q + (IF r = 0 THEN 0 ELSE 1)) + ((nq - q) + p) /\ nq \in Nat
      BY <3>8, <3>9 DEF nq
    <3>12. Sum(f, s) = nq + r
      BY <3>1, <3>10, <3>11 DEF p
    <3> QED
      BY <3>12 DEF nq, f
  <2> HIDE DEF u, n
  <2>7. DealsOut(s, q)
    BY <2>6 DEF DealsOut, n
  <2> QED
    BY <2>7
<1>3. ASSUME NEW s \in SUBSET K, s # {}
      PROVE  \E x \in s : s \ {x} \in G => s \in G
  <2>1. s \in SUBSET Nat
    OBVIOUS
  <2>2. PICK x \in s : \A k \in s : x <= k
    BY <1>3, <2>1, LeastNatural
  <2> HIDE DEF G
  <2> QED
    BY <1>2, <2>2
<1> HIDE DEF G
<1>4. K \in G
  BY <1>1, <1>3, ByTakingOut
<1> QED
  BY <1>4 DEF G

(* What _allocate_stream_token_budgets promises: all of the budget that is *)
(* needed is given away, nobody gets more than it needs, and a text that   *)
(* is cut gets no less than any other one, but for the remainder.          *)
FairShares(given, needs, max) ==
    /\ given \in [DOMAIN needs -> Nat]
    /\ Sum(given, DOMAIN needs) = Min({max, Sum(needs, DOMAIN needs)})
    /\ \A k \in DOMAIN needs : given[k] <= needs[k]
    /\ \A j, k \in DOMAIN needs : given[k] < needs[k] => given[j] <= given[k] + 1

(* _allocate_stream_token_budgets, for all needs and every budget.         *)
LEMMA AllocationIsFair ==
    ASSUME NEW needs, IsFiniteSet(DOMAIN needs), DOMAIN needs \in SUBSET Nat,
           Terms(needs, DOMAIN needs), NEW max \in Nat
    PROVE  FairShares(Allocate(needs, max), needs, max)
<1> DEFINE K == DOMAIN needs
           D == Demanding(needs)
           P == Unsatisfied(needs, max)
           n == Cardinality(P)
           rest == Sum(needs, K \ P)
           left == max - rest
           q == left \div n
           r == left % n
           given == Allocate(needs, max)
           all == Sum(needs, K)
<1>1. Halfway(needs, max, D, P) /\ (P # {} => Fed(needs, max, D, P) = {})
  BY UnsatisfiedSettles
<1>2. P \in SUBSET D /\ D \in SUBSET K /\ P \in SUBSET K
  BY <1>1 DEF Halfway, Demanding
<1>3. \A U \in SUBSET K : IsFiniteSet(U) /\ Cardinality(U) \in Nat /\ Terms(needs, U) /\ Sum(needs, U) \in Nat
  BY PartsOfNeeds
<1>4. rest = Sum(needs, D \ P)
  <2> DEFINE U == K \ P
             V == D \ P
             Z == U \ V
  <2>1. U \in SUBSET K /\ V \in SUBSET U /\ Z \in SUBSET K /\ V \in SUBSET K
    BY <1>2
  <2>2. IsFiniteSet(U) /\ Terms(needs, U) /\ IsFiniteSet(Z) /\ Terms(needs, Z) /\ Sum(needs, Z) \in Nat
        /\ Cardinality(Z) \in Nat /\ Sum(needs, V) \in Nat
    BY <1>3, <2>1
  <2>3. \A k \in Z : needs[k] <= 0
    <3> TAKE k \in Z
    <3>1. k \in K /\ k \notin D
      BY <1>2
    <3>2. needs[k] \in Nat /\ ~ (needs[k] > 0)
      BY <3>1 DEF Demanding, Terms
    <3> QED
      BY ONLY <3>2
  <2> HIDE DEF U, V
  <2>4. Sum(needs, U) = Sum(needs, V) + Sum(needs, U \ V)
    BY <2>1, <2>2, SumOfParts
  <2> HIDE DEF Z
  <2>5. Sum(needs, Z) <= Cardinality(Z) * 0
    BY <2>2, <2>3, SumAtMost
  <2>6. Cardinality(Z) * 0 = 0
    BY <2>2
  <2>7. Sum(needs, Z) = 0
    BY <2>2, <2>5, <2>6
  <2> QED
    BY <2>2, <2>4, <2>7 DEF U, V, Z
<1>5. rest \in Nat /\ left \in Nat
  <2>1. rest \in Nat /\ rest <= max
    BY <1>1, <1>2, <1>3, <1>4 DEF Halfway
  <2> HIDE DEF rest
  <2> QED
    BY <2>1
<1>6. n \in Nat /\ IsFiniteSet(P) /\ (P # {} => n # 0)
  BY <1>2, <1>3, FS_EmptySet
<1>7. /\ \A k \in K \ P : given[k] = needs[k]
      /\ \A k \in P : given[k] = q + (IF Before(P, k) < r THEN 1 ELSE 0)
      /\ DOMAIN given = K
  <2>1. given = [k \in K |-> IF k \notin P THEN needs[k]
                             ELSE q + (IF Before(P, k) < r THEN 1 ELSE 0)]
    BY DEF Allocate, Before
  <2> HIDE DEF given, q, r, P, K
  <2> QED
    BY <1>2, <2>1
<1>8. P # {} => /\ q \in Nat /\ r \in 0..(n - 1) /\ left = n * q + r
                /\ \A k \in P : given[k] \in {q, q + 1} /\ needs[k] > q
                /\ \A k \in D \ P : needs[k] <= q
  <2> SUFFICES ASSUME P # {}
               PROVE  /\ q \in Nat /\ r \in 0..(n - 1) /\ left = n * q + r
                      /\ \A k \in P : given[k] \in {q, q + 1} /\ needs[k] > q
                      /\ \A k \in D \ P : needs[k] <= q
    OBVIOUS
  <2>1. q \in Nat /\ r \in 0..(n - 1) /\ left = n * q + r
    <3>1. n \in Nat \ {0} /\ left \in Nat
      BY <1>5, <1>6
    <3> HIDE DEF n, left
    <3> QED
      BY <3>1, Division
  <2>2. ShareOf(needs, max, D, P) = q
    BY <1>4 DEF ShareOf, LeftFor
  <2> HIDE DEF q, P, given
  <2>3. \A k \in P : given[k] \in {q, q + 1}
    BY <1>7, <2>1
  <2>4. ASSUME NEW k \in P
        PROVE  needs[k] > q
    <3>1. ~ (needs[k] <= q)
      BY <1>1, <2>2 DEF Fed
    <3>2. needs[k] \in Nat
      BY <1>2 DEF Terms
    <3> QED
      BY <2>1, <3>1, <3>2
  <2>5. \A k \in D \ P : needs[k] <= q
    BY <1>1, <2>2 DEF Halfway
  <2> QED
    BY <2>1, <2>3, <2>4, <2>5
<1>9. ASSUME NEW k \in K
      PROVE  given[k] \in Nat /\ given[k] <= needs[k]
  <2>1. needs[k] \in Nat
    BY DEF Terms
  <2>2. CASE k \in P
    <3>1. q \in Nat /\ given[k] \in {q, q + 1} /\ needs[k] > q
      BY <1>8, <2>2
    <3> HIDE DEF q, given
    <3> QED
      BY <2>1, <3>1
  <2>3. CASE k \notin P
    <3>1. given[k] = needs[k]
      BY <1>7, <2>3
    <3> QED
      BY <2>1, <3>1
  <2> QED
    BY <2>2, <2>3
<1>10. ASSUME NEW j \in K, NEW k \in K, given[k] < needs[k]
       PROVE  given[j] <= given[k] + 1
  <2>1. k \in P
    <3>1. ASSUME k \notin P
          PROVE  FALSE
      <4>1. given[k] = needs[k] /\ needs[k] \in Nat
        BY <1>7, <3>1 DEF Terms
      <4> QED
        BY <1>10, <4>1
    <3> QED
      BY <3>1
  <2>2. q \in Nat /\ given[k] \in {q, q + 1}
    BY <1>8, <2>1
  <2>3. given[j] \in Nat /\ given[j] <= q + 1
    <3>1. CASE j \in P
      <4>1. given[j] \in {q, q + 1}
        BY <1>8, <3>1
      <4> HIDE DEF q, given
      <4> QED
        BY <2>2, <4>1
    <3>2. CASE j \notin P
      <4>1. given[j] = needs[j] /\ needs[j] \in Nat
        BY <1>7, <3>2 DEF Terms
      <4>2. needs[j] <= q
        <5>1. CASE j \in D
          BY <1>8, <2>1, <3>2, <5>1
        <5>2. CASE j \notin D
          <6>1. ~ (needs[j] > 0)
            BY <5>2 DEF Demanding
          <6> HIDE DEF q
          <6> QED
            BY <2>2, <4>1, <6>1
        <5> QED
          BY <5>1, <5>2
      <4> HIDE DEF q, given
      <4> QED
        BY <2>2, <4>1, <4>2
    <3> QED
      BY <3>1, <3>2
  <2> HIDE DEF q, given
  <2> QED
    BY <2>2, <2>3
<1>11. Terms(given, K) /\ \A U \in SUBSET K : Terms(given, U)
  BY <1>9 DEF Terms
<1>12. Sum(given, K) = Sum(given, P) + rest
  <2> HIDE DEF given
  <2>1. Sum(given, K) = Sum(given, P) + Sum(given, K \ P)
    BY <1>2, <1>11, SumOfParts
  <2>2. Sum(given, K \ P) = rest
    <3>1. IsFiniteSet(K \ P) /\ Terms(given, K \ P)
      BY <1>3, <1>11
    <3> HIDE DEF P
    <3> QED
      BY <1>7, <3>1, SumOfSame
  <2> QED
    BY <2>1, <2>2
<1>13. all \in Nat /\ all = Sum(needs, P) + rest /\ Sum(needs, P) \in Nat
  BY <1>2, <1>3, SumOfParts
<1>14. Sum(given, K) = Min({max, all})
  <2>1. Min({max, all}) = IF max <= all THEN max ELSE all
    <3> HIDE DEF all
    <3> QED
      BY <1>13, SmallerOf
  <2>2. CASE P = {}
    <3>1. Sum(given, P) = 0 /\ Sum(needs, P) = 0
      BY <2>2, SumOfNothing
    <3>2. Sum(given, K) = 0 + rest /\ all = 0 + rest
      BY <1>12, <1>13, <3>1
    <3>3. left = max - rest
      OBVIOUS
    <3> HIDE DEF all, rest, left, given
    <3>4. Sum(given, K) = all /\ all <= max
      BY ONLY <1>5, <3>2, <3>3, max \in Nat
    <3> QED
      BY <1>13, <2>1, <3>4
  <2>3. CASE P # {}
    <3>1. Sum(given, P) = n * q + r
      <4> DEFINE d == Dealt(P, q, r)
      <4>1. q \in Nat /\ r \in 0..n
        <5>1. q \in Nat /\ r \in 0..(n - 1) /\ n \in Nat
          BY <1>6, <1>8, <2>3
        <5> HIDE DEF q, r, n
        <5> QED
          BY <5>1
      <4>2. P \in SUBSET Nat
        BY <1>2
      <4>3. \A k \in P : given[k] = d[k]
        <5> HIDE DEF given, q, r, P
        <5> QED
          BY <1>7 DEF Dealt
      <4>4. Terms(given, P)
        BY <1>2, <1>11
      <4> HIDE DEF given, d, q, r, P
      <4>5. Sum(given, P) = Sum(d, P)
        BY <1>6, <4>3, <4>4, SumOfSame
      <4>6. DealsOut(P, q)
        BY <1>6, <4>1, <4>2, DealingAddsUp
      <4> QED
        BY <4>1, <4>5, <4>6 DEF DealsOut, d
    <3>2. left = n * q + r
      BY <1>8, <2>3
    <3>3. Sum(given, K) = left + rest /\ left = max - rest
      BY <1>12, <3>1, <3>2
    <3>4. Sum(given, K) = max
      <4> HIDE DEF left, rest, given
      <4> QED
        BY <1>5, <3>3
    <3>5. Sum(given, K) <= all
      <4> HIDE DEF given
      <4> QED
        BY <1>9, <1>11, SumOfLess
    <3> HIDE DEF all, given
    <3> QED
      BY <1>13, <2>1, <3>4, <3>5
  <2> QED
    BY <2>2, <2>3
<1>15. given \in [K -> Nat]
  <2>1. given = [k \in K |-> given[k]]
    BY DEF Allocate
  <2> HIDE DEF given
  <2> QED
    BY <1>9, <2>1
<1> HIDE DEF given
<1>16. FairShares(given, needs, max)
  BY <1>9, <1>10, <1>14, <1>15 DEF FairShares
<1> QED
  BY <1>16 DEF given

-----------------------------------------------------------------------------
(* What is shown.                                                          *)

ViewRecs == [need : [Streams -> Nat], shown : [Streams -> Nat], seam : AllSeams,
             cut : SUBSET Streams, oversized : BOOLEAN, alloc : [Streams -> Nat]]

(* A stream within what it was given, and marked if it is not whole.       *)
MarkedAt(v, s) == v.shown[s] # v.need[s] => s \in v.cut
KeepsAt(v, s)  == v.shown[s] <= v.alloc[s] /\ v.alloc[s] <= MaxTokens /\ MarkedAt(v, s)

(* A view between two rounds, and one that may be shown.                   *)
RoundView(v) == v \in ViewRecs /\ ~ v.oversized /\ \A s \in Streams : KeepsAt(v, s)

WithinBudget(v) == Fits(v) \/ (v.oversized /\ v.shown = v.need)
GoodView(v)     == v \in ViewRecs /\ WithinBudget(v) /\ \A s \in Streams : MarkedAt(v, s)

(* Texts may measure together what they measure alone.                     *)
LEMMA NoSeamTyped == 0 \in AllSeams
<1>1. SeamMax \in Nat
  BY BudgetAssumption
<1> QED
  BY <1>1 DEF AllSeams

(* The view with which the rendering begins.                               *)
LEMMA WholeTyped ==
    ASSUME NEW need \in [Streams -> Nat], NEW seam \in AllSeams
    PROVE  Whole(need, seam) \in ViewRecs
<1>1. <<MaxTokens, MaxTokens>> \in [Streams -> Nat]
  BY BudgetAssumption DEF Streams, stdout, stderr
<1> QED
  BY <1>1 DEF Whole, ViewRecs

(* A stream is given a tokens.                                             *)
ResizedWell(v, s, w) ==
    /\ w \in ViewRecs /\ ~ w.oversized /\ KeepsAt(w, s)
    /\ \A t \in Streams \ {s} : KeepsAt(v, t) => KeepsAt(w, t)

(* A stream that is given another share stays within it and is marked.     *)
LEMMA ResizingKeeps ==
    ASSUME NEW v \in ViewRecs, NEW s \in Streams, NEW a \in Nat, a <= MaxTokens, NEW w \in Resized(v, s, a)
    PROVE  ResizedWell(v, s, w)
<1>1. PICK t \in Truncated(v.need[s], a) : w.shown = [v.shown EXCEPT ![s] = t]
  BY DEF Resized
<1>2. /\ w.need = v.need /\ w.seam \in AllSeams /\ w.oversized = FALSE
      /\ w.alloc = [v.alloc EXCEPT ![s] = a]
      /\ w.cut = IF v.need[s] > a THEN v.cut \cup {s} ELSE v.cut \ {s}
      /\ w = [need |-> w.need, shown |-> w.shown, seam |-> w.seam, oversized |-> w.oversized,
              alloc |-> w.alloc, cut |-> w.cut]
  BY DEF Resized
<1>3. /\ v.need \in [Streams -> Nat] /\ v.shown \in [Streams -> Nat] /\ v.alloc \in [Streams -> Nat]
      /\ v.cut \in SUBSET Streams
  BY DEF ViewRecs
<1>4. t \in Nat /\ t <= a /\ (t # v.need[s] => v.need[s] > a)
  <2>1. v.need[s] \in Nat
    BY <1>3
  <2> QED
    BY <2>1 DEF Truncated
<1>5. w.shown \in [Streams -> Nat] /\ w.shown[s] = t /\ \A x \in Streams \ {s} : w.shown[x] = v.shown[x]
  BY <1>1, <1>3, <1>4
<1>6. w.alloc \in [Streams -> Nat] /\ w.alloc[s] = a /\ \A x \in Streams \ {s} : w.alloc[x] = v.alloc[x]
  BY <1>2, <1>3
<1>7. w.cut \in SUBSET Streams /\ (v.need[s] > a => s \in w.cut) /\ \A x \in Streams \ {s} : x \in v.cut => x \in w.cut
  BY <1>2, <1>3
<1>8. w \in ViewRecs
  BY <1>2, <1>3, <1>5, <1>6, <1>7 DEF ViewRecs
<1>9. KeepsAt(w, s)
  BY <1>2, <1>4, <1>5, <1>6, <1>7 DEF KeepsAt, MarkedAt
<1>10. ASSUME NEW x \in Streams \ {s}, KeepsAt(v, x)
       PROVE  KeepsAt(w, x)
  BY <1>2, <1>5, <1>6, <1>7, <1>10 DEF KeepsAt, MarkedAt
<1> QED
  BY <1>2, <1>8, <1>9, <1>10 DEF ResizedWell

(* The first division between the two streams.                             *)
LEMMA DividingKeeps ==
    ASSUME NEW v \in ViewRecs, NEW x \in Divided(v)
    PROVE  RoundView(x)
<1> DEFINE given == Allocate(v.need, MaxTokens)
<1>1. v.need \in [Streams -> Nat] /\ IsFiniteSet(Streams) /\ Streams \in SUBSET Nat
  <2>1. Streams = 1..2
    BY DEF Streams, stdout, stderr
  <2>2. IsFiniteSet(1..2)
    <3>1. 1 \in Int /\ 2 \in Int
      OBVIOUS
    <3> QED
      BY <3>1, FS_Interval
  <2> QED
    BY <2>1, <2>2 DEF ViewRecs
<1>2. FairShares(given, v.need, MaxTokens)
  <2>1. MaxTokens \in Nat /\ DOMAIN v.need = Streams /\ Terms(v.need, DOMAIN v.need)
    BY <1>1, BudgetAssumption DEF Terms
  <2> DEFINE needs == v.need
  <2>2. IsFiniteSet(DOMAIN needs) /\ DOMAIN needs \in SUBSET Nat /\ Terms(needs, DOMAIN needs)
    BY <1>1, <2>1
  <2> HIDE DEF needs
  <2>3. FairShares(Allocate(needs, MaxTokens), needs, MaxTokens)
    BY <2>1, <2>2, AllocationIsFair
  <2> QED
    BY <2>3 DEF needs
<1>3. \A s \in Streams : given[s] \in Nat /\ given[s] <= MaxTokens
  <2> HIDE DEF given
  <2>1. given \in [Streams -> Nat] /\ Sum(given, Streams) = Min({MaxTokens, Sum(v.need, Streams)})
    BY <1>1, <1>2 DEF FairShares
  <2>2. Terms(given, Streams) /\ Terms(v.need, Streams)
    BY <1>1, <2>1 DEF Terms
  <2>3. Sum(v.need, Streams) \in Nat
    BY <1>1, <2>2, SumSplits DEF Splits
  <2>4. Min({MaxTokens, Sum(v.need, Streams)}) <= MaxTokens
    <3> DEFINE b == Sum(v.need, Streams)
    <3>1. b \in Int /\ MaxTokens \in Int
      BY <2>3, BudgetAssumption
    <3> HIDE DEF b
    <3>2. Min({MaxTokens, b}) = IF MaxTokens <= b THEN MaxTokens ELSE b
      BY <3>1, SmallerOf
    <3>3. Min({MaxTokens, b}) <= MaxTokens
      BY <3>1, <3>2
    <3> QED
      BY <3>3 DEF b
  <2>5. \A s \in Streams : given[s] <= Sum(given, Streams)
    BY <1>1, <2>2, TermAtMostSum
  <2>6. Sum(given, Streams) \in Nat
    BY <1>1, <2>2, SumSplits DEF Splits
  <2> DEFINE total == Sum(given, Streams)
  <2>7. total <= MaxTokens /\ total \in Nat /\ \A s \in Streams : given[s] <= total /\ given[s] \in Nat
    BY <2>1, <2>4, <2>5, <2>6
  <2> HIDE DEF total
  <2> QED
    BY <2>7, BudgetAssumption
<1>4. PICK w \in Resized(v, stderr, given[stderr]) : x \in Resized(w, stdout, given[stdout])
  BY DEF Divided
<1>5. stderr \in Streams /\ stdout \in Streams /\ stderr # stdout /\ Streams = {stderr, stdout}
  BY DEF Streams, stderr, stdout
<1> HIDE DEF given
<1>6. ResizedWell(v, stderr, w)
  BY <1>3, <1>4, <1>5, ResizingKeeps
<1>7. ResizedWell(w, stdout, x)
  <2>1. w \in ViewRecs
    BY <1>6 DEF ResizedWell
  <2> QED
    BY <1>3, <1>4, <1>5, <2>1, ResizingKeeps
<1>8. KeepsAt(x, stderr) /\ KeepsAt(x, stdout)
  BY <1>5, <1>6, <1>7 DEF ResizedWell
<1> QED
  BY <1>5, <1>7, <1>8 DEF RoundView, ResizedWell

(* The size of what is shown. *)
LEMMA TotalTyped ==
    ASSUME NEW v \in ViewRecs
    PROVE  Total(v) \in Int /\ Largest(v) \in Streams /\ v.shown[stderr] \in Nat /\ v.shown[stdout] \in Nat
<1>1. v.shown[stderr] \in Nat /\ v.shown[stdout] \in Nat /\ v.seam \in Int
  BY DEF ViewRecs, Streams, AllSeams
<1> QED
  BY <1>1 DEF Total, Largest, Streams

(* A round of the tightening.                                              *)
LEMMA TighteningKeeps ==
    ASSUME NEW v, RoundView(v), NEW w \in Tightenings(v)
    PROVE  RoundView(w)
<1> DEFINE s == Largest(v)
           less == v.alloc[s] - (Total(v) - MaxTokens)
           a == Max({0, less})
<1>1. CASE Fits(v)
  BY <1>1 DEF Tightenings
<1>2. CASE ~ Fits(v)
  <2>1. w \in Resized(v, s, a)
    BY <1>2 DEF Tightenings
  <2>2. v \in ViewRecs /\ s \in Streams /\ Total(v) \in Int
    BY TotalTyped DEF RoundView
  <2>3. v.alloc[s] \in Nat /\ v.alloc[s] <= MaxTokens /\ Total(v) > MaxTokens /\ MaxTokens \in Nat
    <3>1. ~ (Total(v) <= MaxTokens) /\ MaxTokens \in Nat
      BY <1>2, BudgetAssumption DEF Fits
    <3>2. KeepsAt(v, s)
      BY <2>2 DEF RoundView
    <3> HIDE DEF s
    <3> QED
      BY <2>2, <3>1, <3>2 DEF ViewRecs, KeepsAt
  <2>4. a \in Nat /\ a <= MaxTokens
    <3>1. less \in Int /\ less <= MaxTokens
      <4> HIDE DEF s
      <4> QED
        BY <2>2, <2>3
    <3> HIDE DEF less
    <3>2. a = IF 0 >= less THEN 0 ELSE less
      BY <3>1, LargerOf
    <3> QED
      BY <2>3, <3>1, <3>2
  <2> HIDE DEF s, a
  <2>5. ResizedWell(v, s, w)
    BY <2>1, <2>2, <2>4, ResizingKeeps
  <2>6. \A t \in Streams : KeepsAt(w, t)
    BY <2>5 DEF ResizedWell, RoundView
  <2> QED
    BY <2>5, <2>6 DEF ResizedWell, RoundView
<1> QED
  BY <1>1, <1>2

(* What fits need not be cut, nor be marked as cut. *)
LEMMA FittingIsGood ==
    ASSUME NEW v, RoundView(v), Fits(v)
    PROVE  GoodView(v)
BY DEF RoundView, GoodView, WithinBudget, KeepsAt

(* The last resort fits.                                                   *)
LEMMA EmptyingFits ==
    ASSUME NEW v, RoundView(v)
    PROVE  GoodView(Emptied(v))
<1> DEFINE w == Emptied(v)
           s == Largest(v)
<1>t. v \in ViewRecs /\ s \in Streams /\ \A t \in Streams : KeepsAt(v, t)
  BY TotalTyped DEF RoundView
<1>1. w = [v EXCEPT !.shown = [v.shown EXCEPT ![s] = 0], !.alloc = [v.alloc EXCEPT ![s] = 0], !.seam = 0,
                    !.cut = IF v.need[s] > 0 THEN v.cut \cup {s} ELSE v.cut \ {s}]
  BY DEF Emptied
<1> HIDE DEF w, s
<1>2. /\ v.need \in [Streams -> Nat] /\ v.shown \in [Streams -> Nat] /\ v.alloc \in [Streams -> Nat]
      /\ v.cut \in SUBSET Streams
  BY <1>t DEF ViewRecs
<1>3. /\ w.need = v.need /\ w.shown = [v.shown EXCEPT ![s] = 0] /\ w.alloc = [v.alloc EXCEPT ![s] = 0]
      /\ w.seam = 0 /\ w.oversized = v.oversized
      /\ w.cut = IF v.need[s] > 0 THEN v.cut \cup {s} ELSE v.cut \ {s}
  BY <1>t, <1>1 DEF ViewRecs
<1>4. w \in ViewRecs
  BY <1>t, <1>1, <1>2, NoSeamTyped DEF ViewRecs
<1>5. w.shown[s] = 0 /\ \A t \in Streams \ {s} : w.shown[t] = v.shown[t]
  BY <1>t, <1>2, <1>3
<1>6. ASSUME NEW t \in Streams
      PROVE  MarkedAt(w, t)
  <2>1. CASE t = s
    <3>1. v.need[s] \in Nat
      BY <1>t, <1>2
    <3> QED
      BY <1>3, <1>5, <2>1, <3>1 DEF MarkedAt
  <2>2. CASE t # s
    <3>1. MarkedAt(v, t)
      BY <1>t DEF KeepsAt
    <3> QED
      BY <1>3, <1>5, <2>2, <3>1 DEF MarkedAt
  <2> QED
    BY <2>1, <2>2
<1>7. Total(w) <= MaxTokens
  <2>1. \A t \in Streams : v.shown[t] \in Nat /\ v.shown[t] <= MaxTokens
    <3> TAKE t \in Streams
    <3>1. v.shown[t] \in Nat /\ v.alloc[t] \in Nat /\ v.shown[t] <= v.alloc[t] /\ v.alloc[t] <= MaxTokens
      BY <1>t, <1>2 DEF KeepsAt
    <3> QED
      BY <3>1, BudgetAssumption
  <2>2. stderr \in Streams /\ stdout \in Streams /\ stderr # stdout /\ (s = stderr \/ s = stdout)
    BY <1>t DEF Streams, stderr, stdout
  <2>3. Total(w) = w.shown[stderr] + w.shown[stdout] + 0
    BY <1>3 DEF Total
  <2>4. CASE s = stderr
    <3>1. w.shown[stderr] = 0 /\ w.shown[stdout] = v.shown[stdout]
      BY <1>5, <2>2, <2>4
    <3> QED
      BY <2>1, <2>2, <2>3, <3>1
  <2>5. CASE s = stdout
    <3>1. w.shown[stdout] = 0 /\ w.shown[stderr] = v.shown[stderr]
      BY <1>5, <2>2, <2>5
    <3> QED
      BY <2>1, <2>2, <2>3, <3>1
  <2> QED
    BY <2>2, <2>4, <2>5
<1>8. GoodView(w)
  BY <1>4, <1>6, <1>7 DEF GoodView, WithinBudget, Fits
<1> QED
  BY <1>8 DEF w

(* The views after each round.                                             *)
AfterRounds(g, v, m) ==
    g = [n \in 0..m |-> IF n = 0 THEN Divided(v) ELSE UNION {Tightenings(w) : w \in g[n - 1]}]

(* The function by which Rendered is defined exists.                       *)
LEMMA RoundsExist ==
    ASSUME NEW v, NEW m \in Nat
    PROVE  \E g : AfterRounds(g, v, m)
<1> DEFINE Missing == {k \in Nat : ~ \E g : AfterRounds(g, v, k)}
<1>1. \E g : AfterRounds(g, v, 0)
  <2> DEFINE g == [n \in 0..0 |-> Divided(v)]
  <2>1. AfterRounds(g, v, 0)
    BY DEF AfterRounds
  <2> QED
    BY <2>1
<1>2. ASSUME NEW k \in Nat, NEW g, AfterRounds(g, v, k)
      PROVE  \E h : AfterRounds(h, v, k + 1)
  <2> DEFINE h == [n \in 0..k + 1 |-> IF n = 0 THEN Divided(v) ELSE UNION {Tightenings(w) : w \in g[n - 1]}]
  <2>1. \A n \in 0..k : n \in 0..k + 1
    OBVIOUS
  <2>2. \A n \in 0..k : h[n] = g[n]
    BY <1>2, <2>1 DEF AfterRounds
  <2>3. \A n \in 0..k + 1 : n # 0 => n - 1 \in 0..k
    OBVIOUS
  <2>4. \A n \in 0..k + 1 : n # 0 => h[n - 1] = g[n - 1]
    BY <2>2, <2>3
  <2>5. AfterRounds(h, v, k + 1)
    BY <2>4 DEF AfterRounds
  <2> QED
    BY <2>5
<1>3. Missing = {}
  <2> SUFFICES ASSUME Missing # {}
               PROVE  FALSE
    OBVIOUS
  <2>1. PICK k \in Missing : \A j \in Missing : k <= j
    BY LeastNatural
  <2>2. k \in Nat /\ ~ \E g : AfterRounds(g, v, k)
    BY <2>1
  <2>3. k # 0
    BY <1>1, <2>2
  <2>4. k - 1 \in Nat /\ k - 1 \notin Missing /\ (k - 1) + 1 = k
    BY <2>1, <2>2, <2>3
  <2>5. \E g : AfterRounds(g, v, k - 1)
    BY <2>4
  <2> QED
    BY <1>2, <2>2, <2>4, <2>5
<1> QED
  BY <1>3

(* However many rounds are made, what comes of them can be made to fit.    *)
LEMMA RoundsKeep ==
    ASSUME NEW v \in ViewRecs, NEW m \in Nat, NEW g, AfterRounds(g, v, m)
    PROVE  \A w \in g[m] : RoundView(w)
<1> DEFINE Odd == {k \in Nat : k <= m /\ \E w \in g[k] : ~ RoundView(w)}
<1>1. \A n \in 0..m : g[n] = IF n = 0 THEN Divided(v) ELSE UNION {Tightenings(w) : w \in g[n - 1]}
  BY DEF AfterRounds
<1>2. Odd = {}
  <2> SUFFICES ASSUME Odd # {}
               PROVE  FALSE
    OBVIOUS
  <2>1. PICK k \in Odd : \A j \in Odd : k <= j
    BY LeastNatural
  <2>2. k \in 0..m
    BY <2>1
  <2>3. PICK w \in g[k] : ~ RoundView(w)
    BY <2>1
  <2>4. k # 0
    BY <1>1, <2>2, <2>3, DividingKeeps
  <2>5. k - 1 \in Nat /\ k - 1 <= m /\ k - 1 \notin Odd
    BY <2>1, <2>2, <2>4
  <2>6. PICK u \in g[k - 1] : w \in Tightenings(u)
    <3>1. g[k] = UNION {Tightenings(u) : u \in g[k - 1]}
      BY <1>1, <2>2, <2>4
    <3> QED
      BY <2>3, <3>1
  <2>7. RoundView(u)
    BY <2>5, <2>6
  <2> QED
    BY <2>3, <2>6, <2>7, TighteningKeeps
<1> QED
  BY <1>2

(* _render_captured_output.                                                *)
LEMMA RenderedWell ==
    ASSUME NEW need \in [Streams -> Nat], NEW seam \in AllSeams, NEW line \in BOOLEAN,
           NEW w \in Rendered(Whole(need, seam), line)
    PROVE  GoodView(w)
<1> DEFINE v == Whole(need, seam)
           Rounding(g) == g = [n \in 0..Rounds - 1 |->
               IF n = 0 THEN Divided(v) ELSE UNION {Tightenings(u) : u \in g[n - 1]}]
           round == CHOOSE g : Rounding(g)
           last == round[Rounds - 1]
           tight == {x \in last : Fits(x)}
<1>1. v \in ViewRecs
  BY WholeTyped
<1>2. Rounding(round)
  <2>0. Rounds - 1 \in Nat
    BY BudgetAssumption
  <2>1. PICK g : AfterRounds(g, v, Rounds - 1)
    BY <2>0, RoundsExist
  <2>2. Rounding(g)
    BY <2>1, Zenon DEF AfterRounds
  <2> HIDE DEF Rounding
  <2> QED
    BY <2>2
<1>3. w \in IF Fits(v) THEN {v} ELSE IF line THEN {[v EXCEPT !.oversized = TRUE]}
            ELSE tight \cup {Emptied(u) : u \in UNION {Tightenings(x) : x \in last \ tight}}
  BY DEF Rendered
<1>4. v.shown = v.need
  BY DEF Whole
<1>5. CASE Fits(v)
  <2>1. w = v
    BY <1>3, <1>5
  <2> HIDE DEF v
  <2> QED
    BY <1>1, <1>4, <1>5, <2>1 DEF GoodView, WithinBudget, MarkedAt
<1>6. CASE ~ Fits(v) /\ line
  <2>1. w = [v EXCEPT !.oversized = TRUE]
    BY <1>3, <1>6
  <2> HIDE DEF v
  <2>2. w \in ViewRecs /\ w.oversized /\ w.shown = w.need
    BY <1>1, <1>4, <2>1 DEF ViewRecs
  <2> QED
    BY <2>2 DEF GoodView, WithinBudget, MarkedAt
<1>7. CASE ~ Fits(v) /\ ~ line
  <2>0. Rounds - 1 \in Nat
    BY BudgetAssumption
  <2>1. AfterRounds(round, v, Rounds - 1)
    BY <1>2 DEF AfterRounds
  <2>2. \A x \in last : RoundView(x)
    <3> HIDE DEF round, v
    <3> QED
      BY <1>1, <2>0, <2>1, RoundsKeep
  <2>3. w \in tight \/ \E x \in last : \E u \in Tightenings(x) : w = Emptied(u)
    <3> HIDE DEF last, v
    <3> QED
      BY <1>3, <1>7
  <2> HIDE DEF last, v
  <2>4. CASE w \in tight
    BY <2>2, <2>4, FittingIsGood
  <2>5. CASE \E x \in last : \E u \in Tightenings(x) : w = Emptied(u)
    <3>0. PICK x \in last : \E u \in Tightenings(x) : w = Emptied(u)
      BY <2>5
    <3>1. PICK u \in Tightenings(x) : w = Emptied(u)
      BY <3>0
    <3>2. RoundView(u)
      BY <2>2, <3>1, TighteningKeeps
    <3> QED
      BY <3>1, <3>2, EmptyingFits
  <2> QED
    BY <2>3, <2>4, <2>5
<1> QED
  BY <1>5, <1>6, <1>7

-----------------------------------------------------------------------------
(* The invariant.                                                          *)

(* A command, whatever its state.                                          *)
CapRecs == [head : Seq(STRING), tail : Seq(STRING), total : Nat, breaks : Int, last : STRING \cup {"none"}]
RunRecs == [pc : {"queued", "waiting", "joining", "term", "grace", "collect", "closing", "render", "answered"},
            leader : {"none", "running", "ok", "failed", "killed"},
            kid : Kids, kidState : {"none", "running", "gone"},
            expired : BOOLEAN, timedOut : BOOLEAN,
            code : {"none", "not_started", "ok", "failed", "timed_out"},
            written : [Streams -> Seq(STRING)], taken : [Streams -> Nat],
            open : SUBSET Streams, cap : [Streams -> CapRecs], view : ViewRecs]

(* Held and Members of a command's record.                                 *)
HeldIn(r, s) == r.leader = "running" \/ (r.kidState = "running" /\ s \in r.kid.holds)
AliveIn(r)   == r.leader = "running" \/ (r.kidState = "running" /\ ~ r.kid.escaped)

(* How far a call is says what may have become of its processes.           *)
Course(r) ==
    /\ r.pc \in {"queued", "waiting", "joining"} => ~ r.timedOut
    /\ r.pc \in {"term", "grace", "collect", "closing"} => r.timedOut
    /\ r.pc = "queued" => r.leader = "none" /\ r.kidState = "none"
    /\ r.pc = "waiting" => r.leader \in {"running", "ok", "failed"}
    /\ r.pc = "joining" => r.leader \in {"ok", "failed"}
    /\ r.pc = "render" /\ ~ r.timedOut => r.leader \in {"ok", "failed"} /\ r.open = {}
    /\ r.pc \in {"queued", "answered"} => r.open = {}
    /\ r.pc = "answered" => r.leader # "running"

Killed(r) == r.timedOut /\ r.pc \notin {"term", "grace"} => ~ AliveIn(r)

(* A pipe that was read to its end has no holder and nothing left in it.   *)
Reading(r) ==
    \A s \in Streams :
        /\ r.taken[s] <= Len(r.written[s])
        /\ r.pc \notin {"queued", "answered"} /\ ~ r.timedOut /\ s \notin r.open =>
              ~ HeldIn(r, s) /\ r.taken[s] = Len(r.written[s])

(* The capture of a stream is that of the text that was read from it.      *)
TextOf(r, s) == SubSeq(r.written[s], 1, r.taken[s])
Capturing(r) == \A s \in Streams : IsCapture(r.cap[s], s, TextOf(r, s))

Sound(r) == Course(r) /\ Killed(r) /\ Reading(r) /\ Capturing(r) /\ GoodView(r.view)

(* The commands and their workers.                                         *)
RunsSound == batch \in Batches /\ run \in [Runs -> RunRecs] /\ \A c \in Runs : Sound(run[c])
Crewed    == Cardinality(Active) <= batch.width

(* The answer, and the shares it was made with.                            *)
Replied ==
    /\ reply.kind \in {"none", "refused", "single", "batch"}
    /\ reply.kind = "batch" =>
          /\ reply.is \in [level : {"full", "compact", "summary"}, complete : BOOLEAN]
          /\ \A c \in Runs : run[c].pc = "answered"
          /\ FairShares(reply.shares, Needs, MaxTokens \div 2)

CInv == RunsSound /\ Crewed /\ Replied

-----------------------------------------------------------------------------
(* The steps of one command.                                               *)

Working(r) == r.pc \notin {"queued", "answered"}

(* A step leaves a command as sound as it was, and does not touch what was *)
(* answered.                                                               *)
StepOf(r, q) ==
    /\ q \in RunRecs /\ Sound(q)
    /\ r.pc = "answered" => q.pc = "answered" /\ q.view = r.view
Continues(r, q) == StepOf(r, q) /\ (Working(q) => Working(r))

(* What the views and captures do not depend on.                           *)
LEMMA SameReading ==
    ASSUME NEW r, NEW q, Sound(r), q.written = r.written, q.taken = r.taken, q.cap = r.cap, q.view = r.view
    PROVE  Capturing(q) /\ GoodView(q.view) /\ \A s \in Streams : q.taken[s] <= Len(q.written[s])
<1>1. Capturing(q)
  BY DEF Sound, Capturing, TextOf
<1>2. \A s \in Streams : r.taken[s] <= Len(r.written[s])
  BY DEF Sound, Reading
<1> QED
  BY <1>1, <1>2 DEF Sound

(* A command that has not started.                                         *)
LEMMA FreshIsSound ==
    Fresh \in RunRecs /\ Sound(Fresh) /\ GoodView(NoView)
<1>1. [s \in Streams |-> 0] \in [Streams -> Nat] /\ NoKid \in Kids
  BY DEF NoKid, Kids
<1>2. NoView \in ViewRecs
  BY <1>1, NoSeamTyped, WholeTyped DEF NoView
<1>3. NoCapture \in CapRecs
  <2>1. <<>> \in Seq(STRING)
    OBVIOUS
  <2>2. 0 \in Nat /\ 0 \in Int
    OBVIOUS
  <2>3. "none" \in STRING \cup {"none"}
    OBVIOUS
  <2> QED
    BY <2>1, <2>2, <2>3, Zenon DEF NoCapture, CapRecs
<1>4. Fresh \in RunRecs
  BY <1>1, <1>2, <1>3 DEF Fresh, RunRecs
<1>5. GoodView(NoView)
  <2>1. NoView.shown = NoView.need /\ NoView.shown = [s \in Streams |-> 0] /\ NoView.seam = 0
    BY DEF NoView, Whole
  <2>2. Total(NoView) = 0
    BY <2>1 DEF Total, Streams
  <2>3. Fits(NoView)
    BY <2>2, BudgetAssumption DEF Fits
  <2> QED
    BY <1>2, <2>1, <2>3 DEF GoodView, WithinBudget, MarkedAt
<1>6. \A s \in Streams : TextOf(Fresh, s) = <<>> /\ Fresh.taken[s] = 0 /\ Len(Fresh.written[s]) = 0
  BY DEF TextOf, Fresh
<1>7. \A s \in Streams : IsCapture(Fresh.cap[s], s, TextOf(Fresh, s))
  BY <1>6, NothingCaptured DEF Fresh
<1>8. Fresh.pc = "queued" /\ Fresh.leader = "none" /\ Fresh.kidState = "none" /\ ~ Fresh.timedOut
      /\ Fresh.open = {} /\ Fresh.view = NoView
  BY DEF Fresh
<1> QED
  BY <1>4, <1>5, <1>6, <1>7, <1>8 DEF Sound, Course, Killed, Reading, Capturing

(* A process writes into a pipe that is still read.                        *)
LEMMA WriteKeeps ==
    ASSUME NEW r \in RunRecs, Sound(r), NEW s \in Streams, NEW b \in STRING, HeldIn(r, s), s \in r.open
    PROVE  Continues(r, [r EXCEPT !.written[s] = Append(@, b)])
<1> DEFINE q == [r EXCEPT !.written[s] = Append(@, b)]
<1>1. /\ r.written \in [Streams -> Seq(STRING)] /\ r.taken \in [Streams -> Nat]
      /\ \A t \in Streams : r.taken[t] <= Len(r.written[t])
  BY DEF RunRecs, Sound, Reading
<1>2. /\ q.pc = r.pc /\ q.leader = r.leader /\ q.kid = r.kid /\ q.kidState = r.kidState
      /\ q.timedOut = r.timedOut /\ q.taken = r.taken /\ q.open = r.open /\ q.cap = r.cap
      /\ q.view = r.view /\ q.written = [r.written EXCEPT ![s] = Append(@, b)]
  BY DEF RunRecs
<1>3. q.written[s] = Append(r.written[s], b) /\ \A t \in Streams \ {s} : q.written[t] = r.written[t]
  BY <1>1, <1>2
<1>4. q \in RunRecs
  <2>1. r.written[s] \in Seq(STRING)
    BY <1>1
  <2>2. Append(r.written[s], b) \in Seq(STRING)
    BY <2>1
  <2>3. [r.written EXCEPT ![s] = Append(@, b)] \in [Streams -> Seq(STRING)]
    BY <1>1, <2>2
  <2> HIDE <1>2
  <2> QED
    BY <2>3 DEF RunRecs
<1> HIDE DEF q
<1>5. Course(q) /\ Killed(q) /\ GoodView(q.view)
  BY <1>2 DEF Sound, Course, Killed, AliveIn
<1>6. \A t \in Streams : TextOf(q, t) = TextOf(r, t) /\ q.taken[t] <= Len(q.written[t])
  <2> TAKE t \in Streams
  <2>1. CASE t # s
    BY <1>1, <1>2, <1>3, <2>1 DEF TextOf
  <2>2. CASE t = s
    <3>1. r.written[s] \in Seq(STRING) /\ r.taken[s] \in Nat /\ r.taken[s] <= Len(r.written[s])
      BY <1>1
    <3> DEFINE w == r.written[s]
               n == r.taken[s]
    <3>2. w \in Seq(STRING) /\ n \in Nat /\ n <= Len(w)
      BY <3>1
    <3> HIDE DEF w, n
    <3>3. SubSeq(Append(w, b), 1, n) = SubSeq(w, 1, n) /\ n <= Len(Append(w, b))
      BY <3>2
    <3> QED
      BY <1>2, <1>3, <2>2, <3>3 DEF TextOf, w, n
  <2> QED
    BY <2>1, <2>2
<1>7. Capturing(q)
  BY <1>2, <1>6 DEF Sound, Capturing
<1>8. Reading(q)
  <2> SUFFICES ASSUME NEW t \in Streams, q.pc \notin {"queued", "answered"}, ~ q.timedOut, t \notin q.open
               PROVE  ~ HeldIn(q, t) /\ q.taken[t] = Len(q.written[t])
    BY <1>6 DEF Reading
  <2>1. ~ HeldIn(r, t) /\ r.taken[t] = Len(r.written[t])
    BY <1>2 DEF Sound, Reading
  <2>2. t # s
    BY <1>2
  <2> QED
    BY <1>2, <1>3, <2>1, <2>2 DEF HeldIn
<1>9. Continues(r, q)
  BY <1>2, <1>4, <1>5, <1>7, <1>8 DEF Continues, StepOf, Sound, Working
<1> QED
  BY <1>9 DEF q

(* A step of the processes or of the call that neither reads nor writes.   *)
LEMMA QuietStep ==
    ASSUME NEW r \in RunRecs, Sound(r), NEW q \in RunRecs,
           q.written = r.written, q.taken = r.taken, q.cap = r.cap, q.view = r.view,
           r.pc = "answered" => q.pc = "answered", Course(q), Killed(q),
           \A s \in Streams : q.pc \notin {"queued", "answered"} /\ ~ q.timedOut /\ s \notin q.open
               => ~ HeldIn(q, s) /\ q.taken[s] = Len(q.written[s])
    PROVE  StepOf(r, q)
<1>1. Capturing(q) /\ GoodView(q.view) /\ \A s \in Streams : q.taken[s] <= Len(q.written[s])
  BY SameReading
<1> QED
  BY <1>1 DEF StepOf, Sound, Reading

(* A descendant inherits what its parent holds.                            *)
LEMMA ForkKeeps ==
    ASSUME NEW r \in RunRecs, Sound(r), NEW k \in Kids, r.leader = "running", r.kidState = "none"
    PROVE  Continues(r, [r EXCEPT !.kid = k, !.kidState = "running"])
<1> DEFINE q == [r EXCEPT !.kid = k, !.kidState = "running"]
<1>1. q \in RunRecs
  BY DEF RunRecs
<1>2. /\ q.pc = r.pc /\ q.leader = r.leader /\ q.timedOut = r.timedOut /\ q.open = r.open
      /\ q.written = r.written /\ q.taken = r.taken /\ q.cap = r.cap /\ q.view = r.view
  BY DEF RunRecs
<1> HIDE DEF q
<1>3. Course(q) /\ Killed(q)
  BY <1>2 DEF Sound, Course, Killed, AliveIn
<1>4. \A s \in Streams : ~ (q.pc \notin {"queued", "answered"} /\ ~ q.timedOut /\ s \notin q.open)
  BY <1>2 DEF Sound, Reading, HeldIn
<1>5. Continues(r, q)
  BY <1>1, <1>2, <1>3, <1>4, QuietStep DEF Continues, Working
<1> QED
  BY <1>5 DEF q

(* Processes end, of themselves or killed.                                 *)
LEMMA EndKeeps ==
    ASSUME NEW r \in RunRecs, Sound(r), NEW q \in RunRecs,
           q.written = r.written, q.taken = r.taken, q.cap = r.cap, q.view = r.view,
           q.kid = r.kid, q.pc = r.pc, q.timedOut = r.timedOut, q.open = r.open,
           q.leader = r.leader \/ (r.leader = "running" /\ q.leader \in {"ok", "failed"}),
           q.kidState = r.kidState \/ (r.kidState = "running" /\ q.kidState = "gone")
    PROVE  Continues(r, q)
<1>1. Course(q) /\ Killed(q)
  BY DEF Sound, Course, Killed, AliveIn
<1>2. \A s \in Streams : HeldIn(q, s) => HeldIn(r, s)
  BY DEF HeldIn
<1>3. StepOf(r, q)
  BY <1>1, <1>2, QuietStep DEF Sound, Reading
<1> QED
  BY <1>3 DEF Continues, Working

(* The clock and the calling thread.                                       *)
LEMMA MoveKeeps ==
    ASSUME NEW r \in RunRecs, Sound(r), NEW q \in RunRecs,
           q.written = r.written, q.taken = r.taken, q.cap = r.cap, q.view = r.view, q.open = r.open,
           q.leader = r.leader, q.kid = r.kid, q.kidState = r.kidState,
           \/ q.pc = r.pc /\ q.timedOut = r.timedOut
           \/ r.pc = "waiting" /\ r.leader # "running" /\ q.pc = "joining" /\ q.timedOut = r.timedOut
           \/ r.pc \in {"joining", "collect", "closing"} /\ r.open = {} /\ q.pc = "render"
                 /\ q.timedOut = r.timedOut
           \/ r.pc \in {"waiting", "joining"} /\ q.pc = "term" /\ q.timedOut
           \/ r.pc = "collect" /\ q.pc = "closing" /\ q.timedOut = r.timedOut
    PROVE  Continues(r, q)
<1>1. Course(q)
  BY DEF Sound, Course
<1>2. Killed(q)
  BY DEF Sound, Course, Killed, AliveIn
<1>3. \A s \in Streams : q.pc \notin {"queued", "answered"} /\ ~ q.timedOut /\ s \notin q.open
          => ~ HeldIn(q, s) /\ q.taken[s] = Len(q.written[s])
  <2> SUFFICES ASSUME NEW s \in Streams, q.pc \notin {"queued", "answered"}, ~ q.timedOut, s \notin q.open
               PROVE  ~ HeldIn(q, s) /\ q.taken[s] = Len(q.written[s])
    OBVIOUS
  <2>1. ~ HeldIn(r, s) /\ r.taken[s] = Len(r.written[s])
    BY DEF Sound, Reading
  <2> QED
    BY <2>1 DEF HeldIn
<1>4. StepOf(r, q)
  BY <1>1, <1>2, <1>3, QuietStep
<1> QED
  BY <1>4 DEF Continues, Working

(* _terminate_process_tree.                                                *)
LEMMA KillKeeps ==
    ASSUME NEW r \in RunRecs, Sound(r), NEW q \in RunRecs,
           q.written = r.written, q.taken = r.taken, q.cap = r.cap, q.view = r.view, q.open = r.open,
           q.kid = r.kid, q.timedOut = r.timedOut,
           \/ r.pc = "term" /\ q.pc = "grace"
           \/ r.pc = "grace" /\ q.pc = "collect" /\ ~ AliveIn(q)
    PROVE  Continues(r, q)
<1>1. r.timedOut
  BY DEF Sound, Course
<1>2. Course(q) /\ Killed(q)
  BY <1>1 DEF Course, Killed
<1>3. StepOf(r, q)
  BY <1>1, <1>2, QuietStep
<1> QED
  BY <1>3 DEF Continues, Working

(* The shell is started and its pipes are opened.                          *)
LEMMA StartKeeps ==
    ASSUME NEW r \in RunRecs, Sound(r), r.pc = "queued"
    PROVE  StepOf(r, [r EXCEPT !.pc = "waiting", !.leader = "running", !.open = Streams])
<1> DEFINE q == [r EXCEPT !.pc = "waiting", !.leader = "running", !.open = Streams]
<1>1. q \in RunRecs
  BY DEF RunRecs
<1>2. /\ q.pc = "waiting" /\ q.leader = "running" /\ q.timedOut = r.timedOut /\ q.open = Streams
      /\ q.written = r.written /\ q.taken = r.taken /\ q.cap = r.cap /\ q.view = r.view
  BY DEF RunRecs
<1> HIDE DEF q
<1>3. Course(q) /\ Killed(q)
  BY <1>2 DEF Sound, Course, Killed
<1>4. StepOf(r, q)
  BY <1>1, <1>2, <1>3, QuietStep
<1> QED
  BY <1>4 DEF q

(* The shell cannot be started.                                            *)
LEMMA StartFailsKeeps ==
    ASSUME NEW r \in RunRecs, Sound(r), r.pc = "queued"
    PROVE  Continues(r, [r EXCEPT !.pc = "answered", !.code = "not_started"])
<1> DEFINE q == [r EXCEPT !.pc = "answered", !.code = "not_started"]
<1>1. q \in RunRecs
  BY DEF RunRecs
<1>2. /\ q.pc = "answered" /\ q.leader = r.leader /\ q.timedOut = r.timedOut /\ q.open = r.open
      /\ q.written = r.written /\ q.taken = r.taken /\ q.cap = r.cap /\ q.view = r.view
  BY DEF RunRecs
<1> HIDE DEF q
<1>3. Course(q) /\ Killed(q)
  BY <1>2 DEF Sound, Course, Killed
<1>4. StepOf(r, q)
  BY <1>1, <1>2, <1>3, QuietStep
<1>5. Continues(r, q)
  BY <1>2, <1>4 DEF Continues, Working
<1> QED
  BY <1>5 DEF q

(* A reader finds the end of its pipe.                                     *)
LEMMA EndOfPipeKeeps ==
    ASSUME NEW r \in RunRecs, Sound(r), NEW s \in Streams, s \in r.open, ~ HeldIn(r, s),
           r.taken[s] = Len(r.written[s])
    PROVE  Continues(r, [r EXCEPT !.open = @ \ {s}])
<1> DEFINE q == [r EXCEPT !.open = @ \ {s}]
<1>1. q \in RunRecs
  BY DEF RunRecs
<1>2. /\ q.pc = r.pc /\ q.leader = r.leader /\ q.kid = r.kid /\ q.kidState = r.kidState
      /\ q.timedOut = r.timedOut /\ q.open = r.open \ {s}
      /\ q.written = r.written /\ q.taken = r.taken /\ q.cap = r.cap /\ q.view = r.view
  BY DEF RunRecs
<1> HIDE DEF q
<1>3. Course(q) /\ Killed(q)
  BY <1>2 DEF Sound, Course, Killed, AliveIn
<1>4. \A t \in Streams : q.pc \notin {"queued", "answered"} /\ ~ q.timedOut /\ t \notin q.open
          => ~ HeldIn(q, t) /\ q.taken[t] = Len(q.written[t])
  <2> SUFFICES ASSUME NEW t \in Streams, q.pc \notin {"queued", "answered"}, ~ q.timedOut, t \notin q.open
               PROVE  ~ HeldIn(q, t) /\ q.taken[t] = Len(q.written[t])
    OBVIOUS
  <2>1. ~ HeldIn(r, t) /\ r.taken[t] = Len(r.written[t])
    <3>1. CASE t = s
      BY <3>1
    <3>2. CASE t # s
      BY <1>2, <3>2 DEF Sound, Reading
    <3> QED
      BY <3>1, <3>2
  <2> QED
    BY <1>2, <2>1 DEF HeldIn
<1>5. Continues(r, q)
  BY <1>1, <1>2, <1>3, <1>4, QuietStep DEF Continues, Working
<1> QED
  BY <1>5 DEF q

(* The text that a chunk follows.                                          *)
ChunkIn(r, s) == SubSeq(r.written[s], r.taken[s] + 1, Min({r.taken[s] + ReadChunk, Len(r.written[s])}))

ChunkFollows(r, s) ==
    LET d == ChunkIn(r, s)
    IN  /\ d \in Seq(STRING) /\ TextOf(r, s) \in Seq(STRING)
        /\ r.taken[s] + Len(d) \in Nat /\ r.taken[s] + Len(d) <= Len(r.written[s])
        /\ SubSeq(r.written[s], 1, r.taken[s] + Len(d)) = TextOf(r, s) \o d
        /\ d = <<>> => r.taken[s] = Len(r.written[s])

(* A chunk is what comes next, and none comes only at the end of the text. *)
LEMMA ChunksFollow ==
    ASSUME NEW r \in RunRecs, Sound(r), NEW s \in Streams
    PROVE  ChunkFollows(r, s)
<1> DEFINE w == r.written[s]
           n == r.taken[s]
           L == Len(w)
           m == Min({n + ReadChunk, L})
<1>1. w \in Seq(STRING) /\ n \in Nat /\ n <= L /\ L \in Nat /\ ReadChunk \in Nat /\ ReadChunk > 0
  <2>1. w \in Seq(STRING) /\ n \in Nat
    BY DEF RunRecs
  <2>2. n <= L
    BY DEF Sound, Reading
  <2> QED
    BY <2>1, <2>2, CallsAssumption
<1> HIDE DEF w, n
<1>2. m = IF n + ReadChunk <= L THEN n + ReadChunk ELSE L
  <2>1. n + ReadChunk \in Int /\ L \in Int
    BY <1>1
  <2> HIDE DEF L
  <2> QED
    BY <2>1, SmallerOf
<1>3. m \in Nat /\ n <= m /\ m <= L /\ (m = n => n = L)
  BY <1>1, <1>2
<1> HIDE DEF m
<1>4. SubSeq(w, n + 1, m) \in Seq(STRING) /\ SubSeq(w, 1, n) \in Seq(STRING)
      /\ Len(SubSeq(w, n + 1, m)) = m - n /\ Len(SubSeq(w, 1, n)) = n
  BY <1>1, <1>3
<1>5. SubSeq(w, 1, m) = SubSeq(w, 1, n) \o SubSeq(w, n + 1, m)
  BY <1>1, <1>3
<1>6. n + Len(SubSeq(w, n + 1, m)) = m
  BY <1>1, <1>3, <1>4
<1>7. SubSeq(w, n + 1, m) = <<>> => n = L
  BY <1>1, <1>3, <1>4
<1>8. ChunkIn(r, s) = SubSeq(w, n + 1, m) /\ TextOf(r, s) = SubSeq(w, 1, n)
  BY Zenon DEF ChunkIn, TextOf, w, n, m
<1> QED
  BY <1>3, <1>4, <1>5, <1>6, <1>7, <1>8 DEF ChunkFollows, w, n

(* What add returns is a capture.                                          *)
LEMMA CaptureTyped ==
    ASSUME NEW s \in Streams, NEW text \in Seq(STRING), NEW chunk \in Seq(STRING), NEW cap,
           chunk # <<>>, IsCapture(cap, s, text)
    PROVE  Add(cap, s, chunk) \in CapRecs
<1> DEFINE all == text \o chunk
           c == Add(cap, s, chunk)
           L == Len(all)
           kept == KeptOf(s, all)
           after == AfterOf(s, all)
<1>1. IsCapture(c, s, all)
  BY AddIsCapture
<1>2. all \in Seq(STRING) /\ L \in Nat /\ HeadLimit(s) \in Nat /\ TailLimit(s) \in Nat
  BY LimitsTyped
<1>3. L # 0
  <2>1. L = Len(text) + Len(chunk) /\ Len(chunk) >= 1 /\ Len(text) >= 0
    OBVIOUS
  <2> QED
    BY <2>1
<1> HIDE DEF all, c
<1>4. kept = (IF HeadLimit(s) <= L THEN HeadLimit(s) ELSE L) /\ kept \in Nat /\ kept <= L
  <2>1. L \in Int /\ HeadLimit(s) \in Int
    BY <1>2
  <2> DEFINE h == HeadLimit(s)
  <2>2. h \in Nat /\ L \in Nat
    BY <1>2
  <2> HIDE DEF h, L
  <2>3. Min({h, L}) = IF h <= L THEN h ELSE L
    BY <2>2, SmallerOf
  <2>4. kept = Min({h, L})
    BY EndsOf DEF h, L
  <2> HIDE DEF kept
  <2>5. kept = (IF h <= L THEN h ELSE L) /\ kept \in Nat /\ kept <= L
    BY <2>2, <2>3, <2>4
  <2> QED
    BY <2>5 DEF h
<1>5. after \in Nat /\ after <= L
  <2> DEFINE t == TailLimit(s)
             rest == L - kept
  <2>1. t \in Nat /\ rest \in Nat /\ rest <= L
    <3> HIDE DEF kept, L
    <3> QED
      BY <1>2, <1>4
  <2>2. after = Min({t, rest})
    BY DEF AfterOf
  <2> HIDE DEF t, rest, after
  <2>3. Min({t, rest}) = IF t <= rest THEN t ELSE rest
    BY <2>1, SmallerOf
  <2> HIDE DEF L
  <2> QED
    BY <1>2, <2>1, <2>2, <2>3
<1>6. c.head \in Seq(STRING) /\ c.tail \in Seq(STRING)
  <2>1. c.head = SubSeq(all, 1, kept) /\ c.tail = SubSeq(all, L - after + 1, L)
    BY <1>1 DEF IsCapture, HeadIs, TailIs
  <2> HIDE DEF kept, after
  <2>2. SubSeq(all, 1, kept) \in Seq(STRING)
    BY <1>2, <1>4
  <2>3. SubSeq(all, L - after + 1, L) \in Seq(STRING)
    BY <1>2, <1>5
  <2> QED
    BY <2>1, <2>2, <2>3
<1>7. c.total \in Nat /\ c.breaks \in Int /\ c.last \in STRING
  <2>1. Breaks(all) \in Int
    BY <1>2, PlacesTyped DEF Breaks
  <2>2. LastOf(all) \in STRING
    BY <1>2, <1>3 DEF LastOf
  <2> QED
    BY <1>1, <1>2, <2>1, <2>2 DEF IsCapture
<1>8. c = [head |-> c.head, tail |-> c.tail, total |-> c.total, breaks |-> c.breaks, last |-> c.last]
  BY DEF c, Add
<1>9. c \in CapRecs
  BY <1>6, <1>7, <1>8, Zenon DEF CapRecs
<1> QED
  BY <1>9 DEF c

(* A reader takes a chunk.                                                 *)
LEMMA ChunkKeeps ==
    ASSUME NEW r \in RunRecs, Sound(r), NEW s \in Streams, s \in r.open, ChunkIn(r, s) # <<>>,
           NEW closed \in {{}} \cup (IF r.pc = "closing" THEN {{s}} ELSE {})
    PROVE  Continues(r, [r EXCEPT !.cap[s] = Add(@, s, ChunkIn(r, s)),
                                  !.taken[s] = @ + Len(ChunkIn(r, s)), !.open = @ \ closed])
<1> DEFINE d == ChunkIn(r, s)
           k == Add(r.cap[s], s, d)
           n == r.taken[s] + Len(d)
           q == [r EXCEPT !.cap[s] = Add(@, s, d), !.taken[s] = @ + Len(d), !.open = @ \ closed]
<1>1. ChunkFollows(r, s) /\ IsCapture(r.cap[s], s, TextOf(r, s))
  BY ChunksFollow DEF Sound, Capturing
<1>2. /\ d \in Seq(STRING) /\ d # <<>> /\ TextOf(r, s) \in Seq(STRING) /\ n \in Nat /\ n <= Len(r.written[s])
      /\ SubSeq(r.written[s], 1, n) = TextOf(r, s) \o d
  BY <1>1 DEF ChunkFollows
<1> HIDE DEF d
<1>3. k \in CapRecs /\ IsCapture(k, s, TextOf(r, s) \o d)
  BY <1>1, <1>2, CaptureTyped, AddIsCapture
<1>4. /\ r.cap \in [Streams -> CapRecs] /\ r.taken \in [Streams -> Nat] /\ r.open \in SUBSET Streams
      /\ r.written \in [Streams -> Seq(STRING)]
  BY DEF RunRecs
<1>5. q = [r EXCEPT !.cap = [r.cap EXCEPT ![s] = k], !.taken = [r.taken EXCEPT ![s] = n], !.open = r.open \ closed]
  BY <1>4 DEF RunRecs
<1> HIDE DEF k, n
<1>6. [r.cap EXCEPT ![s] = k] \in [Streams -> CapRecs] /\ [r.taken EXCEPT ![s] = n] \in [Streams -> Nat]
      /\ r.open \ closed \in SUBSET Streams
  BY <1>2, <1>3, <1>4
<1> HIDE DEF q
<1>7. q \in RunRecs
  BY <1>5, <1>6 DEF RunRecs
<1>8. /\ q.pc = r.pc /\ q.leader = r.leader /\ q.kid = r.kid /\ q.kidState = r.kidState
      /\ q.timedOut = r.timedOut /\ q.open = r.open \ closed /\ q.written = r.written /\ q.view = r.view
      /\ q.cap = [r.cap EXCEPT ![s] = k] /\ q.taken = [r.taken EXCEPT ![s] = n]
  BY <1>5 DEF RunRecs
<1>9. /\ q.cap[s] = k /\ q.taken[s] = n
      /\ \A t \in Streams \ {s} : q.cap[t] = r.cap[t] /\ q.taken[t] = r.taken[t]
  BY <1>4, <1>8
<1>10. r.pc # "answered" /\ (closed # {} => r.timedOut)
  BY DEF Sound, Course
<1>11. Course(q) /\ Killed(q) /\ GoodView(q.view)
  BY <1>8 DEF Sound, Course, Killed, AliveIn
<1>12. Capturing(q)
  <2> SUFFICES ASSUME NEW t \in Streams
               PROVE  IsCapture(q.cap[t], t, TextOf(q, t))
    BY DEF Capturing
  <2>1. CASE t = s
    <3>1. TextOf(q, s) = TextOf(r, s) \o d
      BY <1>2, <1>8, <1>9 DEF TextOf
    <3> QED
      BY <1>3, <1>9, <2>1, <3>1
  <2>2. CASE t # s
    <3>1. TextOf(q, t) = TextOf(r, t) /\ q.cap[t] = r.cap[t]
      BY <1>8, <1>9, <2>2 DEF TextOf
    <3> QED
      BY <3>1 DEF Sound, Capturing
  <2> QED
    BY <2>1, <2>2
<1>13. Reading(q)
  <2> SUFFICES ASSUME NEW t \in Streams
               PROVE  /\ q.taken[t] <= Len(q.written[t])
                      /\ q.pc \notin {"queued", "answered"} /\ ~ q.timedOut /\ t \notin q.open =>
                            ~ HeldIn(q, t) /\ q.taken[t] = Len(q.written[t])
    BY DEF Reading
  <2>1. CASE t = s
    <3>1. q.timedOut \/ s \in q.open
      BY <1>8, <1>10
    <3> QED
      BY <1>2, <1>8, <1>9, <2>1, <3>1
  <2>2. CASE t # s
    <3>1. /\ q.taken[t] = r.taken[t] /\ q.written[t] = r.written[t] /\ (HeldIn(q, t) <=> HeldIn(r, t))
          /\ (t \notin q.open => t \notin r.open \/ r.timedOut)
      BY <1>8, <1>9, <1>10, <2>2 DEF HeldIn
    <3> QED
      BY <1>8, <3>1 DEF Sound, Reading
  <2> QED
    BY <2>1, <2>2
<1>14. Continues(r, q)
  BY <1>7, <1>8, <1>10, <1>11, <1>12, <1>13 DEF Continues, StepOf, Sound, Working
<1> QED
  BY <1>14 DEF q, d

(* A batch keeps the texts of a view.                                      *)
LEMMA TextsAlone ==
    ASSUME NEW v, GoodView(v)
    PROVE  GoodView([Whole(v.shown, v.seam) EXCEPT !.oversized = v.oversized])
<1> DEFINE w == [Whole(v.shown, v.seam) EXCEPT !.oversized = v.oversized]
<1>1. v \in ViewRecs /\ v.shown \in [Streams -> Nat] /\ v.seam \in AllSeams /\ v.oversized \in BOOLEAN
  BY DEF GoodView, ViewRecs
<1>2. w.shown = v.shown /\ w.need = v.shown /\ w.seam = v.seam /\ w.oversized = v.oversized
  BY DEF Whole
<1>3. w \in ViewRecs
  BY <1>1, WholeTyped DEF ViewRecs
<1> HIDE DEF w
<1>4. Total(w) = Total(v)
  BY <1>2, Zenon DEF Total
<1>5. GoodView(w)
  BY <1>2, <1>3, <1>4 DEF GoodView, WithinBudget, MarkedAt, Fits
<1> QED
  BY <1>5 DEF w

(* The command is answered with a view.                                    *)
AnsweredWith(r, v) ==
    [Fresh EXCEPT !.pc = "answered", !.leader = r.leader, !.kid = r.kid, !.kidState = r.kidState,
                  !.timedOut = r.timedOut, !.view = v,
                  !.code = IF r.timedOut THEN "timed_out" ELSE r.leader]

(* A command that is answered forgets its text and keeps its view.         *)
LEMMA AnswerKeeps ==
    ASSUME NEW r \in RunRecs, Sound(r), r.pc = "render", NEW v, GoodView(v)
    PROVE  Continues(r, AnsweredWith(r, v))
<1> DEFINE q == AnsweredWith(r, v)
<1>1. ~ r.timedOut => r.leader \in {"ok", "failed"}
  BY DEF Sound, Course
<1>2. /\ q.pc = "answered" /\ q.leader = r.leader /\ q.kid = r.kid /\ q.kidState = r.kidState
      /\ q.timedOut = r.timedOut /\ q.view = v /\ q.written = Fresh.written /\ q.taken = Fresh.taken
      /\ q.cap = Fresh.cap /\ q.open = {}
  BY DEF AnsweredWith, Fresh
<1>3. q \in RunRecs
  BY <1>1, FreshIsSound DEF AnsweredWith, RunRecs, GoodView
<1> HIDE DEF q
<1>4. Capturing(q) /\ \A s \in Streams : q.taken[s] <= Len(q.written[s])
  BY <1>2, FreshIsSound DEF Sound, Capturing, Reading, TextOf
<1>5. Course(q) /\ Killed(q)
  BY <1>1, <1>2 DEF Sound, Course, Killed, AliveIn
<1>6. Reading(q)
  BY <1>2, <1>4 DEF Reading
<1>7. Continues(r, q)
  BY <1>2, <1>3, <1>4, <1>5, <1>6 DEF Continues, StepOf, Sound, Working
<1> QED
  BY <1>7 DEF q

-----------------------------------------------------------------------------
(* The steps of the system.                                                *)

(* One command takes a step that Continues allows, the rest stays.         *)
OneMoves(c) ==
    /\ UNCHANGED <<batch, reply>>
    /\ \E q : Continues(run[c], q) /\ run' = [run EXCEPT ![c] = q]

(* What a call asks for, and the state of one of its commands.             *)
LEMMA RequestOf ==
    ASSUME RunsSound, NEW c \in Runs
    PROVE  /\ batch.runs \in Seq(Requests) /\ batch.width \in Nat /\ batch.runs[c].bytes \in SUBSET STRING
           /\ batch.runs[c].kids \in SUBSET Kids /\ run[c] \in RunRecs /\ Sound(run[c])
<1>1. batch \in Calls
  BY CallsAssumption DEF RunsSound
<1>2. batch.runs \in Seq(Requests) /\ batch.width \in Nat
  BY <1>1 DEF Calls
<1>3. batch.runs[c] \in Requests
  BY <1>2 DEF Runs
<1> QED
  BY <1>2, <1>3 DEF Requests, RunsSound

(* Write, Fork, LeaderExits and KidExits.                                  *)
LEMMA ProcessesMove ==
    ASSUME RunsSound, NEW c \in Runs,
           \/ \E s \in Streams, b \in batch.runs[c].bytes : Write(c, s, b)
           \/ \E k \in batch.runs[c].kids : Fork(c, k)
           \/ \E code \in {"ok", "failed"} : LeaderExits(c, code)
           \/ KidExits(c)
    PROVE  OneMoves(c)
<1> DEFINE r == run[c]
<1>1. r \in RunRecs /\ Sound(r) /\ batch.runs[c].bytes \in SUBSET STRING /\ batch.runs[c].kids \in SUBSET Kids
  BY RequestOf
<1>2. ASSUME NEW s \in Streams, NEW b \in batch.runs[c].bytes, Write(c, s, b)
      PROVE  OneMoves(c)
  <2> DEFINE q == [r EXCEPT !.written[s] = Append(@, b)]
  <2>1. HeldIn(r, s) /\ s \in r.open
    BY <1>2 DEF Write, Held, HeldIn
  <2>2. b \in STRING
    BY <1>1
  <2>3. Continues(r, q)
    <3> HIDE DEF r
    <3> QED
      BY <1>1, <2>1, <2>2, WriteKeeps
  <2>4. run' = [run EXCEPT ![c] = q] /\ UNCHANGED <<batch, reply>>
    BY <1>2 DEF Write
  <2> QED
    BY <2>3, <2>4 DEF OneMoves
<1>3. ASSUME NEW k \in batch.runs[c].kids, Fork(c, k)
      PROVE  OneMoves(c)
  <2> DEFINE q == [r EXCEPT !.kid = k, !.kidState = "running"]
  <2>1. k \in Kids /\ r.leader = "running" /\ r.kidState = "none"
    BY <1>1, <1>3 DEF Fork
  <2>2. Continues(r, q)
    <3> HIDE DEF r
    <3> QED
      BY <1>1, <2>1, ForkKeeps
  <2>3. run' = [run EXCEPT ![c] = q] /\ UNCHANGED <<batch, reply>>
    BY <1>3 DEF Fork
  <2> QED
    BY <2>2, <2>3 DEF OneMoves
<1>4. ASSUME NEW code \in {"ok", "failed"}, LeaderExits(c, code)
      PROVE  OneMoves(c)
  <2> DEFINE q == [r EXCEPT !.leader = code]
  <2>1. r.leader = "running" /\ run' = [run EXCEPT ![c] = q] /\ UNCHANGED <<batch, reply>>
    BY <1>4 DEF LeaderExits
  <2>2. Continues(r, q)
    <3> HIDE DEF r
    <3>1. q \in RunRecs
      BY <1>1 DEF RunRecs
    <3>2. /\ q.written = r.written /\ q.taken = r.taken /\ q.cap = r.cap /\ q.view = r.view
          /\ q.kid = r.kid /\ q.pc = r.pc /\ q.timedOut = r.timedOut /\ q.open = r.open
          /\ q.leader = code /\ q.kidState = r.kidState
      BY <1>1 DEF RunRecs
    <3> HIDE DEF q
    <3> QED
      BY <1>1, <2>1, <3>1, <3>2, EndKeeps
  <2> QED
    BY <2>1, <2>2 DEF OneMoves
<1>5. ASSUME KidExits(c)
      PROVE  OneMoves(c)
  <2> DEFINE q == [r EXCEPT !.kidState = "gone"]
  <2>1. r.kidState = "running" /\ run' = [run EXCEPT ![c] = q] /\ UNCHANGED <<batch, reply>>
    BY <1>5 DEF KidExits
  <2>2. Continues(r, q)
    <3> HIDE DEF r
    <3>1. q \in RunRecs
      BY <1>1 DEF RunRecs
    <3>2. /\ q.written = r.written /\ q.taken = r.taken /\ q.cap = r.cap /\ q.view = r.view
          /\ q.kid = r.kid /\ q.pc = r.pc /\ q.timedOut = r.timedOut /\ q.open = r.open
          /\ q.leader = r.leader /\ q.kidState = "gone"
      BY <1>1 DEF RunRecs
    <3> HIDE DEF q
    <3> QED
      BY <1>1, <2>1, <3>1, <3>2, EndKeeps
  <2> QED
    BY <2>1, <2>2 DEF OneMoves
<1> QED
  BY <1>2, <1>3, <1>4, <1>5

(* Read: a chunk or the end of the pipe.                                   *)
LEMMA ReaderMoves ==
    ASSUME RunsSound, NEW c \in Runs, NEW s \in Streams, Read(c, s)
    PROVE  OneMoves(c)
<1> DEFINE r == run[c]
           d == ChunkIn(r, s)
<1>1. r \in RunRecs /\ Sound(r) /\ s \in r.open /\ UNCHANGED <<batch, reply>>
  BY RequestOf DEF Read
<1>2. Chunk(c, s) = d
  BY Zenon DEF Chunk, ChunkIn
<1>3. HeldIn(r, s) <=> Held(c, s)
  BY DEF Held, HeldIn
<1>4. CASE d = <<>>
  <2> DEFINE q == [r EXCEPT !.open = @ \ {s}]
  <2>1. run' = [run EXCEPT ![c] = q]
    BY <1>2, <1>4 DEF Read
  <2>2. ~ HeldIn(r, s)
    <3>1. Len(<<>>) # ReadChunk
      BY CallsAssumption
    <3>2. Len(d) = ReadChunk \/ ~ Held(c, s)
      BY <1>2 DEF Read
    <3> HIDE DEF d
    <3> QED
      BY <1>3, <1>4, <3>1, <3>2
  <2>3. r.taken[s] = Len(r.written[s])
    <3> HIDE DEF r
    <3>1. ChunkFollows(r, s)
      BY <1>1, ChunksFollow
    <3> QED
      BY <1>4, <3>1 DEF ChunkFollows
  <2>4. Continues(r, q)
    <3> HIDE DEF r
    <3> QED
      BY <1>1, <2>2, <2>3, EndOfPipeKeeps
  <2> QED
    BY <1>1, <2>1, <2>4 DEF OneMoves
<1>5. CASE d # <<>>
  <2>1. PICK closed \in {{}} \cup (IF r.pc = "closing" THEN {{s}} ELSE {}) :
            run' = [run EXCEPT ![c].cap[s]   = Add(@, s, d),
                               ![c].taken[s] = @ + Len(d),
                               ![c].open     = @ \ closed]
    BY <1>2, <1>5 DEF Read
  <2> DEFINE q == [r EXCEPT !.cap[s] = Add(@, s, d), !.taken[s] = @ + Len(d), !.open = @ \ closed]
  <2>2. run' = [run EXCEPT ![c] = q]
    <3> HIDE DEF d
    <3> QED
      BY <2>1 DEF RunsSound
  <2>3. Continues(r, q)
    <3> HIDE DEF r
    <3> QED
      BY <1>1, <1>5, ChunkKeeps
  <2> QED
    BY <1>1, <2>2, <2>3 DEF OneMoves
<1> QED
  BY <1>4, <1>5

(* The deadline and the calling thread, but for the kill and the rendering. *)
LEMMA CallMoves ==
    ASSUME RunsSound, NEW c \in Runs,
           \/ Expire(c) \/ Waited(c) \/ JoinedInTime(c) \/ TimesOut(c)
           \/ Collected(c) \/ ClosePipes(c) \/ Closed(c)
    PROVE  OneMoves(c)
<1> DEFINE r == run[c]
<1>1. r \in RunRecs /\ Sound(r)
  BY RequestOf

<1>2. ASSUME Expire(c)
      PROVE  OneMoves(c)
  <2> DEFINE q == [r EXCEPT !.expired = TRUE]
  <2>1. r.pc \in {"waiting", "joining"} /\ run' = [run EXCEPT ![c] = q] /\ UNCHANGED <<batch, reply>>
    BY <1>2 DEF Expire
  <2>2. Continues(r, q)
    <3> HIDE DEF r
    <3>1. q \in RunRecs
      BY <1>1 DEF RunRecs
    <3>2. /\ q.written = r.written /\ q.taken = r.taken /\ q.cap = r.cap /\ q.view = r.view
          /\ q.open = r.open /\ q.leader = r.leader /\ q.kid = r.kid /\ q.kidState = r.kidState
          /\ q.pc = r.pc /\ q.timedOut = r.timedOut
      BY <1>1 DEF RunRecs
    <3> HIDE DEF q
    <3> QED
      BY <1>1, <2>1, <3>1, <3>2, MoveKeeps
  <2> QED
    BY <2>1, <2>2 DEF OneMoves

<1>3. ASSUME Waited(c)
      PROVE  OneMoves(c)
  <2> DEFINE q == [r EXCEPT !.pc = "joining"]
  <2>1. r.pc = "waiting" /\ r.leader # "running" /\ run' = [run EXCEPT ![c] = q] /\ UNCHANGED <<batch, reply>>
    BY <1>3 DEF Waited
  <2>2. Continues(r, q)
    <3> HIDE DEF r
    <3>1. q \in RunRecs
      BY <1>1 DEF RunRecs
    <3>2. /\ q.written = r.written /\ q.taken = r.taken /\ q.cap = r.cap /\ q.view = r.view
          /\ q.open = r.open /\ q.leader = r.leader /\ q.kid = r.kid /\ q.kidState = r.kidState
          /\ q.pc = "joining" /\ q.timedOut = r.timedOut
      BY <1>1 DEF RunRecs
    <3> HIDE DEF q
    <3> QED
      BY <1>1, <2>1, <3>1, <3>2, MoveKeeps
  <2> QED
    BY <2>1, <2>2 DEF OneMoves

<1>4. ASSUME JoinedInTime(c)
      PROVE  OneMoves(c)
  <2> DEFINE q == [r EXCEPT !.pc = "render"]
  <2>1. r.pc = "joining" /\ r.open = {} /\ run' = [run EXCEPT ![c] = q] /\ UNCHANGED <<batch, reply>>
    BY <1>4 DEF JoinedInTime
  <2>2. Continues(r, q)
    <3> HIDE DEF r
    <3>1. q \in RunRecs
      BY <1>1 DEF RunRecs
    <3>2. /\ q.written = r.written /\ q.taken = r.taken /\ q.cap = r.cap /\ q.view = r.view
          /\ q.open = r.open /\ q.leader = r.leader /\ q.kid = r.kid /\ q.kidState = r.kidState
          /\ q.pc = "render" /\ q.timedOut = r.timedOut
      BY <1>1 DEF RunRecs
    <3> HIDE DEF q
    <3> QED
      BY <1>1, <2>1, <3>1, <3>2, MoveKeeps
  <2> QED
    BY <2>1, <2>2 DEF OneMoves

<1>5. ASSUME TimesOut(c)
      PROVE  OneMoves(c)
  <2> DEFINE q == [r EXCEPT !.pc = "term", !.timedOut = TRUE]
  <2>1. r.pc \in {"waiting", "joining"} /\ run' = [run EXCEPT ![c] = q] /\ UNCHANGED <<batch, reply>>
    BY <1>5 DEF TimesOut
  <2>2. Continues(r, q)
    <3> HIDE DEF r
    <3>1. q \in RunRecs
      BY <1>1 DEF RunRecs
    <3>2. /\ q.written = r.written /\ q.taken = r.taken /\ q.cap = r.cap /\ q.view = r.view
          /\ q.open = r.open /\ q.leader = r.leader /\ q.kid = r.kid /\ q.kidState = r.kidState
          /\ q.pc = "term" /\ q.timedOut
      BY <1>1 DEF RunRecs
    <3> HIDE DEF q
    <3> QED
      BY <1>1, <2>1, <3>1, <3>2, MoveKeeps
  <2> QED
    BY <2>1, <2>2 DEF OneMoves

<1>6. ASSUME Collected(c)
      PROVE  OneMoves(c)
  <2> DEFINE q == [r EXCEPT !.pc = "render"]
  <2>1. r.pc = "collect" /\ r.open = {} /\ run' = [run EXCEPT ![c] = q] /\ UNCHANGED <<batch, reply>>
    BY <1>6 DEF Collected
  <2>2. Continues(r, q)
    <3> HIDE DEF r
    <3>1. q \in RunRecs
      BY <1>1 DEF RunRecs
    <3>2. /\ q.written = r.written /\ q.taken = r.taken /\ q.cap = r.cap /\ q.view = r.view
          /\ q.open = r.open /\ q.leader = r.leader /\ q.kid = r.kid /\ q.kidState = r.kidState
          /\ q.pc = "render" /\ q.timedOut = r.timedOut
      BY <1>1 DEF RunRecs
    <3> HIDE DEF q
    <3> QED
      BY <1>1, <2>1, <3>1, <3>2, MoveKeeps
  <2> QED
    BY <2>1, <2>2 DEF OneMoves

<1>7. ASSUME ClosePipes(c)
      PROVE  OneMoves(c)
  <2> DEFINE q == [r EXCEPT !.pc = "closing"]
  <2>1. r.pc = "collect" /\ run' = [run EXCEPT ![c] = q] /\ UNCHANGED <<batch, reply>>
    BY <1>7 DEF ClosePipes
  <2>2. Continues(r, q)
    <3> HIDE DEF r
    <3>1. q \in RunRecs
      BY <1>1 DEF RunRecs
    <3>2. /\ q.written = r.written /\ q.taken = r.taken /\ q.cap = r.cap /\ q.view = r.view
          /\ q.open = r.open /\ q.leader = r.leader /\ q.kid = r.kid /\ q.kidState = r.kidState
          /\ q.pc = "closing" /\ q.timedOut = r.timedOut
      BY <1>1 DEF RunRecs
    <3> HIDE DEF q
    <3> QED
      BY <1>1, <2>1, <3>1, <3>2, MoveKeeps
  <2> QED
    BY <2>1, <2>2 DEF OneMoves

<1>8. ASSUME Closed(c)
      PROVE  OneMoves(c)
  <2> DEFINE q == [r EXCEPT !.pc = "render"]
  <2>1. r.pc = "closing" /\ r.open = {} /\ run' = [run EXCEPT ![c] = q] /\ UNCHANGED <<batch, reply>>
    BY <1>8 DEF Closed
  <2>2. Continues(r, q)
    <3> HIDE DEF r
    <3>1. q \in RunRecs
      BY <1>1 DEF RunRecs
    <3>2. /\ q.written = r.written /\ q.taken = r.taken /\ q.cap = r.cap /\ q.view = r.view
          /\ q.open = r.open /\ q.leader = r.leader /\ q.kid = r.kid /\ q.kidState = r.kidState
          /\ q.pc = "render" /\ q.timedOut = r.timedOut
      BY <1>1 DEF RunRecs
    <3> HIDE DEF q
    <3> QED
      BY <1>1, <2>1, <3>1, <3>2, MoveKeeps
  <2> QED
    BY <2>1, <2>2 DEF OneMoves

<1> QED
  BY <1>2, <1>3, <1>4, <1>5, <1>6, <1>7, <1>8

(* Terminate and FinishOff.                                                *)
LEMMA KillMoves ==
    ASSUME RunsSound, NEW c \in Runs, Terminate(c) \/ FinishOff(c)
    PROVE  OneMoves(c)
<1> DEFINE r == run[c]
<1>1. r \in RunRecs /\ Sound(r)
  BY RequestOf
<1>2. ASSUME Terminate(c)
      PROVE  OneMoves(c)
  <2> DEFINE leader == IF batch.runs[c].deaf THEN r.leader ELSE Ended(r.leader)
             state  == IF r.kid.escaped \/ r.kid.deaf \/ r.kidState = "none" THEN r.kidState ELSE "gone"
             q == [r EXCEPT !.pc = "grace", !.leader = leader, !.kidState = state]
  <2>1. r.pc = "term" /\ run' = [run EXCEPT ![c] = q] /\ UNCHANGED <<batch, reply>>
    BY <1>2 DEF Terminate, RunsSound
  <2>2. leader \in {"none", "running", "ok", "failed", "killed"} /\ state \in {"none", "running", "gone"}
    BY <1>1 DEF RunRecs, Ended
  <2>3. Continues(r, q)
    <3> HIDE DEF r, leader, state
    <3>1. q \in RunRecs
      BY <1>1, <2>2 DEF RunRecs
    <3>2. /\ q.written = r.written /\ q.taken = r.taken /\ q.cap = r.cap /\ q.view = r.view
          /\ q.open = r.open /\ q.kid = r.kid /\ q.timedOut = r.timedOut /\ q.pc = "grace"
      BY <1>1 DEF RunRecs
    <3> HIDE DEF q
    <3> QED
      BY <1>1, <2>1, <3>1, <3>2, KillKeeps
  <2> QED
    BY <2>1, <2>3 DEF OneMoves
<1>3. ASSUME FinishOff(c)
      PROVE  OneMoves(c)
  <2> DEFINE leader == Ended(r.leader)
             state  == IF r.kid.escaped \/ r.kidState = "none" THEN r.kidState ELSE "gone"
             q == [r EXCEPT !.pc = "collect", !.leader = leader, !.kidState = state]
  <2>1. r.pc = "grace" /\ run' = [run EXCEPT ![c] = q] /\ UNCHANGED <<batch, reply>>
    BY <1>3 DEF FinishOff, RunsSound
  <2>2. /\ leader \in {"none", "running", "ok", "failed", "killed"} /\ leader # "running"
        /\ state \in {"none", "running", "gone"} /\ (state = "running" => r.kid.escaped)
    BY <1>1 DEF RunRecs, Ended
  <2>3. Continues(r, q)
    <3> HIDE DEF r, leader, state
    <3>1. q \in RunRecs
      BY <1>1, <2>2 DEF RunRecs
    <3>2. /\ q.written = r.written /\ q.taken = r.taken /\ q.cap = r.cap /\ q.view = r.view
          /\ q.open = r.open /\ q.kid = r.kid /\ q.timedOut = r.timedOut /\ q.pc = "collect"
          /\ q.leader = leader /\ q.kidState = state
      BY <1>1 DEF RunRecs
    <3> HIDE DEF q
    <3>3. ~ AliveIn(q)
      BY <2>2, <3>2 DEF AliveIn
    <3> QED
      BY <1>1, <2>1, <3>1, <3>2, <3>3, KillKeeps
  <2> QED
    BY <2>1, <2>3 DEF OneMoves
<1> QED
  BY <1>2, <1>3

(* Render, whatever the texts measure.                                     *)
LEMMA RenderMoves ==
    ASSUME RunsSound, NEW c \in Runs, Render(c)
    PROVE  OneMoves(c)
<1> DEFINE r == run[c]
<1>1. r \in RunRecs /\ Sound(r) /\ r.pc = "render" /\ UNCHANGED <<batch, reply>>
  BY RequestOf DEF Render
<1>2. PICK need \in Texts(c) : \E seam \in Seams(need) : \E v \in Views[need][seam][OneLine(c)] :
          run' = [run EXCEPT ![c] = AnsweredWith(r, Kept(v))]
  BY Zenon DEF Render, AnsweredWith
<1>3. PICK seam \in Seams(need) : \E v \in Views[need][seam][OneLine(c)] :
          run' = [run EXCEPT ![c] = AnsweredWith(r, Kept(v))]
  BY <1>2
<1>4. PICK v \in Views[need][seam][OneLine(c)] : run' = [run EXCEPT ![c] = AnsweredWith(r, Kept(v))]
  BY <1>3
<1>5. need \in [Streams -> 0 .. MaxNeed] /\ need \in [Streams -> Nat] /\ seam \in AllSeams
  <2>1. need \in [Streams -> 0 .. MaxNeed]
    BY DEF Texts
  <2>2. \A n \in 0 .. MaxNeed : n \in Nat
    BY CallsAssumption
  <2>3. seam \in AllSeams
    BY NoSeamTyped DEF Seams
  <2> QED
    BY <2>1, <2>2, <2>3
<1>6. OneLine(c) \in BOOLEAN
  BY DEF OneLine
<1>7. GoodView(v)
  <2> DEFINE line == OneLine(c)
  <2>1. line \in BOOLEAN
    BY <1>6
  <2> HIDE DEF line
  <2>2. Views[need][seam][line] = Rendered(Whole(need, seam), line)
    BY <1>5, <2>1 DEF Views
  <2>3. v \in Views[need][seam][line]
    BY <1>4 DEF line
  <2> QED
    BY <1>5, <2>1, <2>2, <2>3, RenderedWell
<1>8. GoodView(Kept(v))
  <2>1. CASE Single
    BY <1>7, <2>1 DEF Kept
  <2>2. CASE ~ Single
    <3>1. Kept(v) = [Whole(v.shown, v.seam) EXCEPT !.oversized = v.oversized]
      BY <2>2 DEF Kept
    <3> QED
      BY <1>7, <3>1, TextsAlone
  <2> QED
    BY <2>1, <2>2
<1> DEFINE w == Kept(v)
<1>9. Continues(r, AnsweredWith(r, w))
  <2>1. GoodView(w)
    BY <1>8
  <2> HIDE DEF r, w
  <2> QED
    BY <1>1, <2>1, AnswerKeeps
<1> QED
  BY <1>1, <1>4, <1>9 DEF OneMoves

(* StartFails.                                                             *)
LEMMA StartFailsMoves ==
    ASSUME RunsSound, NEW c \in Runs, StartFails(c)
    PROVE  OneMoves(c)
<1> DEFINE r == run[c]
           q == [r EXCEPT !.pc = "answered", !.code = "not_started"]
<1>1. r \in RunRecs /\ Sound(r) /\ r.pc = "queued"
  BY RequestOf DEF StartFails, Oldest, Waiting
<1>2. run' = [run EXCEPT ![c] = q] /\ UNCHANGED <<batch, reply>>
  BY DEF StartFails
<1>3. Continues(r, q)
  <2> HIDE DEF r
  <2> QED
    BY <1>1, StartFailsKeeps
<1> QED
  BY <1>2, <1>3 DEF OneMoves

(* The keys of a batch name its commands and their streams.                *)
LEMMA KeysTyped ==
    ASSUME RunsSound
    PROVE  /\ Runs = 1..Len(batch.runs) /\ Len(batch.runs) \in Nat
           /\ \A k \in Keys : RunOf(k) \in Runs /\ StreamOf(k) \in Streams
<1>1. batch \in Calls
  BY CallsAssumption DEF RunsSound
<1>2. batch.runs \in Seq(Requests)
  BY <1>1 DEF Calls
<1>3. Runs = 1..Len(batch.runs) /\ Len(batch.runs) \in Nat
  BY <1>2 DEF Runs
<1>4. ASSUME NEW k \in Keys
      PROVE  RunOf(k) \in Runs /\ StreamOf(k) \in Streams
  <2> DEFINE n == Len(batch.runs)
             h == (k + 1) \div 2
  <2>1. n \in Nat /\ k \in 1..2 * n
    BY <1>3 DEF Keys
  <2> HIDE DEF n
  <2>2. h \in 1..n /\ (k - 2 * (h - 1) = 1 \/ k - 2 * (h - 1) = 2)
    BY ONLY <2>1
  <2> QED
    BY <1>3, <2>2 DEF RunOf, StreamOf, Streams, stderr, stdout, n
<1> QED
  BY <1>3, <1>4

(* The needs of a batch are numbers, one for each of finitely many streams. *)
LEMMA NeedsTyped ==
    ASSUME RunsSound
    PROVE  /\ DOMAIN Needs = Keys /\ Keys \in SUBSET Nat /\ IsFiniteSet(Keys) /\ Terms(Needs, Keys)
           /\ MaxTokens \div 2 \in Nat
<1>1. \A k \in Keys : RunOf(k) \in Runs /\ StreamOf(k) \in Streams
  BY KeysTyped
<1>2. ASSUME NEW k \in Keys
      PROVE  Needs[k] \in Nat
  <2>1. run[RunOf(k)].view \in ViewRecs
    BY <1>1 DEF RunsSound, RunRecs
  <2>2. run[RunOf(k)].view.shown[StreamOf(k)] \in Nat
    BY <1>1, <2>1 DEF ViewRecs
  <2> QED
    BY <2>2 DEF Needs
<1>3. DOMAIN Needs = Keys
  BY DEF Needs
<1>4. Keys \in SUBSET Nat /\ IsFiniteSet(Keys)
  <2> DEFINE m == 2 * Len(batch.runs)
  <2>1. m \in Nat /\ 1 \in Int /\ m \in Int
    BY KeysTyped
  <2>2. Keys = 1..m
    BY DEF Keys
  <2> HIDE DEF m
  <2> QED
    BY <2>1, <2>2, FS_Interval
<1>5. MaxTokens \div 2 \in Nat
  BY BudgetAssumption
<1> QED
  BY <1>2, <1>3, <1>4, <1>5 DEF Terms

(* Only so many commands are under way.                                    *)
LEMMA ActiveTyped ==
    ASSUME RunsSound
    PROVE  IsFiniteSet(Active) /\ Cardinality(Active) \in Nat
<1>1. Runs = 1..Len(batch.runs) /\ Len(batch.runs) \in Nat
  BY KeysTyped
<1>2. IsFiniteSet(Runs)
  <2>1. 1 \in Int /\ Len(batch.runs) \in Int
    BY <1>1
  <2> QED
    BY <1>1, <2>1, FS_Interval
<1>3. Active \subseteq Runs
  BY DEF Active
<1> QED
  BY <1>2, <1>3, FS_Subset, FS_CardinalityType

(* A step of one command keeps the commands sound and what was answered.   *)
LEMMA OneStepKeeps ==
    ASSUME RunsSound, Replied, NEW c \in Runs, NEW q, StepOf(run[c], q), run' = [run EXCEPT ![c] = q],
           UNCHANGED <<batch, reply>>
    PROVE  RunsSound' /\ Replied' /\ Active' \ {c} \subseteq Active
<1>1. /\ Runs' = Runs /\ Keys' = Keys /\ batch' = batch /\ reply' = reply /\ run'[c] = q
      /\ run' \in [Runs -> RunRecs] /\ \A d \in Runs \ {c} : run'[d] = run[d]
  BY DEF Runs, Keys, RunsSound, StepOf
<1>2. RunsSound'
  BY <1>1 DEF RunsSound, StepOf
<1>3. Active' \ {c} \subseteq Active
  BY <1>1 DEF Active
<1>4. Replied'
  <2>1. CASE reply.kind # "batch"
    BY <1>1, <2>1 DEF Replied
  <2>2. CASE reply.kind = "batch"
    <3>1. \A d \in Runs : run'[d].pc = "answered" /\ run'[d].view = run[d].view
      BY <1>1, <2>2 DEF Replied, StepOf
    <3>2. Needs' = Needs
      <4>1. \A k \in Keys : run'[RunOf(k)].view.shown[StreamOf(k)] = run[RunOf(k)].view.shown[StreamOf(k)]
        BY <3>1, KeysTyped
      <4> QED
        BY <1>1, <4>1 DEF Needs, RunOf, StreamOf
    <3>3. FairShares(reply.shares, Needs, MaxTokens \div 2)
      BY <2>2 DEF Replied
    <3>4. FairShares(reply.shares, Needs, MaxTokens \div 2)'
      BY <1>1, <3>2, <3>3
    <3> QED
      BY <1>1, <2>2, <3>1, <3>4 DEF Replied
  <2> QED
    BY <2>1, <2>2
<1> QED
  BY <1>2, <1>3, <1>4

(* The invariant is kept by every step of a command that is under way.     *)
LEMMA OneMoveKeeps ==
    ASSUME CInv, NEW c \in Runs, OneMoves(c)
    PROVE  CInv'
<1>1. PICK q : Continues(run[c], q) /\ run' = [run EXCEPT ![c] = q]
  BY DEF OneMoves
<1>2. RunsSound /\ Replied /\ Crewed /\ UNCHANGED <<batch, reply>> /\ StepOf(run[c], q)
  BY <1>1 DEF CInv, OneMoves, Continues
<1>3. RunsSound' /\ Replied' /\ Active' \ {c} \subseteq Active
  BY <1>1, <1>2, OneStepKeeps
<1>4. c \in Active' => c \in Active
  <2>1. Runs' = Runs /\ run'[c] = q
    BY <1>1, <1>2 DEF Runs, RunsSound
  <2> QED
    BY <1>1, <2>1 DEF Active, Continues, Working
<1>5. Cardinality(Active') <= Cardinality(Active) /\ Cardinality(Active') \in Nat /\ Cardinality(Active) \in Nat
  <2>1. Active' \subseteq Active
    BY <1>3, <1>4
  <2>2. IsFiniteSet(Active) /\ Cardinality(Active) \in Nat
    BY <1>2, ActiveTyped
  <2> QED
    BY <2>1, <2>2, FS_Subset, FS_CardinalityType
<1>6. batch.width \in Nat
  BY <1>2, RequestOf
<1>7. Cardinality(Active)' <= batch'.width
  BY <1>2, <1>5, <1>6 DEF Crewed
<1> QED
  BY <1>3, <1>7 DEF CInv, Crewed

(* A worker takes a command.                                               *)
LEMMA StartMoves ==
    ASSUME CInv, NEW c \in Runs, Start(c)
    PROVE  CInv'
<1> DEFINE r == run[c]
           q == [r EXCEPT !.pc = "waiting", !.leader = "running", !.open = Streams]
<1>1. RunsSound /\ Replied /\ r \in RunRecs /\ Sound(r) /\ r.pc = "queued"
  BY RequestOf DEF CInv, Start, Oldest, Waiting
<1>2. run' = [run EXCEPT ![c] = q] /\ UNCHANGED <<batch, reply>> /\ Cardinality(Active) < batch.width
  BY DEF Start, Oldest
<1>3. StepOf(r, q)
  <2> HIDE DEF r
  <2> QED
    BY <1>1, StartKeeps
<1> HIDE DEF q
<1>4. RunsSound' /\ Replied' /\ Active' \ {c} \subseteq Active
  BY <1>1, <1>2, <1>3, OneStepKeeps
<1>5. IsFiniteSet(Active) /\ Cardinality(Active) \in Nat /\ batch.width \in Nat
  BY <1>1, ActiveTyped, RequestOf
<1> DEFINE more == Active \cup {c}
<1>6. IsFiniteSet(more) /\ Cardinality(more) \in Nat /\ Cardinality(more) <= Cardinality(Active) + 1
  BY <1>5, FS_AddElement, FS_CardinalityType
<1>7. Cardinality(Active') <= Cardinality(more) /\ Cardinality(Active') \in Nat
  <2>1. Active' \subseteq more
    BY <1>4
  <2> HIDE DEF more
  <2> QED
    BY <1>6, <2>1, FS_Subset, FS_CardinalityType
<1> HIDE DEF more
<1>8. Cardinality(Active)' <= batch'.width
  BY <1>2, <1>5, <1>6, <1>7
<1> QED
  BY <1>4, <1>8 DEF CInv, Crewed

(* A call is answered.                                                     *)
LEMMA RepliesKeep ==
    ASSUME CInv, Refuse \/ AnswerSingle \/ AnswerBatch
    PROVE  CInv'
<1>1. UNCHANGED <<batch, run>>
  BY DEF Refuse, AnswerSingle, AnswerBatch
<1>2. RunsSound' /\ Crewed' /\ Runs' = Runs /\ Keys' = Keys /\ Needs' = Needs
  BY <1>1 DEF CInv, RunsSound, Crewed, Runs, Active, Keys, Needs, RunOf, StreamOf
<1>3. CASE Refuse \/ AnswerSingle
  <2>1. reply'.kind \in {"refused", "single"}
    BY <1>3 DEF Refuse, AnswerSingle
  <2> QED
    BY <1>2, <2>1 DEF CInv, Replied
<1>4. CASE AnswerBatch
  <2> DEFINE needs  == Needs
             half   == MaxTokens \div 2
             shares == Allocate(needs, half)
             cut    == \E k \in Keys : shares[k] < needs[k]
  <2>1. PICK level \in {"full", "compact", "summary"} :
            reply' = [kind |-> "batch", results |-> Results(level), shares |-> shares,
                      is |-> Level(cut, level)]
    BY <1>4 DEF AnswerBatch
  <2>2. reply'.kind = "batch" /\ reply'.shares = shares /\ reply'.is = Level(cut, level)
    <3> HIDE DEF shares, cut
    <3> QED
      BY <2>1
  <2>3. reply'.is \in [level : {"full", "compact", "summary"}, complete : BOOLEAN]
    <3> HIDE DEF cut, shares
    <3> QED
      BY <2>2 DEF Level
  <2>4. \A c \in Runs : run'[c].pc = "answered"
    BY <1>1, <1>4 DEF AnswerBatch
  <2>5. FairShares(shares, needs, half)
    <3>1. IsFiniteSet(DOMAIN needs) /\ DOMAIN needs \in SUBSET Nat /\ Terms(needs, DOMAIN needs) /\ half \in Nat
      BY NeedsTyped DEF CInv
    <3> HIDE DEF needs, half
    <3> QED
      BY <3>1, AllocationIsFair
  <2> HIDE DEF shares
  <2>6. FairShares(reply.shares, Needs, MaxTokens \div 2)'
    BY <1>2, <2>2, <2>5
  <2> QED
    BY <1>2, <2>2, <2>3, <2>4, <2>6 DEF CInv, Replied
<1> QED
  BY <1>2, <1>3, <1>4

(* The invariant holds before the call is taken up.                        *)
LEMMA InvInit ==
    ASSUME Init
    PROVE  CInv
<1>1. batch \in Batches /\ run = [c \in Runs |-> Fresh] /\ reply = [kind |-> "none"]
  BY DEF Init
<1>2. RunsSound
  BY <1>1, FreshIsSound DEF RunsSound
<1>3. Active = {}
  BY <1>1 DEF Active, Fresh
<1>4. batch.width \in Nat
  <2>1. batch \in Calls
    BY <1>1, CallsAssumption
  <2> QED
    BY <2>1 DEF Calls
<1>5. Crewed
  <2>1. Cardinality({}) = 0
    BY FS_EmptySet
  <2> QED
    BY <1>3, <1>4, <2>1 DEF Crewed
<1>6. Replied
  BY <1>1 DEF Replied
<1> QED
  BY <1>2, <1>5, <1>6 DEF CInv

(* The invariant is kept by every step.                                    *)
LEMMA InvStep ==
    ASSUME CInv, [Next]_vars
    PROVE  CInv'
<1>1. RunsSound
  BY DEF CInv
<1>2. CASE UNCHANGED vars
  BY <1>2 DEF vars, CInv, RunsSound, Crewed, Replied, Runs, Active, Needs, Keys, RunOf, StreamOf
<1>3. ASSUME NEW c \in Runs, Start(c)
      PROVE  CInv'
  BY <1>3, StartMoves
<1>4. ASSUME NEW c \in Runs, StartFails(c)
      PROVE  CInv'
  BY <1>1, <1>4, StartFailsMoves, OneMoveKeeps
<1>5. ASSUME NEW c \in Runs, CallStep(c) \/ Expire(c)
      PROVE  CInv'
  <2>1. OneMoves(c)
    <3>1. CASE Render(c)
      BY <1>1, <3>1, RenderMoves
    <3>2. CASE Terminate(c) \/ FinishOff(c)
      BY <1>1, <3>2, KillMoves
    <3>3. CASE \/ Expire(c) \/ Waited(c) \/ JoinedInTime(c) \/ TimesOut(c)
               \/ Collected(c) \/ ClosePipes(c) \/ Closed(c)
      BY <1>1, <3>3, CallMoves
    <3> QED
      BY <1>5, <3>1, <3>2, <3>3 DEF CallStep
  <2> QED
    BY <2>1, OneMoveKeeps
<1>6. ASSUME NEW c \in Runs, NEW s \in Streams, Read(c, s)
      PROVE  CInv'
  BY <1>1, <1>6, ReaderMoves, OneMoveKeeps
<1>7. ASSUME NEW c \in Runs,
             \/ \E s \in Streams, b \in batch.runs[c].bytes : Write(c, s, b)
             \/ \E k \in batch.runs[c].kids : Fork(c, k)
             \/ \E code \in {"ok", "failed"} : LeaderExits(c, code)
             \/ KidExits(c)
      PROVE  CInv'
  BY <1>1, <1>7, ProcessesMove, OneMoveKeeps
<1>8. CASE Refuse \/ AnswerSingle \/ AnswerBatch
  BY <1>8, RepliesKeep
<1> QED
  BY <1>2, <1>3, <1>4, <1>5, <1>6, <1>7, <1>8 DEF Next

(* The invariant holds of every reachable state.                           *)
THEOREM CommandsSound == Spec => []CInv
<1>1. Init => CInv
  BY InvInit
<1>2. CInv /\ [Next]_vars => CInv'
  BY InvStep
<1> QED
  BY <1>1, <1>2, PTL DEF Spec

(* Every variable has its type and no more commands are under way than     *)
(* there are workers (the pool of run_commands).                           *)
THEOREM CommandsTyped == Spec => []TypeOK
<1>1. CInv => TypeOK
  <2> SUFFICES ASSUME CInv
               PROVE  TypeOK
    OBVIOUS
  <2>1. /\ \A c \in Runs : run[c] \in RunRecs
        /\ batch \in Batches /\ Cardinality(Active) <= batch.width
        /\ reply.kind \in {"none", "refused", "single", "batch"}
        /\ reply.kind = "batch" => reply.is \in [level : {"full", "compact", "summary"}, complete : BOOLEAN]
    BY DEF CInv, RunsSound, Crewed, Replied
  <2> QED
    BY <2>1 DEF TypeOK, RunRecs
<1> QED
  BY <1>1, CommandsSound, PTL

(* When a command has been given up, nothing of its process group is alive *)
(* (_terminate_process_tree), whatever ignores SIGTERM and whatever was    *)
(* forked during the grace period.                                         *)
THEOREM GroupKilled == Spec => []TimeoutKillsGroup
<1>1. CInv => TimeoutKillsGroup
  BY DEF CInv, RunsSound, Sound, Killed, AliveIn, TimeoutKillsGroup, Members
<1> QED
  BY <1>1, CommandsSound, PTL

(* However the pipes are read, what is kept of a stream is its first bytes, *)
(* its last ones and its counts, and a command that was not given up is    *)
(* answered with all that was ever written (_BoundedStreamCapture and      *)
(* run_command).                                                           *)
THEOREM OutputIsExact == Spec => []OutputExact
<1>1. CInv => OutputComplete
  <2> SUFFICES ASSUME CInv, NEW c \in Runs, run[c].pc = "render", ~ run[c].timedOut, NEW s \in Streams
               PROVE  ~ Held(c, s) /\ run[c].taken[s] = Len(run[c].written[s])
    BY DEF OutputComplete
  <2>1. Course(run[c]) /\ Reading(run[c])
    BY DEF CInv, RunsSound, Sound
  <2>2. run[c].open = {}
    BY <2>1 DEF Course
  <2>3. ~ HeldIn(run[c], s) /\ run[c].taken[s] = Len(run[c].written[s])
    BY <2>1, <2>2 DEF Reading
  <2> QED
    BY <2>3 DEF Held, HeldIn
<1>2. CInv => CaptureExact
  <2> SUFFICES ASSUME CInv
               PROVE  CaptureExact
    OBVIOUS
  <2>1. ASSUME NEW c \in Runs, NEW s \in Streams
        PROVE  CaptureTells(run[c].cap[s], s, SubSeq(run[c].written[s], 1, run[c].taken[s]))
    <3> DEFINE r == run[c]
               text == TextOf(r, s)
               cap == r.cap[s]
    <3>1. r \in RunRecs /\ Sound(r)
      BY DEF CInv, RunsSound
    <3>2. IsCapture(cap, s, text)
      BY <3>1 DEF Sound, Capturing
    <3>3. text \in Seq(STRING)
      <4> HIDE DEF r
      <4>1. ChunkFollows(r, s)
        BY <3>1, ChunksFollow
      <4> QED
        BY <4>1 DEF ChunkFollows
    <3>4. text = SubSeq(r.written[s], 1, r.taken[s])
      BY DEF TextOf
    <3> HIDE DEF text, cap
    <3>5. CaptureTells(cap, s, text)
      BY <3>2, <3>3, CapturesTell
    <3> QED
      BY <3>4, <3>5 DEF cap
  <2> QED
    BY <2>1, Zenon DEF CaptureTells, CaptureExact
<1> QED
  BY <1>1, <1>2, CommandsSound, PTL DEF OutputExact

(* What is shown of a command keeps the token budget and marks what it     *)
(* leaves out (_render_captured_output), and the budget of a batch is      *)
(* given away as far as it is needed, no text being cut for the sake of    *)
(* another that gets more (_allocate_stream_token_budgets).                *)
THEOREM BudgetIsKept == Spec => []BudgetKept
<1>1. CInv => DisplayFits
  BY DEF CInv, RunsSound, Sound, GoodView, WithinBudget, MarkedAt, DisplayFits
<1>2. CInv => SharesFair
  <2> SUFFICES ASSUME CInv, reply.kind = "batch"
               PROVE  SharesFair
    BY DEF SharesFair
  <2>1. FairShares(reply.shares, Needs, MaxTokens \div 2)
    BY DEF CInv, Replied
  <2>2. DOMAIN Needs = Keys
    BY NeedsTyped DEF CInv
  <2> QED
    BY <2>1, <2>2, Zenon DEF FairShares, SharesFair
<1> QED
  BY <1>1, <1>2, CommandsSound, PTL DEF BudgetKept
================================================================================
