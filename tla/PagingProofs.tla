----------------------------- MODULE PagingProofs -----------------------------
(***************************************************************************)
(* What Paging promises to every reader but that of a search in the        *)
(* contents of files, for everything that may be read, every size of a     *)
(* page and of the room of an answer, every limit, and however a log grows *)
(* while it is read: the pages join, the last one is the last, and nobody  *)
(* reads the same page for ever. First sizes, then a page of each kind,    *)
(* then the units that a log is decoded to, the invariant of a reader, and *)
(* at last the batches of files, whose pages branch into those of a file.  *)
(***************************************************************************)
EXTENDS Paging, FiniteSetTheorems, SequenceTheorems, TLAPS

-----------------------------------------------------------------------------
(* Sizes.                                                                  *)

(* Every set of numbers has a least one.                                   *)
LEMMA LeastNatural ==
    ASSUME NEW T \in SUBSET Nat, T # {}
    PROVE  \E m \in T : \A k \in T : m <= k
<1> DEFINE R == {p \in Nat \X Nat : p[1] < p[2]}
<1>1. IsWellFoundedOn(R, Nat)
  BY NatLessThanWellFounded DEF OpToRel
<1>2. \A x, y \in Nat : y < x => << y, x >> \in R
  OBVIOUS
<1> HIDE DEF R
<1>3. PICK x \in T : \A y \in T : ~ (<< y, x >> \in R)
  BY <1>1, WFMin
<1>4. ASSUME NEW k \in T
      PROVE  x <= k
  <2>1. x \in Nat /\ k \in Nat
    OBVIOUS
  <2>2. ~ (k < x)
    BY <1>2, <1>3, <2>1
  <2> QED
    BY <2>1, <2>2
<1> QED
  BY <1>4

(* Every bounded set of numbers has a largest one, which Max finds.        *)
LEMMA LargestOf ==
    ASSUME NEW n \in Nat, NEW T \in SUBSET (0..n), T # {}
    PROVE  Max(T) \in T /\ \A k \in T : k <= Max(T)
<1> DEFINE U == {n - k : k \in T}
<1>1. U \in SUBSET Nat /\ U # {}
  <2>1. \A k \in T : k \in Nat /\ k <= n /\ n - k \in Nat
    OBVIOUS
  <2> QED
    BY <2>1
<1>2. PICK m \in U : \A k \in U : m <= k
  BY <1>1, LeastNatural
<1>3. PICK x \in T : m = n - x
  BY <1>2
<1>4. \A k \in T : x >= k
  <2> TAKE k \in T
  <2>1. m <= n - k
    BY <1>2
  <2> QED
    BY <1>3, <2>1
<1>5. \E y \in T : \A k \in T : y >= k
  BY <1>4
<1>6. Max(T) \in T /\ \A k \in T : Max(T) >= k
  BY <1>5, Zenon DEF Max
<1> DEFINE most == Max(T)
<1>7. most \in T /\ \A k \in T : most >= k
  BY <1>6
<1> HIDE DEF most
<1>8. most \in Int /\ \A k \in T : k \in Int
  BY <1>7
<1>9. \A k \in T : k <= most
  BY <1>7, <1>8
<1> QED
  BY <1>7, <1>9 DEF most

(* The smaller and the larger of two numbers.                              *)
LEMMA SmallerOf ==
    ASSUME NEW a \in Int, NEW b \in Int
    PROVE  Min({a, b}) = IF a <= b THEN a ELSE b
<1> DEFINE T == {a, b}
           m == IF a <= b THEN a ELSE b
<1>1. m \in T /\ \A k \in T : m <= k
  OBVIOUS
<1>2. \A x \in T : (\A k \in T : x <= k) => x = m
  OBVIOUS
<1>3. Min(T) \in T /\ \A k \in T : Min(T) <= k
  <2>1. \E x \in T : \A k \in T : x <= k
    BY <1>1
  <2> QED
    BY <2>1, Zenon DEF Min
<1> QED
  BY <1>2, <1>3

(* The larger of two numbers.                                              *)
LEMMA LargerOf ==
    ASSUME NEW a \in Int, NEW b \in Int
    PROVE  Max({a, b}) = IF a >= b THEN a ELSE b
<1> DEFINE T == {a, b}
           m == IF a >= b THEN a ELSE b
<1>1. m \in T /\ \A k \in T : m >= k
  OBVIOUS
<1>2. \A x \in T : (\A k \in T : x >= k) => x = m
  OBVIOUS
<1>3. Max(T) \in T /\ \A k \in T : Max(T) >= k
  <2>1. \E x \in T : \A k \in T : x >= k
    BY <1>1
  <2> QED
    BY <2>1, Zenon DEF Max
<1> QED
  BY <1>2, <1>3

(* The sums of the first items.                                            *)
Sums(g, sizes, from, n) == g = [k \in 0 .. n |-> IF k = 0 THEN 0 ELSE g[k - 1] + sizes[from + k]]

(* However many items there are, their sums can be made one by one.        *)
LEMMA SumsExist ==
    ASSUME NEW sizes, NEW from, NEW n \in Nat
    PROVE  \E g : Sums(g, sizes, from, n)
<1> DEFINE Missing == {k \in Nat : ~ \E g : Sums(g, sizes, from, k)}
<1>1. \E g : Sums(g, sizes, from, 0)
  <2> DEFINE g == [k \in 0 .. 0 |-> 0]
  <2>1. g = [k \in 0 .. 0 |-> IF k = 0 THEN 0 ELSE g[k - 1] + sizes[from + k]]
    OBVIOUS
  <2>2. Sums(g, sizes, from, 0)
    BY <2>1 DEF Sums
  <2> QED
    BY <2>2
<1>2. ASSUME NEW k \in Nat, NEW g, Sums(g, sizes, from, k)
      PROVE  \E h : Sums(h, sizes, from, k + 1)
  <2> DEFINE h == [j \in 0 .. k + 1 |-> IF j = 0 THEN 0 ELSE g[j - 1] + sizes[from + j]]
  <2>1. \A j \in 0 .. k : j \in 0 .. k + 1
    OBVIOUS
  <2>2. \A j \in 0 .. k : h[j] = g[j]
    BY <1>2, <2>1 DEF Sums
  <2>3. \A j \in 0 .. k + 1 : j # 0 => j - 1 \in 0 .. k
    OBVIOUS
  <2>4. \A j \in 0 .. k + 1 : j # 0 => h[j - 1] = g[j - 1]
    BY <2>2, <2>3
  <2>5. Sums(h, sizes, from, k + 1)
    BY <2>4 DEF Sums
  <2> QED
    BY <2>5
<1>3. Missing = {}
  <2> SUFFICES ASSUME Missing # {}
               PROVE  FALSE
    OBVIOUS
  <2>1. PICK k \in Missing : \A j \in Missing : k <= j
    BY LeastNatural
  <2>2. k \in Nat /\ ~ \E g : Sums(g, sizes, from, k)
    BY <2>1
  <2>3. k # 0
    BY <1>1, <2>2
  <2>4. k - 1 \in Nat /\ k - 1 \notin Missing /\ (k - 1) + 1 = k
    BY <2>1, <2>2, <2>3
  <2>5. \E g : Sums(g, sizes, from, k - 1)
    BY <2>4
  <2> QED
    BY <1>2, <2>2, <2>4, <2>5
<1> QED
  BY <1>3

(* Size is the last of them.                                               *)
LEMMA SizeIsSum ==
    ASSUME NEW sizes, NEW from, NEW n \in Nat
    PROVE  \E g : Sums(g, sizes, from, n) /\ Size(sizes, from, n) = g[n]
<1> DEFINE sum == CHOOSE g : Sums(g, sizes, from, n)
<1>1. Sums(sum, sizes, from, n)
  BY SumsExist
<1>2. sum = CHOOSE g : g = [k \in 0 .. n |-> IF k = 0 THEN 0 ELSE g[k - 1] + sizes[from + k]]
  BY Zenon DEF Sums
<1> HIDE DEF sum
<1>3. Size(sizes, from, n) = sum[n]
  BY <1>2, Zenon DEF Size
<1> QED
  BY <1>1, <1>3

(* Sums that begin together agree.                                         *)
LEMMA SumsAgree ==
    ASSUME NEW s, NEW t, NEW from, NEW n \in Nat, NEW m \in Nat, m <= n, NEW g, NEW h,
           Sums(g, s, from, m), Sums(h, t, from, n), \A k \in 1 .. m : s[from + k] = t[from + k]
    PROVE  g[m] = h[m]
<1> DEFINE Odd == {k \in Nat : k <= m /\ g[k] # h[k]}
<1>1. \A k \in 0 .. m : g[k] = IF k = 0 THEN 0 ELSE g[k - 1] + s[from + k]
  BY DEF Sums
<1>2. \A k \in 0 .. m : h[k] = IF k = 0 THEN 0 ELSE h[k - 1] + t[from + k]
  <2>1. \A k \in 0 .. n : h[k] = IF k = 0 THEN 0 ELSE h[k - 1] + t[from + k]
    BY DEF Sums
  <2>2. \A k \in 0 .. m : k \in 0 .. n
    OBVIOUS
  <2> QED
    BY <2>1, <2>2
<1>3. Odd = {}
  <2> SUFFICES ASSUME Odd # {}
               PROVE  FALSE
    OBVIOUS
  <2>1. PICK k \in Odd : \A j \in Odd : k <= j
    BY LeastNatural
  <2>2. k \in 0 .. m /\ g[k] # h[k]
    BY <2>1
  <2>3. k # 0
    BY <1>1, <1>2, <2>2
  <2>4. k \in 1 .. m /\ k - 1 \in Nat /\ k - 1 \notin Odd /\ k - 1 <= m
    BY <2>1, <2>2, <2>3
  <2>5. g[k - 1] = h[k - 1]
    BY <2>4
  <2>6. g[k] = g[k - 1] + s[from + k] /\ h[k] = h[k - 1] + t[from + k]
    BY <1>1, <1>2, <2>2, <2>3
  <2>7. s[from + k] = t[from + k]
    BY <2>4
  <2> QED
    BY <2>2, <2>5, <2>6, <2>7, Zenon
<1> QED
  BY <1>3

(* How Size goes on.                                                       *)
LEMMA SizeSteps ==
    ASSUME NEW sizes, NEW from, NEW n \in Nat
    PROVE  /\ Size(sizes, from, 0) = 0
           /\ Size(sizes, from, n + 1) = Size(sizes, from, n) + sizes[from + (n + 1)]
<1>1. Size(sizes, from, 0) = 0
  <2>1. PICK g : Sums(g, sizes, from, 0) /\ Size(sizes, from, 0) = g[0]
    BY SizeIsSum
  <2>2. g[0] = 0
    BY <2>1 DEF Sums
  <2> QED
    BY <2>1, <2>2
<1>2. Size(sizes, from, n + 1) = Size(sizes, from, n) + sizes[from + (n + 1)]
  <2>1. n + 1 \in Nat /\ n <= n + 1 /\ n + 1 # 0 /\ (n + 1) - 1 = n /\ n + 1 \in 0 .. n + 1
    OBVIOUS
  <2>2. PICK h : Sums(h, sizes, from, n + 1) /\ Size(sizes, from, n + 1) = h[n + 1]
    BY <2>1, SizeIsSum
  <2>3. PICK g : Sums(g, sizes, from, n) /\ Size(sizes, from, n) = g[n]
    BY SizeIsSum
  <2>4. g[n] = h[n]
    BY <2>1, <2>2, <2>3, SumsAgree
  <2>5. h[n + 1] = h[n] + sizes[from + (n + 1)]
    BY <2>1, <2>2 DEF Sums
  <2> QED
    BY <2>2, <2>3, <2>4, <2>5, Zenon
<1> QED
  BY <1>1, <1>2

(* Items of the same sizes add up to the same.                             *)
LEMMA SizesAgree ==
    ASSUME NEW s, NEW t, NEW from, NEW n \in Nat, \A k \in 1 .. n : s[from + k] = t[from + k]
    PROVE  Size(s, from, n) = Size(t, from, n)
<1>1. PICK g : Sums(g, s, from, n) /\ Size(s, from, n) = g[n]
  BY SizeIsSum
<1>2. PICK h : Sums(h, t, from, n) /\ Size(t, from, n) = h[n]
  BY SizeIsSum
<1>3. n <= n
  OBVIOUS
<1> QED
  BY <1>1, <1>2, <1>3, SumsAgree

(* Positive sizes add up to more and more.                                 *)
Growing(sizes) == \A n \in 0 .. Len(sizes) : Size(sizes, 0, n) \in Nat
                    /\ \A m \in 0 .. Len(sizes) : m < n => Size(sizes, 0, m) < Size(sizes, 0, n)

(* So do the sizes of a sequence that has no empty item.                   *)
LEMMA SizesGrow ==
    ASSUME NEW sizes \in Seq(Nat \ {0})
    PROVE  Growing(sizes)
<1> DEFINE L == Len(sizes)
           A(n) == Size(sizes, 0, n) \in Nat /\ \A m \in 0 .. L : m < n => Size(sizes, 0, m) \in Nat /\ Size(sizes, 0, m) < Size(sizes, 0, n)
           Odd == {n \in Nat : n <= L /\ ~ A(n)}
<1>1. A(0)
  <2>1. Size(sizes, 0, 0) = 0
    BY SizeSteps
  <2>2. \A m \in 0 .. L : ~ (m < 0)
    OBVIOUS
  <2> QED
    BY <2>1, <2>2
<1>2. ASSUME NEW n \in Nat, n + 1 <= L, A(n)
      PROVE  A(n + 1)
  <2>1. Size(sizes, 0, n + 1) = Size(sizes, 0, n) + sizes[0 + (n + 1)]
    BY SizeSteps
  <2>2. n + 1 \in 1 .. L /\ 0 + (n + 1) = n + 1
    BY <1>2
  <2>3. sizes[n + 1] \in Nat /\ sizes[n + 1] > 0
    BY <2>2
  <2> DEFINE a == Size(sizes, 0, n)
             b == Size(sizes, 0, n + 1)
             z == sizes[n + 1]
  <2>4. b = a + z /\ a \in Nat /\ z \in Nat /\ z > 0
    BY <1>2, <2>1, <2>2, <2>3
  <2> HIDE DEF a, b, z
  <2>5. b \in Nat /\ a < b
    BY <2>4
  <2>6. ASSUME NEW m \in 0 .. L, m < n + 1
        PROVE  Size(sizes, 0, m) \in Nat /\ Size(sizes, 0, m) < Size(sizes, 0, n + 1)
    <3>1. CASE m = n
      BY <2>4, <2>5, <3>1 DEF a, b
    <3>2. CASE m # n
      <4>1. m < n
        BY <2>6, <3>2
      <4> DEFINE c == Size(sizes, 0, m)
      <4>2. c < a
        BY <1>2, <4>1 DEF a
      <4>3. c \in Nat
        BY <1>2, <4>1
      <4> HIDE DEF c
      <4>4. c < b /\ c \in Nat
        BY <2>4, <2>5, <4>2, <4>3
      <4> QED
        BY <4>4 DEF b, c
    <3> QED
      BY <3>1, <3>2
  <2> QED
    BY <2>5, <2>6 DEF b
<1>3. Odd = {}
  <2> HIDE DEF A
  <2> SUFFICES ASSUME Odd # {}
               PROVE  FALSE
    OBVIOUS
  <2>1. PICK k \in Odd : \A j \in Odd : k <= j
    BY LeastNatural
  <2>2. k \in Nat /\ k <= L /\ ~ A(k)
    BY <2>1
  <2>3. k # 0
    BY <1>1, <2>2
  <2>4. k - 1 \in Nat /\ k - 1 \notin Odd /\ k - 1 <= L /\ (k - 1) + 1 = k
    BY <2>1, <2>2, <2>3
  <2>5. A(k - 1)
    BY <2>4
  <2> QED
    BY <1>2, <2>2, <2>4, <2>5
<1>4. \A n \in 0 .. L : A(n)
  <2> HIDE DEF A
  <2> QED
    BY <1>3
<1> QED
  BY <1>4 DEF Growing

-----------------------------------------------------------------------------
(* Lists: items, lines and jobs.                                           *)

(* What comes next follows what there is.                                  *)
LEMMA SpansJoin ==
    ASSUME NEW a \in Nat, NEW b \in Nat
    PROVE  Span(0, a) \o Span(a, b) = Span(0, a + b) /\ Span(0, a) \in Seq(Nat) /\ Len(Span(0, a)) = a
<1>1. Span(0, a) \in Seq(Nat) /\ Span(a, b) \in Seq(Nat) /\ Span(0, a + b) \in Seq(Nat)
  BY DEF Span
<1>2. Len(Span(0, a)) = a /\ Len(Span(a, b)) = b /\ Len(Span(0, a + b)) = a + b
  BY DEF Span
<1>3. ASSUME NEW i \in 1 .. a + b
      PROVE  (Span(0, a) \o Span(a, b))[i] = Span(0, a + b)[i]
  <2> DEFINE x == Span(0, a)
             y == Span(a, b)
  <2>1. Span(0, a + b)[i] = i
    BY DEF Span
  <2>2. \A j \in 1 .. a : x[j] = j
    BY DEF Span
  <2>3. \A j \in 1 .. b : y[j] = a + j
    BY DEF Span
  <2>4. x \in Seq(Nat) /\ y \in Seq(Nat) /\ Len(x) = a /\ Len(y) = b
    BY <1>1, <1>2
  <2> HIDE DEF x, y
  <2>5. i <= a => (x \o y)[i] = i
    <3> SUFFICES ASSUME i <= a PROVE (x \o y)[i] = i
      OBVIOUS
    <3>1. i \in 1 .. a
      OBVIOUS
    <3>2. (x \o y)[i] = x[i]
      BY <2>4, <3>1
    <3> QED
      BY <2>2, <3>1, <3>2
  <2>6. i > a => (x \o y)[i] = i
    <3> SUFFICES ASSUME i > a PROVE (x \o y)[i] = i
      OBVIOUS
    <3>1. i - a \in 1 .. b /\ a + (i - a) = i
      OBVIOUS
    <3>2. (x \o y)[i] = y[i - a]
      BY <2>4
    <3>3. y[i - a] = a + (i - a)
      BY <2>3, <3>1
    <3> QED
      BY <3>1, <3>2, <3>3, Zenon
  <2>7. i <= a \/ i > a
    OBVIOUS
  <2>8. (x \o y)[i] = i
    BY <2>5, <2>6, <2>7, Zenon
  <2> QED
    BY <2>1, <2>8 DEF x, y
<1>4. Span(0, a) \o Span(a, b) = Span(0, a + b)
  <2> DEFINE x == Span(0, a) \o Span(a, b)
             y == Span(0, a + b)
  <2>1. x \in Seq(Nat) /\ Len(x) = a + b
    BY <1>1, <1>2
  <2>2. y \in Seq(Nat) /\ Len(y) = a + b
    BY <1>1, <1>2
  <2>3. \A i \in 1 .. a + b : x[i] = y[i]
    BY <1>3
  <2> HIDE DEF x, y
  <2>4. x = y
    BY <2>1, <2>2, <2>3, SeqEqual
  <2> QED
    BY <2>4 DEF x, y
<1> QED
  BY <1>1, <1>2, <1>4

(* A part of a list from the beginning.                                    *)
LEMMA SpanBegins ==
    ASSUME NEW n \in Nat, NEW k \in Nat, k <= n
    PROVE  SubSeq(Span(0, n), 1, k) = Span(0, k)
BY DEF Span

(* As many as fit are there, and one does if it fits alone.                *)
FitTells(sizes, from, most, room) ==
    LET f == Fitting(sizes, from, most, room)
    IN  /\ f \in Nat /\ f <= Len(sizes) - from /\ (most # 0 => f <= most)
        /\ from < Len(sizes) /\ sizes[from + 1] <= room => f >= 1

(* Fitting finds as many as that, whatever the limit and the room.         *)
LEMMA FittingTells ==
    ASSUME NEW sizes \in Seq(Nat), NEW from \in 0 .. Len(sizes), NEW most \in Nat, NEW room \in Int
    PROVE  FitTells(sizes, from, most, room)
<1> DEFINE ahead == Len(sizes) - from
           top  == IF most = 0 THEN ahead ELSE Min({most, ahead})
           fit  == {n \in 0 .. top : Size(sizes, from, n) <= room}
           f    == Fitting(sizes, from, most, room)
<1>1. ahead \in Nat /\ from \in Nat /\ Len(sizes) \in Nat
  OBVIOUS
<1> HIDE DEF ahead
<1>2. top \in Nat /\ top <= ahead /\ (most # 0 => top <= most) /\ (ahead > 0 => top >= 1)
  <2>1. Min({most, ahead}) = IF most <= ahead THEN most ELSE ahead
    BY <1>1, SmallerOf
  <2> QED
    BY <1>1, <2>1
<1> HIDE DEF top
<1>3. f = IF fit = {} THEN 0 ELSE Max(fit)
  BY DEF Fitting, top, ahead
<1>4. fit \in SUBSET (0 .. top)
  OBVIOUS
<1>5. from < Len(sizes) /\ sizes[from + 1] <= room => 1 \in fit
  <2> SUFFICES ASSUME from < Len(sizes), sizes[from + 1] <= room
               PROVE  1 \in fit
    OBVIOUS
  <2>1. Size(sizes, from, 0) = 0 /\ Size(sizes, from, 0 + 1) = Size(sizes, from, 0) + sizes[from + (0 + 1)]
    <3>1. 0 \in Nat
      OBVIOUS
    <3> QED
      BY <3>1, SizeSteps
  <2>2. sizes[from + 1] \in Nat
    BY <1>1
  <2>3. 0 + 1 = 1
    OBVIOUS
  <2>4. Size(sizes, from, 1) = 0 + sizes[from + 1]
    BY <2>1, <2>3, Zenon
  <2>5. Size(sizes, from, 1) <= room
    BY <2>2, <2>4
  <2>6. 1 \in 0 .. top
    BY <1>1, <1>2 DEF ahead
  <2> QED
    BY <2>5, <2>6
<1> HIDE DEF fit, f
<1>6. CASE fit = {}
  BY <1>1, <1>2, <1>3, <1>5, <1>6 DEF FitTells, f, ahead
<1>7. CASE fit # {}
  <2>1. Max(fit) \in fit /\ \A k \in fit : k <= Max(fit)
    BY <1>2, <1>4, <1>7, LargestOf
  <2>2. f \in Nat /\ f <= top /\ \A k \in fit : k <= f
    BY <1>2, <1>3, <1>4, <1>7, <2>1
  <2>3. f <= ahead /\ (most # 0 => f <= most)
    BY <1>1, <1>2, <2>2
  <2>4. 1 \in fit => f >= 1
    BY <2>2
  <2> QED
    BY <1>5, <2>2, <2>3, <2>4 DEF FitTells, f, ahead
<1> QED
  BY <1>6, <1>7

(* A page of a list.                                                       *)
ListPage(p, sizes, from) ==
    \E k \in Nat : /\ k <= Len(sizes) - from /\ p.items = Span(from, k)
                   /\ p.next = from + k /\ p.more = (from + k < Len(sizes))

(* list_files, search and code_map: a page of items gets further when      *)
(* every item fits beside the envelope and what the wrapper adds.          *)
LEMMA CollectedList ==
    ASSUME NEW s, s.sizes \in Seq(Nat), s.envelope \in Nat, s.wrapper \in Nat,
           NEW from \in 0 .. Len(s.sizes), NEW limit \in Nat
    PROVE  /\ ListPage(Collected(s, from, limit), s.sizes, from)
           /\ (\A i \in DOMAIN s.sizes : s.sizes[i] + s.envelope + s.wrapper <= Room)
                  /\ Collected(s, from, limit).more => Collected(s, from, limit).next > from
<1> DEFINE z == s.sizes
           n    == Fitting(z, from, limit, Room - s.envelope)
           kept == IF n = 0 THEN 0 ELSE Fitting(z, from, n, Room - s.envelope - s.wrapper)
           p == Collected(s, from, limit)
<1>1. Room - s.envelope \in Int /\ Room - s.envelope - s.wrapper \in Int /\ Room \in Int
  BY PageAssumption
<1>2. FitTells(z, from, limit, Room - s.envelope)
  BY <1>1, FittingTells
<1>3. n \in Nat /\ n <= Len(z) - from
  BY <1>2 DEF FitTells
<1>4. FitTells(z, from, n, Room - s.envelope - s.wrapper)
  <2> HIDE DEF n
  <2> QED
    BY <1>1, <1>3, FittingTells
<1>5. kept \in Nat /\ kept <= Len(z) - from
  <2>1. 0 <= Len(z) - from
    OBVIOUS
  <2>2. CASE n = 0
    BY <2>1, <2>2
  <2>3. CASE n # 0
    BY <1>4, <2>3 DEF FitTells
  <2> QED
    BY <2>2, <2>3
<1>6. p.items = Span(from, kept) /\ p.next = from + kept /\ p.more = (from + kept < Len(z))
  BY DEF Collected, PageOf
<1>7. ListPage(p, z, from)
  <2> HIDE DEF p, kept
  <2> QED
    BY <1>5, <1>6 DEF ListPage
<1>8. ASSUME \A i \in DOMAIN z : z[i] + s.envelope + s.wrapper <= Room, p.more
      PROVE  p.next > from
  <2>1. from + kept < Len(z)
    BY <1>6, <1>8
  <2>2. from < Len(z) /\ from + 1 \in DOMAIN z
    <3> HIDE DEF kept
    <3> QED
      BY <1>5, <2>1
  <2>3. z[from + 1] + s.envelope + s.wrapper <= Room /\ z[from + 1] \in Nat
    BY <1>8, <2>2
  <2>4. z[from + 1] <= Room - s.envelope /\ z[from + 1] <= Room - s.envelope - s.wrapper
    <3> DEFINE a == z[from + 1]
               e == s.envelope
               w == s.wrapper
    <3>1. a \in Nat /\ e \in Nat /\ w \in Nat /\ a + e + w <= Room
      BY <2>3
    <3> HIDE DEF a, e, w
    <3>2. a <= Room - e /\ a <= Room - e - w
      BY <1>1, <3>1
    <3> QED
      BY <3>2 DEF a, e, w
  <2>5. n >= 1
    BY <1>2, <2>2, <2>4 DEF FitTells
  <2>6. kept >= 1
    <3>1. Fitting(z, from, n, Room - s.envelope - s.wrapper) >= 1
      BY <1>4, <2>2, <2>4 DEF FitTells
    <3>2. n # 0
      BY <1>3, <2>5
    <3> QED
      BY <3>1, <3>2
  <2> HIDE DEF kept
  <2> QED
    BY <1>5, <1>6, <2>6
<1> QED
  BY <1>7, <1>8

(* read_text: a page of lines always gets further.                         *)
LEMMA LinesList ==
    ASSUME NEW s, s.sizes \in Seq(Nat), s.bytes \in Seq(Nat), Len(s.bytes) = Len(s.sizes),
           NEW from \in 0 .. Len(s.sizes), NEW limit \in Nat
    PROVE  /\ ListPage(Lines(s, from, limit), s.sizes, from)
           /\ Lines(s, from, limit).more => Lines(s, from, limit).next > from
<1> DEFINE a == Fitting(s.sizes, from, limit, Room)
           b == Fitting(s.bytes, from, limit, MaxBytes)
           m == Min({a, b})
           n == LineCount(s.sizes, s.bytes, from, limit)
           p == Lines(s, from, limit)
<1>1. FitTells(s.sizes, from, limit, Room) /\ FitTells(s.bytes, from, limit, MaxBytes)
  <2>1. Room \in Int /\ MaxBytes \in Int /\ from \in 0 .. Len(s.bytes)
    BY PageAssumption
  <2> QED
    BY <2>1, FittingTells
<1>2. a \in Nat /\ b \in Nat /\ a <= Len(s.sizes) - from
  BY <1>1 DEF FitTells
<1>3. n = IF m = 0 /\ from < Len(s.sizes) THEN 1 ELSE m
  BY DEF LineCount
<1> HIDE DEF a, b
<1>4. m = IF a <= b THEN a ELSE b
  <2>1. a \in Int /\ b \in Int
    BY <1>2
  <2>2. Min({a, b}) = IF a <= b THEN a ELSE b
    BY <2>1, SmallerOf
  <2> QED
    BY <2>2, Zenon
<1>5. m \in Nat /\ m <= Len(s.sizes) - from
  BY <1>2, <1>4
<1> HIDE DEF m
<1>6. p.items = Span(from, n) /\ p.next = from + n /\ p.more = (from + n < Len(s.sizes))
  BY DEF Lines, PageOf
<1> HIDE DEF n, p
<1>7. n \in Nat /\ n <= Len(s.sizes) - from /\ (from < Len(s.sizes) => n >= 1)
  BY <1>3, <1>5
<1>8. p.more => p.next > from
  <2>1. from \in Nat /\ Len(s.sizes) \in Nat
    OBVIOUS
  <2>2. from + n < Len(s.sizes) => from + n > from
    BY <1>7, <2>1
  <2> QED
    BY <1>6, <2>2, Zenon
<1>9. ListPage(p, s.sizes, from)
  BY <1>6, <1>7 DEF ListPage
<1> QED
  BY <1>8, <1>9 DEF p

(* job_list: a page of jobs always gets further.                           *)
LEMMA JobsList ==
    ASSUME NEW s, s.sizes \in Seq(Nat), s.envelope \in Nat, s.warnings \in Nat,
           NEW from \in 0 .. Len(s.sizes), NEW limit \in Nat, limit >= 1
    PROVE  /\ ListPage(Jobs(s, from, limit), s.sizes, from)
           /\ Jobs(s, from, limit).more => Jobs(s, from, limit).next > from
<1> DEFINE ahead == Len(s.sizes) - from
           wanted == Min({limit, ahead})
           n      == Fitting(s.sizes, from, wanted, Room - s.envelope)
           kept   == IF n = 0 /\ wanted > 0 THEN 1 ELSE n
           p == Jobs(s, from, limit)
<1>1. ahead \in Nat
  OBVIOUS
<1>2. wanted = IF limit <= ahead THEN limit ELSE ahead
  <2> HIDE DEF ahead
  <2> QED
    BY <1>1, SmallerOf
<1>3. wanted \in Nat /\ (ahead > 0 => wanted > 0) /\ (wanted > 0 => ahead > 0)
  <2> HIDE DEF ahead, wanted
  <2> QED
    BY <1>1, <1>2
<1>4. n \in Nat /\ n <= ahead
  <2>1. Room - s.envelope \in Int
    BY PageAssumption
  <2> HIDE DEF wanted
  <2>2. FitTells(s.sizes, from, wanted, Room - s.envelope)
    BY <1>3, <2>1, FittingTells
  <2> QED
    BY <2>2 DEF FitTells
<1>5. p.items = Span(from, kept) /\ p.next = from + kept /\ p.more = (from + kept < Len(s.sizes))
  BY DEF Jobs, PageOf
<1> HIDE DEF wanted, n, p
<1>6. kept \in Nat /\ kept <= ahead /\ (ahead > 0 => kept >= 1)
  BY <1>1, <1>3, <1>4
<1> HIDE DEF kept
<1>7. p.more => p.next > from
  <2>1. from \in Nat /\ Len(s.sizes) \in Nat
    OBVIOUS
  <2>2. from + kept < Len(s.sizes) => from + kept > from
    BY <1>1, <1>6, <2>1
  <2> QED
    BY <1>5, <2>2, Zenon
<1>8. ListPage(p, s.sizes, from)
  BY <1>5, <1>6 DEF ListPage
<1> QED
  BY <1>7, <1>8 DEF p

-----------------------------------------------------------------------------
(* Diffs.                                                                  *)

(* What is taken from a place on adds to what is before it.                *)
LEMMA SizesAdd ==
    ASSUME NEW sizes \in Seq(Nat), NEW m \in Nat, NEW n \in Nat, m + n <= Len(sizes)
    PROVE  Size(sizes, m, n) \in Nat /\ Size(sizes, 0, m + n) = Size(sizes, 0, m) + Size(sizes, m, n)
<1> DEFINE A(k) == Size(sizes, m, k) \in Nat /\ Size(sizes, 0, m + k) = Size(sizes, 0, m) + Size(sizes, m, k)
           Odd == {k \in Nat : k <= n /\ ~ A(k)}
<1>0. Size(sizes, 0, m) \in Nat
  <2> DEFINE B(k) == Size(sizes, 0, k) \in Nat
             Bad == {k \in Nat : k <= m /\ ~ B(k)}
  <2>1. B(0)
    BY SizeSteps
  <2>2. ASSUME NEW k \in Nat, k + 1 <= m, B(k)
        PROVE  B(k + 1)
    <3>1. Size(sizes, 0, k + 1) = Size(sizes, 0, k) + sizes[0 + (k + 1)]
      BY SizeSteps
    <3>2. 0 + (k + 1) \in 1 .. Len(sizes)
      BY <2>2
    <3>3. sizes[0 + (k + 1)] \in Nat
      BY <3>2
    <3> QED
      BY <2>2, <3>1, <3>3
  <2>3. Bad = {}
    <3> HIDE DEF B
    <3> SUFFICES ASSUME Bad # {}
                 PROVE  FALSE
      OBVIOUS
    <3>1. PICK k \in Bad : \A j \in Bad : k <= j
      BY LeastNatural
    <3>2. k \in Nat /\ k <= m /\ ~ B(k)
      BY <3>1
    <3>3. k # 0
      BY <2>1, <3>2
    <3>4. k - 1 \in Nat /\ k - 1 \notin Bad /\ k - 1 <= m /\ (k - 1) + 1 = k
      BY <3>1, <3>2, <3>3
    <3>5. B(k - 1)
      BY <3>4
    <3> QED
      BY <2>2, <3>2, <3>4, <3>5
  <2> QED
    BY <2>3
<1>1. A(0)
  <2>1. Size(sizes, m, 0) = 0 /\ m + 0 = m
    BY SizeSteps
  <2> DEFINE a == Size(sizes, 0, m)
  <2>2. a \in Nat
    BY <1>0
  <2> HIDE DEF a
  <2>3. a = a + 0
    BY <2>2
  <2> QED
    BY <2>1, <2>3 DEF a
<1>2. ASSUME NEW k \in Nat, k + 1 <= n, A(k)
      PROVE  A(k + 1)
  <2>1. Size(sizes, m, k + 1) = Size(sizes, m, k) + sizes[m + (k + 1)]
    BY SizeSteps
  <2>2. Size(sizes, 0, (m + k) + 1) = Size(sizes, 0, m + k) + sizes[0 + ((m + k) + 1)]
    <3>1. m + k \in Nat
      OBVIOUS
    <3> QED
      BY <3>1, SizeSteps
  <2>3. (m + k) + 1 = m + (k + 1) /\ 0 + ((m + k) + 1) = m + (k + 1) /\ m + (k + 1) \in 1 .. Len(sizes)
    BY <1>2
  <2>4. sizes[m + (k + 1)] \in Nat
    BY <2>3
  <2> DEFINE a == Size(sizes, 0, m)
             b == Size(sizes, m, k)
             z == sizes[m + (k + 1)]
             c == Size(sizes, m, k + 1)
             d == Size(sizes, 0, m + (k + 1))
             e == Size(sizes, 0, m + k)
  <2>5. a \in Nat /\ b \in Nat /\ z \in Nat /\ c = b + z /\ d = e + z /\ e = a + b
    <3>1. d = e + z
      BY <2>2, <2>3, Zenon
    <3> QED
      BY <1>0, <1>2, <2>1, <2>4, <3>1
  <2> HIDE DEF a, b, z, c, d, e
  <2>6. c \in Nat /\ d = a + c
    BY <2>5
  <2> QED
    BY <2>6 DEF a, c, d
<1>3. Odd = {}
  <2> HIDE DEF A
  <2> SUFFICES ASSUME Odd # {}
               PROVE  FALSE
    OBVIOUS
  <2>1. PICK k \in Odd : \A j \in Odd : k <= j
    BY LeastNatural
  <2>2. k \in Nat /\ k <= n /\ ~ A(k)
    BY <2>1
  <2>3. k # 0
    BY <1>1, <2>2
  <2>4. k - 1 \in Nat /\ k - 1 \notin Odd /\ k - 1 <= n /\ (k - 1) + 1 = k
    BY <2>1, <2>2, <2>3
  <2>5. A(k - 1)
    BY <2>4
  <2> QED
    BY <1>2, <2>2, <2>4, <2>5
<1>4. A(n)
  <2> HIDE DEF A
  <2> QED
    BY <1>3
<1> QED
  BY <1>4

(* The characters up to a byte: as many as end there, and those up to the  *)
(* byte where one ends.                                                    *)
EndingBy(chars, byte, n) ==
    /\ n \in 0 .. Len(chars) /\ Size(chars, 0, n) <= byte
    /\ \A k \in 0 .. Len(chars) : Size(chars, 0, k) <= byte => k <= n

(* CharsUpTo finds those characters.                                       *)
LEMMA CharsTell ==
    ASSUME NEW chars \in Seq(Nat \ {0}), NEW byte \in Nat
    PROVE  EndingBy(chars, byte, CharsUpTo(chars, byte))
<1> DEFINE T == {n \in 0 .. Len(chars) : Size(chars, 0, n) <= byte}
<1>1. Len(chars) \in Nat /\ T \in SUBSET (0 .. Len(chars))
  OBVIOUS
<1>2. 0 \in T
  BY SizeSteps
<1>3. CharsUpTo(chars, byte) = Max(T)
  BY DEF CharsUpTo
<1>4. T # {}
  BY <1>2
<1> DEFINE most == Max(T)
<1> HIDE DEF T
<1>5. most \in T /\ \A k \in T : k <= most
  BY <1>1, <1>4, LargestOf
<1> HIDE DEF most
<1>6. \A k \in T : k <= most
  BY <1>5
<1> QED
  BY <1>3, <1>5, <1>6 DEF T, EndingBy, most

(* The characters up to where the first m of them end are those m.         *)
LEMMA CharsThere ==
    ASSUME NEW chars \in Seq(Nat \ {0}), NEW m \in 0 .. Len(chars)
    PROVE  Size(chars, 0, m) \in Nat /\ CharsUpTo(chars, Size(chars, 0, m)) = m
<1> DEFINE byte == Size(chars, 0, m)
           n == CharsUpTo(chars, byte)
<1>1. Growing(chars)
  BY SizesGrow
<1>2. byte \in Nat
  BY <1>1 DEF Growing
<1> HIDE DEF byte
<1>3. EndingBy(chars, byte, n)
  BY <1>2, CharsTell
<1> HIDE DEF n
<1>4. n \in 0 .. Len(chars) /\ Size(chars, 0, n) <= byte /\ (Size(chars, 0, m) <= byte => m <= n)
  BY <1>3 DEF EndingBy
<1>5. Size(chars, 0, m) <= byte
  BY <1>2 DEF byte
<1>6. m < n => Size(chars, 0, m) < Size(chars, 0, n)
  BY <1>1, <1>4 DEF Growing
<1>7. ~ (m < n)
  <2> DEFINE x == Size(chars, 0, n)
  <2>1. x \in Nat /\ x <= byte /\ (m < n => byte < x)
    BY <1>1, <1>4, <1>6 DEF Growing, byte
  <2> HIDE DEF x
  <2> QED
    BY <1>2, <2>1
<1>8. n = m
  BY <1>4, <1>5, <1>7
<1> QED
  BY <1>2, <1>8 DEF n, byte

-----------------------------------------------------------------------------
(* The halves of a page that is too large.                                 *)
Halves(g, n, room) == g = [k \in 0 .. n |-> IF k <= room THEN k ELSE g[k \div 2]]

(* However large the page is, it can be halved until it fits.              *)
LEMMA HalvesExist ==
    ASSUME NEW n \in Nat, NEW room \in Nat
    PROVE  \E g : Halves(g, n, room)
<1> DEFINE Missing == {k \in Nat : ~ \E g : Halves(g, k, room)}
<1>1. \E g : Halves(g, 0, room)
  <2> DEFINE g == [k \in 0 .. 0 |-> 0]
  <2>1. g = [k \in 0 .. 0 |-> IF k <= room THEN k ELSE g[k \div 2]]
    <3>1. \A k \in 0 .. 0 : k = 0 /\ k <= room
      OBVIOUS
    <3> QED
      BY <3>1
  <2>2. Halves(g, 0, room)
    BY <2>1 DEF Halves
  <2> QED
    BY <2>2
<1>2. ASSUME NEW k \in Nat, NEW g, Halves(g, k, room)
      PROVE  \E h : Halves(h, k + 1, room)
  <2> DEFINE h == [j \in 0 .. k + 1 |-> IF j <= room THEN j ELSE g[j \div 2]]
  <2>1. \A j \in 0 .. k : h[j] = g[j]
    <3>1. \A j \in 0 .. k : j \in 0 .. k + 1
      OBVIOUS
    <3> QED
      BY <1>2, <3>1 DEF Halves
  <2>2. \A j \in 0 .. k + 1 : ~ (j <= room) => j \div 2 \in 0 .. k
    OBVIOUS
  <2>3. \A j \in 0 .. k + 1 : ~ (j <= room) => h[j \div 2] = g[j \div 2]
    <3> HIDE DEF h
    <3> QED
      BY <2>1, <2>2
  <2>4. Halves(h, k + 1, room)
    BY <2>3 DEF Halves
  <2> QED
    BY <2>4
<1>3. Missing = {}
  <2> SUFFICES ASSUME Missing # {}
               PROVE  FALSE
    OBVIOUS
  <2>1. PICK k \in Missing : \A j \in Missing : k <= j
    BY LeastNatural
  <2>2. k \in Nat /\ ~ \E g : Halves(g, k, room)
    BY <2>1
  <2>3. k # 0
    BY <1>1, <2>2
  <2>4. k - 1 \in Nat /\ k - 1 \notin Missing /\ (k - 1) + 1 = k
    BY <2>1, <2>2, <2>3
  <2>5. \E g : Halves(g, k - 1, room)
    BY <2>4
  <2> QED
    BY <1>2, <2>2, <2>4, <2>5
<1> QED
  BY <1>3

(* A half is no larger, and not nothing unless there is no room.           *)
HalvedTells(n, room) ==
    Halved(n, room) \in 0 .. n /\ (n >= 1 /\ room >= 1 => Halved(n, room) >= 1)

(* So it is whatever the size of the page and the room.                    *)
LEMMA HalvesTell ==
    ASSUME NEW n \in Nat, NEW room \in Nat
    PROVE  HalvedTells(n, room)
<1> DEFINE half == CHOOSE g : Halves(g, n, room)
<1>1. Halves(half, n, room)
  BY HalvesExist
<1>2. half = CHOOSE g : g = [k \in 0 .. n |-> IF k <= room THEN k ELSE g[k \div 2]]
  BY Zenon DEF Halves
<1> HIDE DEF half
<1>3. Halved(n, room) = half[n]
  BY <1>2, Zenon DEF Halved
<1>4. \A k \in 0 .. n : half[k] = IF k <= room THEN k ELSE half[k \div 2]
  BY <1>1 DEF Halves
<1> DEFINE A(k) == half[k] \in 0 .. k /\ (k >= 1 /\ room >= 1 => half[k] >= 1)
           Odd == {k \in Nat : k <= n /\ ~ A(k)}
<1>5. Odd = {}
  <2> SUFFICES ASSUME Odd # {}
               PROVE  FALSE
    OBVIOUS
  <2>1. PICK k \in Odd : \A j \in Odd : k <= j
    BY LeastNatural
  <2>2. k \in Nat /\ k <= n /\ ~ A(k)
    BY <2>1
  <2>3. CASE k <= room
    <3>1. half[k] = k
      BY <1>4, <2>2, <2>3
    <3> QED
      BY <2>2, <3>1
  <2>4. CASE ~ (k <= room)
    <3>1. half[k] = half[k \div 2]
      BY <1>4, <2>2, <2>4
    <3>2. k \div 2 \in Nat /\ k \div 2 < k /\ (room >= 1 => k \div 2 >= 1)
      BY <2>2, <2>4
    <3> DEFINE j == k \div 2
    <3>3. j \in Nat /\ j < k /\ j <= n /\ (room >= 1 => j >= 1)
      BY <2>2, <3>2
    <3>4. j \notin Odd
      <4> HIDE DEF j, A
      <4> QED
        BY <2>1, <2>2, <3>3
    <3>5. A(j)
      BY <3>3, <3>4
    <3> DEFINE x == half[k]
    <3>6. x \in 0 .. j /\ (j >= 1 /\ room >= 1 => x >= 1)
      BY <3>1, <3>5
    <3> HIDE DEF j, x
    <3>7. x \in 0 .. k /\ (k >= 1 /\ room >= 1 => x >= 1)
      BY <2>2, <3>3, <3>6
    <3> QED
      BY <2>2, <3>7 DEF x
  <2> QED
    BY <2>3, <2>4
<1>6. A(n)
  <2> HIDE DEF A
  <2> QED
    BY <1>5
<1> QED
  BY <1>3, <1>6 DEF HalvedTells

(* A page of a diff: whole characters from where the last one ended, and   *)
(* one at least, unless there is no room for a character at all, which the *)
(* page says.                                                              *)
DiffTells(s, m, p) ==
    \E k \in Nat : /\ k <= Len(s.chars) - m /\ p.items = Span(m, k) /\ p.next = Size(s.chars, 0, m + k)
                   /\ p.more = (p.next < Total(s.chars))
                   /\ p.more => \/ p.next > Size(s.chars, 0, m)
                                \/ p.note = "continuation_blocked" /\ ~ (s.envelope < Room)

(* git_diff and git_show: from the end of any character, whatever part of  *)
(* a page fits, whole, trimmed or halved.                                  *)
LEMMA DiffTold ==
    ASSUME NEW s, s.chars \in Seq({1, 2}), s.envelope \in Nat, NEW m \in 0 .. Len(s.chars),
           NEW maxBytes \in Nat, maxBytes >= 2
    PROVE  DiffTells(s, m, Diff(s, Size(s.chars, 0, m), maxBytes))
<1> DEFINE chars == s.chars
           L == Len(chars)
           byte == Size(chars, 0, m)
           paged == Paged(s, byte, maxBytes)
           half == HalfOf(paged)
           room == Max({0, Room - s.envelope})
           n == IF WholeFits(s, paged) THEN paged ELSE Halved(half, room)
           q == DiffPage(s, byte, maxBytes)
           p == Diff(s, byte, maxBytes)
           blocked == /\ q.more /\ q.next = byte
                      /\ ~ WholeFits(s, paged) /\ ~ TrimmedFits(s, half)
<1>1. chars \in Seq(Nat \ {0}) /\ chars \in Seq(Nat) /\ L \in Nat /\ m \in Nat /\ m <= L
  <2>1. \A i \in 1 .. Len(chars) : chars[i] \in Nat \ {0}
    OBVIOUS
  <2> QED
    BY <2>1
<1>2. byte \in Nat /\ CharsUpTo(chars, byte) = m
  BY <1>1, CharsThere
<1>3. Growing(chars)
  BY <1>1, SizesGrow
<1>4. Room \in Nat /\ Room >= 1 /\ s.envelope \in Nat
  BY PageAssumption
<1> DEFINE upto == CharsUpTo(chars, byte + maxBytes)
<1>5. EndingBy(chars, byte + maxBytes, upto)
  <2>1. byte + maxBytes \in Nat
    BY <1>2
  <2> QED
    BY <1>1, <2>1, CharsTell
<1>6. paged = upto - m
  BY <1>2 DEF Paged
<1>7. upto \in 0 .. L /\ upto >= m /\ (m < L => upto >= m + 1)
  <2>1. upto \in 0 .. L /\ \A k \in 0 .. L : Size(chars, 0, k) <= byte + maxBytes => k <= upto
    BY <1>5 DEF EndingBy
  <2> HIDE DEF upto, byte
  <2>2. Size(chars, 0, m) <= byte + maxBytes
    BY <1>2 DEF byte
  <2>3. m < L => Size(chars, 0, m + 1) <= byte + maxBytes
    <3> SUFFICES ASSUME m < L
                 PROVE  Size(chars, 0, m + 1) <= byte + maxBytes
      OBVIOUS
    <3>1. Size(chars, 0, m + 1) = byte + chars[0 + (m + 1)]
      BY <1>1, SizeSteps DEF byte
    <3>2. 0 + (m + 1) \in 1 .. L
      BY <1>1
    <3>3. chars[0 + (m + 1)] \in {1, 2}
      BY <3>2
    <3> HIDE DEF chars
    <3> QED
      BY <1>2, <3>1, <3>3
  <2> HIDE DEF chars
  <2>4. m + 1 \in Int /\ (m < L => m + 1 \in 0 .. L) /\ m \in 0 .. L
    BY <1>1
  <2>5. m <= upto
    BY <2>1, <2>2, <2>4
  <2>6. m < L => m + 1 <= upto
    BY <2>1, <2>3, <2>4
  <2> QED
    BY <2>1, <2>4, <2>5, <2>6
<1> HIDE DEF upto
<1>8. paged \in 0 .. L - m /\ (m < L => paged >= 1)
  <2> HIDE DEF paged, chars
  <2> QED
    BY <1>1, <1>6, <1>7
<1> HIDE DEF paged
<1>9. half \in 0 .. paged /\ (m < L => half >= 1)
  <2> DEFINE r == Room \div 2
             c == Max({1, r})
  <2>1. r \in Nat
    BY <1>4
  <2> HIDE DEF r
  <2>2. c = IF 1 >= r THEN 1 ELSE r
    BY <2>1, LargerOf
  <2>3. c \in Nat /\ c >= 1
    BY <2>1, <2>2
  <2> HIDE DEF c
  <2>4. paged \in Int /\ c \in Int
    BY <1>8, <2>3
  <2>5. Min({paged, c}) = IF paged <= c THEN paged ELSE c
    BY <2>4, SmallerOf
  <2>6. half = IF paged <= c THEN paged ELSE c
    BY <2>5 DEF HalfOf, c, r
  <2> HIDE DEF half, chars
  <2> QED
    BY <1>8, <2>3, <2>4, <2>6
<1> HIDE DEF half
<1>10. room \in Nat /\ (s.envelope < Room => room >= 1)
  <2> DEFINE x == Room - s.envelope
  <2>1. x \in Int /\ (s.envelope < Room => x >= 1)
    BY <1>4
  <2> HIDE DEF x
  <2>2. Max({0, x}) = IF 0 >= x THEN 0 ELSE x
    BY <2>1, LargerOf
  <2>3. Max({0, x}) \in Nat /\ (x >= 1 => Max({0, x}) >= 1)
    <3> DEFINE y == Max({0, x})
    <3> HIDE DEF y
    <3>1. y = IF 0 >= x THEN 0 ELSE x
      BY <2>2 DEF y
    <3>2. y \in Nat /\ (x >= 1 => y >= 1)
      BY <2>1, <3>1
    <3> QED
      BY <3>2 DEF y
  <2> QED
    BY <2>1, <2>3 DEF x
<1> HIDE DEF room
<1>11. HalvedTells(half, room)
  <2>1. half \in Nat
    BY <1>8, <1>9
  <2> QED
    BY <1>10, <2>1, HalvesTell
<1>12. n \in 0 .. L - m /\ (m < L /\ s.envelope < Room => n >= 1)
  <2> DEFINE h == Halved(half, room)
  <2>1. h \in 0 .. half /\ (half >= 1 /\ room >= 1 => h >= 1)
    BY <1>11 DEF HalvedTells
  <2> HIDE DEF h, chars
  <2>2. CASE WholeFits(s, paged)
    BY <1>8, <2>2
  <2>3. CASE ~ WholeFits(s, paged)
    <3>1. h \in 0 .. L - m /\ (m < L /\ s.envelope < Room => h >= 1)
      BY <1>1, <1>8, <1>9, <1>10, <2>1
    <3> QED
      BY <2>3, <3>1 DEF h
  <2> QED
    BY <2>2, <2>3
<1>13. m < L /\ n = 0 => ~ WholeFits(s, paged) /\ ~ (s.envelope < Room)
  <2>1. n = 0 /\ WholeFits(s, paged) => paged = 0
    OBVIOUS
  <2>2. m < L /\ n = 0 => ~ (s.envelope < Room)
    <3> HIDE DEF n, chars
    <3> QED
      BY <1>12
  <2> HIDE DEF chars, n
  <2> QED
    BY <1>8, <2>1, <2>2
<1>14. /\ q.items = Span(m, n) /\ q.next = byte + Size(chars, m, n)
       /\ q.more = (byte + Size(chars, m, n) < Total(chars))
  <2>1. q = PageOf(Span(m, n), byte + Size(chars, m, n), byte + Size(chars, m, n) < Total(chars), "none")
    BY <1>2, Zenon DEF DiffPage, paged, half, room
  <2> HIDE DEF q, n
  <2> QED
    BY <2>1 DEF PageOf
<1>15. Size(chars, m, n) \in Nat /\ Size(chars, 0, m + n) = byte + Size(chars, m, n)
  <2> HIDE DEF n
  <2>1. n \in Nat /\ m + n <= Len(chars)
    BY <1>1, <1>12
  <2> QED
    BY <1>1, <2>1, SizesAdd
<1>16. p.items = q.items /\ p.next = q.next /\ p.more = q.more /\ (blocked => p.note = "continuation_blocked")
  <2>1. p = IF blocked THEN [q EXCEPT !.note = "continuation_blocked"] ELSE q
    BY Zenon DEF Diff, paged, half
  <2>2. q = PageOf(q.items, q.next, q.more, "none")
    BY DEF DiffPage, PageOf
  <2> HIDE DEF p, q, blocked
  <2> QED
    BY <2>1, <2>2 DEF PageOf
<1>17. m < L /\ n = 0 => ~ TrimmedFits(s, half)
  <2> SUFFICES ASSUME m < L, n = 0
               PROVE  ~ TrimmedFits(s, half)
    OBVIOUS
  <2>1. ~ (s.envelope < Room) /\ half >= 1
    BY <1>9, <1>13
  <2> DEFINE r == Room \div 4
             c == Max({1, r})
             t == Min({L, c})
  <2>2. r \in Nat
    BY <1>4
  <2> HIDE DEF r
  <2>3. c = IF 1 >= r THEN 1 ELSE r
    BY <2>2, LargerOf
  <2>4. c \in Nat
    BY <2>2, <2>3
  <2> HIDE DEF c
  <2>5. L \in Int /\ c \in Int
    BY <1>1, <2>4
  <2>6. t = IF L <= c THEN L ELSE c
    <3> HIDE DEF L
    <3> QED
      BY <2>5, SmallerOf
  <2>7. t \in Nat
    BY <1>1, <2>4, <2>6
  <2> HIDE DEF t
  <2>8. half \in Nat
    BY <1>8, <1>9
  <2>9. ~ (s.envelope + half + t <= Room)
    BY <1>4, <2>1, <2>7, <2>8
  <2> QED
    BY <2>9 DEF TrimmedFits, t, c, r
<1> HIDE DEF n, p, q, blocked, byte, chars
<1>18. p.more => m < L
  <2> SUFFICES ASSUME p.more, ~ (m < L)
               PROVE  FALSE
    OBVIOUS
  <2>1. m = L /\ n = 0 /\ m + n = L
    BY <1>1, <1>12
  <2>2. Size(chars, 0, L) < Total(chars)
    BY <1>14, <1>15, <1>16, <2>1
  <2>3. Total(chars) = Size(chars, 0, L)
    BY DEF Total
  <2>4. Size(chars, 0, L) \in Nat
    BY <1>1, <1>3 DEF Growing
  <2> QED
    BY <2>2, <2>3, <2>4
<1>19. p.more => p.next > byte \/ (p.note = "continuation_blocked" /\ ~ (s.envelope < Room))
  <2> SUFFICES ASSUME p.more
               PROVE  p.next > byte \/ (p.note = "continuation_blocked" /\ ~ (s.envelope < Room))
    OBVIOUS
  <2>0. m < L
    BY <1>18
  <2>1. CASE n = 0
    <3>1. Size(chars, m, 0) = 0
      BY <1>1, SizeSteps
    <3>2. q.next = byte
      BY <1>2, <1>14, <2>1, <3>1
    <3>3. blocked
      BY <1>13, <1>16, <1>17, <2>0, <2>1, <3>2 DEF blocked
    <3> QED
      BY <1>13, <1>16, <2>0, <2>1, <3>3
  <2>2. CASE n # 0
    <3>1. m + n \in 0 .. L /\ m < m + n /\ m \in 0 .. L
      BY <1>1, <1>12, <2>2
    <3>2. Size(chars, 0, m) < Size(chars, 0, m + n)
      BY <1>3, <3>1 DEF Growing
    <3>3. byte < byte + Size(chars, m, n)
      BY <1>15, <3>2 DEF byte
    <3> DEFINE x == byte + Size(chars, m, n)
    <3>4. x \in Nat
      BY <1>2, <1>15
    <3>5. p.next = x
      BY <1>14, <1>16
    <3> HIDE DEF x
    <3>6. byte < x
      BY <3>3 DEF x
    <3>7. x > byte
      BY <1>2, <3>4, <3>6
    <3> QED
      BY <3>5, <3>7, Zenon
  <2> QED
    BY <2>1, <2>2
<1>20. n \in Nat /\ n <= L - m
  BY <1>1, <1>12
<1> DEFINE X == \E k \in Nat :
                    /\ k <= Len(chars) - m /\ p.items = Span(m, k) /\ p.next = Size(chars, 0, m + k)
                    /\ p.more = (p.next < Total(chars))
                    /\ p.more => \/ p.next > byte
                                 \/ p.note = "continuation_blocked" /\ ~ (s.envelope < Room)
<1>21. p.items = Span(m, n) /\ p.next = Size(chars, 0, m + n) /\ p.more = (p.next < Total(chars))
  <2>1. p.items = Span(m, n) /\ p.next = Size(chars, 0, m + n)
    BY <1>14, <1>15, <1>16, Zenon
  <2>2. p.more = (p.next < Total(chars))
    BY <1>14, <1>16
  <2> QED
    BY <2>1, <2>2
<1>22. X
  <2> QED
    BY <1>19, <1>20, <1>21
<1> QED
  BY <1>22 DEF DiffTells, X, p, byte, chars

-----------------------------------------------------------------------------
(* Sequences without their beginnings.                                     *)
Drop(s, k) == SubSeq(s, k + 1, Len(s))

DropTells(S, s, k) ==
    /\ Drop(s, k) \in Seq(S) /\ Len(Drop(s, k)) = Len(s) - k
    /\ \A i \in 1 .. Len(s) - k : Drop(s, k)[i] = s[k + i]

(* What remains without the first k elements are the others, in order.     *)
LEMMA Dropped ==
    ASSUME NEW S, NEW s \in Seq(S), NEW k \in 0 .. Len(s)
    PROVE  DropTells(S, s, k)
<1>1. k + 1 \in 1 .. Len(s) + 1 /\ Len(s) \in Nat /\ k \in Nat
  OBVIOUS
<1>2. SubSeq(s, k + 1, Len(s)) \in Seq(S) /\ Len(SubSeq(s, k + 1, Len(s))) = Len(s) - k
  BY <1>1
<1>3. \A i \in 1 .. Len(s) - k : SubSeq(s, k + 1, Len(s))[i] = s[k + i]
  BY <1>1
<1> QED
  BY <1>2, <1>3 DEF DropTells, Drop

(* What is left out of a sequence, and then of what remains.               *)
LEMMA DropsAdd ==
    ASSUME NEW S, NEW s \in Seq(S), NEW j \in Nat, NEW k \in Nat, j + k <= Len(s)
    PROVE  Drop(Drop(s, j), k) = Drop(s, j + k)
<1> DEFINE x == Drop(s, j)
           y == Drop(x, k)
           z == Drop(s, j + k)
<1>1. j \in 0 .. Len(s) /\ j + k \in 0 .. Len(s) /\ Len(s) \in Nat
  OBVIOUS
<1>2. DropTells(S, s, j) /\ DropTells(S, s, j + k)
  BY <1>1, Dropped
<1>3. x \in Seq(S) /\ Len(x) = Len(s) - j /\ \A i \in 1 .. Len(s) - j : x[i] = s[j + i]
  BY <1>2 DEF DropTells
<1>4. z \in Seq(S) /\ Len(z) = Len(s) - (j + k) /\ \A i \in 1 .. Len(s) - (j + k) : z[i] = s[(j + k) + i]
  BY <1>2 DEF DropTells
<1> HIDE DEF x, z
<1>5. k \in 0 .. Len(x)
  BY <1>1, <1>3
<1>6. DropTells(S, x, k)
  BY <1>3, <1>5, Dropped
<1>7. y \in Seq(S) /\ Len(y) = Len(x) - k /\ \A i \in 1 .. Len(x) - k : y[i] = x[k + i]
  BY <1>6 DEF DropTells
<1> HIDE DEF y
<1> DEFINE n == Len(s) - (j + k)
<1>8. n \in Nat /\ Len(y) = n /\ Len(z) = n
  BY <1>1, <1>3, <1>4, <1>7
<1>9. ASSUME NEW i \in 1 .. n
      PROVE  y[i] = z[i]
  <2>1. i \in 1 .. Len(x) - k /\ k + i \in 1 .. Len(s) - j /\ i \in 1 .. Len(s) - (j + k) /\ j + (k + i) = (j + k) + i
    BY <1>1, <1>3
  <2>2. y[i] = x[k + i] /\ x[k + i] = s[j + (k + i)] /\ z[i] = s[(j + k) + i]
    BY <1>3, <1>4, <1>7, <2>1
  <2> QED
    BY <2>1, <2>2, Zenon
<1> HIDE DEF n
<1>10. y = z
  BY <1>4, <1>7, <1>8, <1>9, SeqEqual
<1> QED
  BY <1>10 DEF y, x, z

(* What is added to a sequence is added to what remains of it.             *)
LEMMA DropExtended ==
    ASSUME NEW S, NEW s \in Seq(S), NEW t \in Seq(S), NEW k \in 0 .. Len(s)
    PROVE  Drop(s \o t, k) = Drop(s, k) \o t
<1> DEFINE st == s \o t
           x == Drop(st, k)
           d == Drop(s, k)
           y == d \o t
<1>1. st \in Seq(S) /\ Len(st) = Len(s) + Len(t) /\ Len(s) \in Nat /\ Len(t) \in Nat /\ k \in 0 .. Len(st)
  OBVIOUS
<1>2. /\ \A i \in 1 .. Len(s) : st[i] = s[i]
      /\ \A i \in 1 .. Len(t) : st[Len(s) + i] = t[i]
  OBVIOUS
<1> HIDE DEF st
<1>3. DropTells(S, st, k) /\ DropTells(S, s, k)
  BY <1>1, Dropped
<1>4. x \in Seq(S) /\ Len(x) = Len(st) - k /\ \A i \in 1 .. Len(st) - k : x[i] = st[k + i]
  BY <1>3 DEF DropTells
<1>5. d \in Seq(S) /\ Len(d) = Len(s) - k /\ \A i \in 1 .. Len(s) - k : d[i] = s[k + i]
  BY <1>3 DEF DropTells
<1> HIDE DEF x, d
<1>6. y \in Seq(S) /\ Len(y) = Len(d) + Len(t)
  <2>1. d \in Seq(S)
    BY <1>5
  <2>2. t \in Seq(S)
    OBVIOUS
  <2> QED
    BY ONLY <2>1, <2>2 DEF y
<1>7. /\ \A i \in 1 .. Len(d) : y[i] = d[i]
      /\ \A i \in 1 .. Len(t) : y[Len(d) + i] = t[i]
  BY <1>5
<1> HIDE DEF y
<1> DEFINE n == Len(s) + Len(t) - k
<1>8. n \in Nat /\ Len(x) = n /\ Len(y) = n /\ k \in Nat
  BY <1>1, <1>4, <1>5, <1>6
<1>9. ASSUME NEW i \in 1 .. n
      PROVE  x[i] = y[i]
  <2>1. x[i] = st[k + i]
    <3>1. i \in 1 .. Len(st) - k
      BY <1>1
    <3> QED
      BY <1>4, <3>1
  <2>2. CASE i <= Len(d)
    <3>1. i \in 1 .. Len(d) /\ i \in 1 .. Len(s) - k /\ k + i \in 1 .. Len(s)
      BY <1>1, <1>5, <1>8, <2>2
    <3>2. y[i] = d[i] /\ d[i] = s[k + i] /\ st[k + i] = s[k + i]
      BY <1>2, <1>5, <1>7, <3>1
    <3> QED
      BY <2>1, <3>2, Zenon
  <2>3. CASE ~ (i <= Len(d))
    <3> DEFINE j == i - Len(d)
    <3>1. j \in 1 .. Len(t) /\ Len(d) + j = i /\ Len(s) + j = k + i
      BY <1>1, <1>5, <1>8, <2>3
    <3> HIDE DEF j
    <3>2. y[Len(d) + j] = t[j] /\ st[Len(s) + j] = t[j]
      BY <1>2, <1>7, <3>1
    <3> QED
      BY <2>1, <3>1, <3>2, Zenon
  <2> QED
    BY <2>2, <2>3
<1> HIDE DEF n
<1>10. x = y
  BY <1>4, <1>6, <1>8, <1>9, SeqEqual
<1> QED
  BY <1>10 DEF y, x, d, st

-----------------------------------------------------------------------------
(* Bytes and what they stand for.                                          *)
Units == {"A", "?", "LC"}
Decodings == [units : Seq(Units), left : {0, 1}]

ReadAt(g, bytes, final, i) ==
    IF i > Len(bytes) THEN [units |-> <<>>, left |-> 0]
    ELSE IF bytes[i] = "L" /\ i = Len(bytes) /\ ~ final THEN [units |-> <<>>, left |-> 1]
    ELSE IF bytes[i] = "L" /\ i < Len(bytes) /\ bytes[i + 1] = "C"
         THEN [g[i + 2] EXCEPT !.units = <<"LC">> \o @]
    ELSE [g[i + 1] EXCEPT !.units = <<IF bytes[i] = "A" THEN "A" ELSE "?">> \o @]

Reads(g, bytes, final) == g = [i \in 1 .. Len(bytes) + 2 |-> ReadAt(g, bytes, final, i)]

(* Only what follows matters.                                              *)
LEMMA ReadsBehind ==
    ASSUME NEW g, NEW h, NEW bytes, NEW final, NEW i,
           g[i + 1] = h[i + 1], g[i + 2] = h[i + 2]
    PROVE  ReadAt(g, bytes, final, i) = ReadAt(h, bytes, final, i)
BY Zenon DEF ReadAt

(* What is decoded at a byte is of its kind when what follows is.          *)
LEMMA ReadTyped ==
    ASSUME NEW g, NEW bytes, NEW final, NEW i,
           g[i + 1] \in Decodings, g[i + 2] \in Decodings
    PROVE  ReadAt(g, bytes, final, i) \in Decodings
<1> DEFINE a == g[i + 1]
           b == g[i + 2]
<1>1. a \in Decodings /\ b \in Decodings
  OBVIOUS
<1> HIDE DEF a, b
<1>2. ASSUME NEW r \in Decodings, NEW u \in Units
      PROVE  [r EXCEPT !.units = <<u>> \o @] \in Decodings
  <2>1. <<u>> \o r.units \in Seq(Units)
    BY DEF Decodings
  <2> QED
    BY <2>1 DEF Decodings
<1>3. [units |-> <<>>, left |-> 0] \in Decodings /\ [units |-> <<>>, left |-> 1] \in Decodings
  BY DEF Decodings
<1>4. "LC" \in Units /\ (IF bytes[i] = "A" THEN "A" ELSE "?") \in Units
  BY DEF Units
<1>5. /\ [b EXCEPT !.units = <<"LC">> \o @] \in Decodings
      /\ [a EXCEPT !.units = <<IF bytes[i] = "A" THEN "A" ELSE "?">> \o @] \in Decodings
  BY <1>1, <1>2, <1>4, Zenon
<1> QED
  BY <1>3, <1>5, Zenon DEF ReadAt, a, b

(* A log can be decoded from its last byte to its first.                   *)
LEMMA ReadsExist ==
    ASSUME NEW bytes \in Seq(Bytes), NEW final \in BOOLEAN
    PROVE  \E g : Reads(g, bytes, final)
<1> DEFINE L == Len(bytes)
           D == 1 .. L + 2
           Upward(g, k) == /\ g \in [D -> Decodings]
                           /\ \A i \in D : i > L - k => g[i] = ReadAt(g, bytes, final, i)
           Missing == {k \in Nat : k <= L /\ ~ \E g : Upward(g, k)}
<1>0. L \in Nat
  OBVIOUS
<1>1. \E g : Upward(g, 0)
  <2> DEFINE g == [i \in D |-> [units |-> <<>>, left |-> 0]]
  <2>1. g \in [D -> Decodings]
    <3>1. [units |-> <<>>, left |-> 0] \in Decodings
      BY DEF Decodings
    <3> QED
      BY <3>1
  <2>2. ASSUME NEW i \in D, i > L - 0
        PROVE  g[i] = ReadAt(g, bytes, final, i)
    <3>1. i > Len(bytes)
      BY <1>0, <2>2
    <3>2. ReadAt(g, bytes, final, i) = [units |-> <<>>, left |-> 0]
      BY <3>1, Zenon DEF ReadAt
    <3> QED
      BY <3>2
  <2>3. Upward(g, 0)
    BY <2>1, <2>2
  <2> QED
    BY <2>3
<1>2. ASSUME NEW k \in Nat, k + 1 <= L, NEW g, Upward(g, k)
      PROVE  \E h : Upward(h, k + 1)
  <2> DEFINE z == L - k
             v == ReadAt(g, bytes, final, z)
             h == [g EXCEPT ![z] = v]
  <2>1. z \in D /\ z + 1 \in D /\ z + 2 \in D /\ z \in Int
    BY <1>0, <1>2
  <2>2. v \in Decodings
    <3>1. g[z + 1] \in Decodings /\ g[z + 2] \in Decodings
      BY <1>2, <2>1
    <3> HIDE DEF z
    <3> QED
      BY <3>1, ReadTyped
  <2> HIDE DEF v
  <2>3. h \in [D -> Decodings] /\ h[z] = v /\ \A i \in D : i # z => h[i] = g[i]
    <3> HIDE DEF z, D
    <3>1. g \in [D -> Decodings]
      BY <1>2
    <3> QED
      BY <2>1, <2>2, <3>1
  <2>4. ASSUME NEW i \in D, i > L - (k + 1)
        PROVE  h[i] = ReadAt(h, bytes, final, i)
    <3>1. i >= z /\ i \in Nat
      BY <1>0, <2>4
    <3>2. ReadAt(g, bytes, final, i) = ReadAt(h, bytes, final, i)
      <4>1. CASE i > L
        <5>1. i > Len(bytes)
          BY <4>1
        <5> QED
          BY <5>1, Zenon DEF ReadAt
      <4>2. CASE ~ (i > L)
        <5>1. i + 1 \in D /\ i + 2 \in D /\ i + 1 # z /\ i + 2 # z
          BY <1>0, <2>1, <3>1, <4>2
        <5>2. h[i + 1] = g[i + 1] /\ h[i + 2] = g[i + 2]
          <6> HIDE DEF h, D, z
          <6> QED
            BY <2>3, <5>1
        <5> HIDE DEF h
        <5> QED
          BY <5>2, ReadsBehind
      <4> QED
        BY <4>1, <4>2
    <3>3. CASE i = z
      BY <2>3, <3>2, <3>3 DEF v
    <3>4. CASE i # z
      <4>1. i > L - k
        BY <1>0, <3>1, <3>4
      <4>2. g[i] = ReadAt(g, bytes, final, i)
        BY <1>2, <4>1
      <4>3. h[i] = g[i]
        <5> HIDE DEF h, z, D
        <5> QED
          BY <2>3, <3>4
      <4> QED
        BY <3>2, <4>2, <4>3, Zenon
    <3> QED
      BY <3>3, <3>4
  <2>5. Upward(h, k + 1)
    BY <2>3, <2>4
  <2> QED
    BY <2>5
<1>3. Missing = {}
  <2> HIDE DEF Upward
  <2> SUFFICES ASSUME Missing # {}
               PROVE  FALSE
    OBVIOUS
  <2>1. PICK k \in Missing : \A j \in Missing : k <= j
    BY LeastNatural
  <2>2. k \in Nat /\ k <= L /\ ~ \E g : Upward(g, k)
    BY <2>1
  <2>3. k # 0
    BY <1>1, <2>2
  <2>4. k - 1 \in Nat /\ k - 1 \notin Missing /\ (k - 1) + 1 = k /\ k - 1 <= L
    BY <2>1, <2>2, <2>3
  <2>5. \E g : Upward(g, k - 1)
    BY <2>4
  <2> QED
    BY <1>2, <2>2, <2>4, <2>5
<1>4. PICK g : Upward(g, L)
  <2> HIDE DEF Upward
  <2> QED
    BY <1>0, <1>3
<1>5. g = [i \in D |-> ReadAt(g, bytes, final, i)]
  <2>1. \A i \in D : g[i] = ReadAt(g, bytes, final, i)
    BY <1>0, <1>4
  <2>2. g = [i \in D |-> g[i]]
    BY <1>4
  <2> HIDE DEF D
  <2> QED
    BY <2>1, <2>2
<1> QED
  BY <1>5, Zenon DEF Reads

-----------------------------------------------------------------------------
(* What a function that reads returns is of its kind.                      *)
LEMMA ReadsTyped ==
    ASSUME NEW bytes \in Seq(Bytes), NEW final \in BOOLEAN, NEW g, Reads(g, bytes, final)
    PROVE  \A i \in 1 .. Len(bytes) + 2 : g[i] \in Decodings
<1> DEFINE L == Len(bytes)
           Odd == {d \in Nat : d <= L + 1 /\ ~ (g[L + 2 - d] \in Decodings)}
<1>0. L \in Nat
  OBVIOUS
<1>1. \A i \in 1 .. L + 2 : g[i] = ReadAt(g, bytes, final, i)
  BY Zenon DEF Reads
<1>2. \A i \in 1 .. L + 2 : i > L => g[i] \in Decodings
  <2> TAKE i \in 1 .. L + 2
  <2> SUFFICES ASSUME i > L
               PROVE  g[i] \in Decodings
    OBVIOUS
  <2>1. ReadAt(g, bytes, final, i) = [units |-> <<>>, left |-> 0]
    BY Zenon DEF ReadAt
  <2>2. [units |-> <<>>, left |-> 0] \in Decodings
    BY DEF Decodings
  <2> QED
    BY <1>1, <2>1, <2>2
<1>3. Odd = {}
  <2> SUFFICES ASSUME Odd # {}
               PROVE  FALSE
    OBVIOUS
  <2>1. PICK d \in Odd : \A j \in Odd : d <= j
    BY LeastNatural
  <2>2. d \in Nat /\ d <= L + 1 /\ ~ (g[L + 2 - d] \in Decodings)
    BY <2>1
  <2> DEFINE i == L + 2 - d
  <2>3. i \in 1 .. L + 2
    BY <1>0, <2>2
  <2>4. ~ (i > L)
    <3> HIDE DEF L
    <3> QED
      BY <1>2, <2>2, <2>3
  <2>5. d >= 2
    BY <1>0, <2>2, <2>4
  <2>6. d - 1 \in Nat /\ d - 2 \in Nat /\ d - 1 < d /\ d - 2 < d /\ d - 1 <= L + 1 /\ d - 2 <= L + 1
    BY <1>0, <2>2, <2>5
  <2>7. d - 1 \notin Odd /\ d - 2 \notin Odd
    <3> HIDE DEF Odd
    <3>1. ~ (d <= d - 1) /\ ~ (d <= d - 2)
      BY <2>2
    <3> QED
      BY <2>1, <3>1
  <2>8. g[L + 2 - (d - 1)] \in Decodings /\ g[L + 2 - (d - 2)] \in Decodings
    BY <2>6, <2>7
  <2>9. L + 2 - (d - 1) = i + 1 /\ L + 2 - (d - 2) = i + 2
    BY <1>0, <2>2
  <2>10. g[i + 1] \in Decodings /\ g[i + 2] \in Decodings
    BY <2>8, <2>9, Zenon
  <2> HIDE DEF i
  <2>11. ReadAt(g, bytes, final, i) \in Decodings
    BY <2>10, ReadTyped
  <2> QED
    BY <1>1, <2>2, <2>3, <2>11 DEF i
<1>4. ASSUME NEW i \in 1 .. L + 2
      PROVE  g[i] \in Decodings
  <2>1. L + 2 - i \in Nat /\ L + 2 - i <= L + 1 /\ L + 2 - (L + 2 - i) = i
    BY <1>0
  <2>2. L + 2 - i \notin Odd
    BY <1>3
  <2>3. g[L + 2 - (L + 2 - i)] \in Decodings
    BY <2>1, <2>2
  <2> QED
    BY <2>1, <2>3, Zenon
<1> QED
  BY <1>4

(* What a sequence without its beginning stands for is what stands there   *)
(* in the whole.                                                           *)
LEMMA ReadsAgree ==
    ASSUME NEW b \in Seq(Bytes), NEW c \in Seq(Bytes), NEW j \in Nat, NEW final \in BOOLEAN,
           Len(b) = j + Len(c), \A i \in 1 .. Len(c) : c[i] = b[j + i],
           NEW g, Reads(g, b, final), NEW h, Reads(h, c, final)
    PROVE  g[j + 1] = h[1]
<1> DEFINE L == Len(c)
           Odd == {d \in Nat : d <= L + 1 /\ g[j + (L + 2 - d)] # h[L + 2 - d]}
<1>0. L \in Nat
  OBVIOUS
<1>1. \A i \in 1 .. L + 2 : h[i] = ReadAt(h, c, final, i)
  BY Zenon DEF Reads
<1>2. \A i \in 1 .. Len(b) + 2 : g[i] = ReadAt(g, b, final, i)
  BY Zenon DEF Reads
<1>3. ASSUME NEW i \in 1 .. L + 2, i <= L => g[j + (i + 1)] = h[i + 1] /\ g[j + (i + 2)] = h[i + 2]
      PROVE  g[j + i] = h[i]
  <2>1. j + i \in 1 .. Len(b) + 2
    BY <1>0
  <2>2. g[j + i] = ReadAt(g, b, final, j + i) /\ h[i] = ReadAt(h, c, final, i)
    BY <1>1, <1>2, <2>1
  <2>3. (j + i > Len(b)) <=> (i > Len(c))
    BY <1>0
  <2>4. CASE i > Len(c)
    <3>1. ReadAt(g, b, final, j + i) = [units |-> <<>>, left |-> 0]
      BY <2>3, <2>4, Zenon DEF ReadAt
    <3>2. ReadAt(h, c, final, i) = [units |-> <<>>, left |-> 0]
      BY <2>4, Zenon DEF ReadAt
    <3> QED
      BY <2>2, <3>1, <3>2, Zenon
  <2>5. CASE ~ (i > Len(c))
    <3>1. i \in 1 .. Len(c) /\ (i = Len(c) <=> j + i = Len(b)) /\ (i < Len(c) <=> j + i < Len(b))
          /\ (j + i) + 1 = j + (i + 1) /\ (j + i) + 2 = j + (i + 2)
      BY <1>0, <2>5
    <3>2. c[i] = b[j + i]
      BY <3>1
    <3>3. i < Len(c) => c[i + 1] = b[(j + i) + 1]
      <4>1. i < Len(c) => i + 1 \in 1 .. Len(c)
        BY <3>1
      <4> QED
        BY <3>1, <4>1
    <3>4. g[(j + i) + 1] = h[i + 1] /\ g[(j + i) + 2] = h[i + 2]
      <4>1. i <= L
        BY <3>1
      <4>2. g[j + (i + 1)] = h[i + 1] /\ g[j + (i + 2)] = h[i + 2]
        BY <1>3, <4>1
      <4> QED
        BY <3>1, <4>2, Zenon
    <3>5. ReadAt(g, b, final, j + i) = ReadAt(h, c, final, i)
      <4>1. CASE c[i] = "L" /\ i = Len(c) /\ ~ final
        BY <2>3, <2>5, <3>1, <3>2, <4>1, Zenon DEF ReadAt
      <4>2. CASE ~ (c[i] = "L" /\ i = Len(c) /\ ~ final) /\ c[i] = "L" /\ i < Len(c) /\ c[i + 1] = "C"
        <5>1. ReadAt(h, c, final, i) = [h[i + 2] EXCEPT !.units = <<"LC">> \o @]
          BY <2>5, <4>2, Zenon DEF ReadAt
        <5>2. ReadAt(g, b, final, j + i) = [g[(j + i) + 2] EXCEPT !.units = <<"LC">> \o @]
          <6>1. ~ (j + i > Len(b)) /\ ~ (b[j + i] = "L" /\ j + i = Len(b) /\ ~ final)
                /\ b[j + i] = "L" /\ j + i < Len(b) /\ b[(j + i) + 1] = "C"
            BY <2>3, <2>5, <3>1, <3>2, <3>3, <4>2
          <6> QED
            BY <6>1, Zenon DEF ReadAt
        <5> QED
          BY <3>4, <5>1, <5>2, Zenon
      <4>3. CASE ~ (c[i] = "L" /\ i = Len(c) /\ ~ final) /\ ~ (c[i] = "L" /\ i < Len(c) /\ c[i + 1] = "C")
        <5>1. ReadAt(h, c, final, i) = [h[i + 1] EXCEPT !.units = <<IF c[i] = "A" THEN "A" ELSE "?">> \o @]
          BY <2>5, <4>3, Zenon DEF ReadAt
        <5>2. ReadAt(g, b, final, j + i) = [g[(j + i) + 1] EXCEPT !.units = <<IF b[j + i] = "A" THEN "A" ELSE "?">> \o @]
          <6>1. ~ (j + i > Len(b)) /\ ~ (b[j + i] = "L" /\ j + i = Len(b) /\ ~ final)
                /\ ~ (b[j + i] = "L" /\ j + i < Len(b) /\ b[(j + i) + 1] = "C")
            BY <2>3, <2>5, <3>1, <3>2, <3>3, <4>3
          <6> QED
            BY <6>1, Zenon DEF ReadAt
        <5> DEFINE u == IF c[i] = "A" THEN "A" ELSE "?"
                   v == IF b[j + i] = "A" THEN "A" ELSE "?"
        <5>3. u = v
          BY <3>2
        <5>4. ReadAt(h, c, final, i) = [h[i + 1] EXCEPT !.units = <<u>> \o @]
              /\ ReadAt(g, b, final, j + i) = [g[(j + i) + 1] EXCEPT !.units = <<v>> \o @]
          BY <5>1, <5>2
        <5> HIDE DEF u, v
        <5> QED
          BY <3>4, <5>3, <5>4, Zenon
      <4> QED
        BY <4>1, <4>2, <4>3
    <3> QED
      BY <2>2, <3>5, Zenon
  <2> QED
    BY <2>4, <2>5
<1>4. Odd = {}
  <2> SUFFICES ASSUME Odd # {}
               PROVE  FALSE
    OBVIOUS
  <2>1. PICK d \in Odd : \A k \in Odd : d <= k
    BY LeastNatural
  <2>2. d \in Nat /\ d <= L + 1 /\ g[j + (L + 2 - d)] # h[L + 2 - d]
    BY <2>1
  <2> DEFINE i == L + 2 - d
  <2>3. i \in 1 .. L + 2
    BY <1>0, <2>2
  <2>4. i <= L => g[j + (i + 1)] = h[i + 1] /\ g[j + (i + 2)] = h[i + 2]
    <3> SUFFICES ASSUME i <= L
                 PROVE  g[j + (i + 1)] = h[i + 1] /\ g[j + (i + 2)] = h[i + 2]
      OBVIOUS
    <3>1. d >= 2
      BY <1>0, <2>2
    <3>2. d - 1 \in Nat /\ d - 2 \in Nat /\ d - 1 <= L + 1 /\ d - 2 <= L + 1
      BY <1>0, <2>2, <3>1
    <3>3. d - 1 \notin Odd /\ d - 2 \notin Odd
      <4> HIDE DEF Odd
      <4>1. ~ (d <= d - 1) /\ ~ (d <= d - 2)
        BY <2>2
      <4> QED
        BY <2>1, <4>1
    <3>4. g[j + (L + 2 - (d - 1))] = h[L + 2 - (d - 1)] /\ g[j + (L + 2 - (d - 2))] = h[L + 2 - (d - 2)]
      BY <3>2, <3>3
    <3>5. L + 2 - (d - 1) = i + 1 /\ L + 2 - (d - 2) = i + 2
      BY <1>0, <2>2
    <3> QED
      BY <3>4, <3>5, Zenon
  <2> HIDE DEF i
  <2>5. g[j + i] = h[i]
    BY <1>3, <2>3, <2>4
  <2> QED
    BY <2>2, <2>5 DEF i
<1>5. L + 1 \notin Odd /\ L + 1 \in Nat /\ L + 1 <= L + 1 /\ L + 2 - (L + 1) = 1
  <2> HIDE DEF Odd
  <2> QED
    BY <1>0, <1>4
<1>6. g[j + (L + 2 - (L + 1))] = h[L + 2 - (L + 1)]
  BY <1>5
<1> QED
  BY <1>5, <1>6, Zenon

(* What bytes stand for, by their beginning.                               *)
LEMMA UnitsRead ==
    ASSUME NEW bytes \in Seq(Bytes), NEW final \in BOOLEAN
    PROVE  \E g : Reads(g, bytes, final) /\ UnitsOf(bytes, final) = g[1]
<1> DEFINE read == CHOOSE g : Reads(g, bytes, final)
<1>1. Reads(read, bytes, final)
  BY ReadsExist
<1>2. read = CHOOSE g : g = [i \in 1 .. Len(bytes) + 2 |->
            IF i > Len(bytes) THEN [units |-> <<>>, left |-> 0]
            ELSE IF bytes[i] = "L" /\ i = Len(bytes) /\ ~ final THEN [units |-> <<>>, left |-> 1]
            ELSE IF bytes[i] = "L" /\ i < Len(bytes) /\ bytes[i + 1] = "C"
                 THEN [g[i + 2] EXCEPT !.units = <<"LC">> \o @]
            ELSE [g[i + 1] EXCEPT !.units = <<IF bytes[i] = "A" THEN "A" ELSE "?">> \o @]]
  BY Zenon DEF Reads, ReadAt
<1> HIDE DEF read
<1>3. UnitsOf(bytes, final) = read[1]
  BY <1>2, Zenon DEF UnitsOf
<1> QED
  BY <1>1, <1>3

-----------------------------------------------------------------------------
(* The unit with which bytes begin, where they are known to hold a whole   *)
(* one.                                                                    *)
Begins(b, final, u) ==
    /\ Len(b) >= 1 /\ ~ (b[1] = "L" /\ 1 = Len(b) /\ ~ final)
    /\ b[1] = "L" /\ 1 < Len(b) /\ b[2] = "C" => u = "LC"
    /\ ~ (b[1] = "L" /\ 1 < Len(b) /\ b[2] = "C") => u = IF b[1] = "A" THEN "A" ELSE "?"

BeginTells(b, final, u) ==
    /\ u \in Units /\ UnitBytes(u) \in 1 .. Len(b) /\ UnitBytes(u) <= 2
    /\ UnitsOf(b, final).units = <<u>> \o UnitsOf(Drop(b, UnitBytes(u)), final).units
    /\ UnitsOf(b, final).left = UnitsOf(Drop(b, UnitBytes(u)), final).left

(* What is decoded are units and the bytes left over.                      *)
LEMMA UnitsTyped ==
    ASSUME NEW b \in Seq(Bytes), NEW final \in BOOLEAN
    PROVE  UnitsOf(b, final) \in Decodings
<1>1. PICK g : Reads(g, b, final) /\ UnitsOf(b, final) = g[1]
  BY UnitsRead
<1>2. 1 \in 1 .. Len(b) + 2
  OBVIOUS
<1>3. g[1] \in Decodings
  BY <1>1, <1>2, ReadsTyped
<1> QED
  BY <1>1, <1>3

(* The first unit of some bytes, and then those of the bytes after it.     *)
LEMMA UnitBegins ==
    ASSUME NEW b \in Seq(Bytes), NEW final \in BOOLEAN, NEW u, Begins(b, final, u)
    PROVE  BeginTells(b, final, u)
<1> DEFINE k == UnitBytes(u)
           c == Drop(b, k)
<1>1. Len(b) \in Nat /\ Len(b) >= 1 /\ b[1] \in Bytes
  BY DEF Begins
<1>2. u \in Units /\ k \in 1 .. Len(b) /\ k <= 2
  <2>1. CASE b[1] = "L" /\ 1 < Len(b) /\ b[2] = "C"
    <3>1. u = "LC"
      BY <2>1 DEF Begins
    <3>2. k = 2 /\ u \in Units
      BY <3>1 DEF UnitBytes, Units
    <3> HIDE DEF k
    <3> QED
      BY <1>1, <2>1, <3>2
  <2>2. CASE ~ (b[1] = "L" /\ 1 < Len(b) /\ b[2] = "C")
    <3>1. u = IF b[1] = "A" THEN "A" ELSE "?"
      BY <2>2, Zenon DEF Begins
    <3>2. u = "A" \/ u = "?"
      BY <3>1
    <3>3. k = 1 /\ u \in Units
      BY <3>2 DEF UnitBytes, Units
    <3> HIDE DEF k
    <3> QED
      BY <1>1, <3>3
  <2> QED
    BY <2>1, <2>2
<1>3. k \in Nat /\ k \in 0 .. Len(b)
  <2> HIDE DEF k
  <2> QED
    BY <1>1, <1>2
<1>4. DropTells(Bytes, b, k)
  <2> HIDE DEF k
  <2> QED
    BY <1>3, Dropped
<1>5. c \in Seq(Bytes) /\ Len(c) = Len(b) - k /\ \A i \in 1 .. Len(b) - k : c[i] = b[k + i]
  BY <1>4 DEF DropTells
<1>6. PICK g : Reads(g, b, final) /\ UnitsOf(b, final) = g[1]
  BY UnitsRead
<1> HIDE DEF c
<1>7. PICK h : Reads(h, c, final) /\ UnitsOf(c, final) = h[1]
  BY <1>5, UnitsRead
<1>8. g[k + 1] = h[1]
  <2> HIDE DEF k
  <2>1. Len(b) = k + Len(c) /\ \A i \in 1 .. Len(c) : c[i] = b[k + i]
    BY <1>1, <1>3, <1>5
  <2> QED
    BY <1>3, <1>5, <1>6, <1>7, <2>1, ReadsAgree
<1>9. g[1] = ReadAt(g, b, final, 1)
  <2>1. 1 \in 1 .. Len(b) + 2
    BY <1>1
  <2>2. \A i \in 1 .. Len(b) + 2 : g[i] = ReadAt(g, b, final, i)
    BY <1>6, Zenon DEF Reads
  <2> QED
    BY <2>1, <2>2
<1>10. g[k + 1] \in Decodings
  BY <1>5, <1>7, <1>8, UnitsTyped
<1>11. g[1] = [g[k + 1] EXCEPT !.units = <<u>> \o @]
  <2>0. ~ (1 > Len(b)) /\ ~ (b[1] = "L" /\ 1 = Len(b) /\ ~ final) /\ 1 + 1 = 2 /\ 1 + 2 = 3
    BY <1>1 DEF Begins
  <2>1. CASE b[1] = "L" /\ 1 < Len(b) /\ b[2] = "C"
    <3>1. u = "LC"
      BY <2>1 DEF Begins
    <3>2. k = 2 /\ k + 1 = 3
      BY <3>1 DEF UnitBytes
    <3>3. ReadAt(g, b, final, 1) = [g[1 + 2] EXCEPT !.units = <<"LC">> \o @]
      <4>1. b[1 + 1] = "C"
        BY <2>1
      <4> QED
        BY <2>0, <2>1, <4>1, Zenon DEF ReadAt
    <3> HIDE DEF k
    <3> QED
      BY <1>9, <2>0, <3>1, <3>2, <3>3, Zenon
  <2>2. CASE ~ (b[1] = "L" /\ 1 < Len(b) /\ b[2] = "C")
    <3> DEFINE v == IF b[1] = "A" THEN "A" ELSE "?"
    <3>1. u = v
      BY <2>2, Zenon DEF Begins
    <3>2. u = "A" \/ u = "?"
      BY <3>1
    <3>3. k = 1 /\ k + 1 = 1 + 1
      BY <3>2 DEF UnitBytes
    <3>4. ReadAt(g, b, final, 1) = [g[1 + 1] EXCEPT !.units = <<v>> \o @]
      <4>1. ~ (b[1] = "L" /\ 1 < Len(b) /\ b[1 + 1] = "C")
        BY <2>2
      <4> QED
        BY <2>0, <4>1, Zenon DEF ReadAt
    <3> HIDE DEF k, v
    <3> QED
      BY <1>9, <3>1, <3>3, <3>4, Zenon
  <2> QED
    BY <2>1, <2>2
<1>12. g[1].units = <<u>> \o g[k + 1].units /\ g[1].left = g[k + 1].left
  <2> DEFINE r == g[k + 1]
             t == g[1]
  <2>1. r \in Decodings /\ t = [r EXCEPT !.units = <<u>> \o @]
    BY <1>10, <1>11
  <2> HIDE DEF r, t
  <2>2. t.units = <<u>> \o r.units /\ t.left = r.left
    BY <2>1 DEF Decodings
  <2> QED
    BY <2>2 DEF r, t
<1>13. UnitsOf(b, final).units = <<u>> \o UnitsOf(c, final).units /\ UnitsOf(b, final).left = UnitsOf(c, final).left
  <2> HIDE DEF k
  <2> QED
    BY <1>6, <1>7, <1>8, <1>12, Zenon
<1> QED
  BY <1>2, <1>13 DEF BeginTells, c

(* Where no whole unit is known, there is nothing, or a byte is left over. *)
LEMMA NoUnit ==
    ASSUME NEW b \in Seq(Bytes), NEW final \in BOOLEAN, \A u : ~ Begins(b, final, u)
    PROVE  /\ UnitsOf(b, final).units = <<>>
           /\ \/ Len(b) = 0 /\ UnitsOf(b, final).left = 0
              \/ Len(b) = 1 /\ ~ final /\ UnitsOf(b, final).left = 1
<1>1. PICK g : Reads(g, b, final) /\ UnitsOf(b, final) = g[1]
  BY UnitsRead
<1>2. g[1] = ReadAt(g, b, final, 1)
  <2>1. 1 \in 1 .. Len(b) + 2
    OBVIOUS
  <2>2. \A i \in 1 .. Len(b) + 2 : g[i] = ReadAt(g, b, final, i)
    BY <1>1, Zenon DEF Reads
  <2> QED
    BY <2>1, <2>2
<1>3. CASE Len(b) >= 1 /\ ~ (b[1] = "L" /\ 1 = Len(b) /\ ~ final)
  <2> DEFINE v == IF b[1] = "A" THEN "A" ELSE "?"
             u == IF b[1] = "L" /\ 1 < Len(b) /\ b[2] = "C" THEN "LC" ELSE v
  <2> HIDE DEF v
  <2>1. /\ b[1] = "L" /\ 1 < Len(b) /\ b[2] = "C" => u = "LC"
        /\ ~ (b[1] = "L" /\ 1 < Len(b) /\ b[2] = "C") => u = v
    BY Zenon
  <2> HIDE DEF u
  <2>2. Begins(b, final, u)
    BY <1>3, <2>1, Zenon DEF Begins, v
  <2> QED
    BY <2>2
<1>4. CASE b[1] = "L" /\ 1 = Len(b) /\ ~ final
  <2>1. ~ (1 > Len(b))
    BY <1>4
  <2>2. g[1] = [units |-> <<>>, left |-> 1]
    BY <1>2, <1>4, <2>1, Zenon DEF ReadAt
  <2> QED
    BY <1>1, <1>4, <2>2
<1>5. CASE ~ (Len(b) >= 1)
  <2>1. 1 > Len(b)
    BY <1>5
  <2>3. Len(b) = 0
    BY <1>5
  <2>2. g[1] = [units |-> <<>>, left |-> 0]
    BY <1>2, <2>1 DEF ReadAt
  <2> QED
    BY <1>1, <2>2, <2>3
<1> QED
  BY <1>3, <1>4, <1>5

-----------------------------------------------------------------------------
(* The sum of sizes, with the first of them apart.                         *)
LEMMA SizeShift ==
    ASSUME NEW s \in Seq(Nat), NEW t \in Seq(Nat), NEW n \in Nat, n = Len(t), n + 1 = Len(s),
           \A k \in 1 .. n : t[k] = s[k + 1]
    PROVE  \A m \in 0 .. n : Size(t, 0, m) \in Nat /\ Size(s, 0, m + 1) = s[1] + Size(t, 0, m)
<1> DEFINE A(k) == Size(t, 0, k) \in Nat /\ Size(s, 0, k + 1) = s[1] + Size(t, 0, k)
           Odd == {k \in Nat : k <= n /\ ~ A(k)}
<1>0. s[1] \in Nat
  OBVIOUS
<1>1. A(0)
  <2>1. Size(t, 0, 0) = 0 /\ Size(s, 0, 0) = 0 /\ Size(s, 0, 0 + 1) = Size(s, 0, 0) + s[0 + (0 + 1)]
    <3>1. 0 \in Nat
      OBVIOUS
    <3> QED
      BY <3>1, SizeSteps
  <2>2. 0 + (0 + 1) = 1 /\ 0 + s[1] = s[1] + 0
    BY <1>0
  <2> QED
    BY <2>1, <2>2
<1>2. ASSUME NEW k \in Nat, k + 1 <= n, A(k)
      PROVE  A(k + 1)
  <2>1. Size(t, 0, k + 1) = Size(t, 0, k) + t[0 + (k + 1)]
    BY SizeSteps
  <2>2. Size(s, 0, (k + 1) + 1) = Size(s, 0, k + 1) + s[0 + ((k + 1) + 1)]
    <3> DEFINE next == k + 1
    <3>1. next \in Nat
      OBVIOUS
    <3> HIDE DEF next
    <3>2. Size(s, 0, next + 1) = Size(s, 0, next) + s[0 + (next + 1)]
      BY ONLY <3>1, SizeSteps
    <3> QED
      BY <3>2 DEF next
  <2>3. 0 + (k + 1) = k + 1 /\ 0 + ((k + 1) + 1) = (k + 1) + 1 /\ k + 1 \in 1 .. n
    BY <1>2
  <2>4. t[k + 1] = s[(k + 1) + 1] /\ t[k + 1] \in Nat
    BY <2>3
  <2> DEFINE a == Size(t, 0, k)
             b == Size(t, 0, k + 1)
             c == Size(s, 0, k + 1)
             d == Size(s, 0, (k + 1) + 1)
             z == t[k + 1]
             f == s[1]
  <2>5. a \in Nat /\ z \in Nat /\ f \in Nat /\ b = a + z /\ c = f + a /\ d = c + z
    <3>1. b = a + z
      BY <2>1, <2>3, Zenon
    <3>2. d = c + z
      BY <2>2, <2>3, <2>4, Zenon
    <3> QED
      BY <1>0, <1>2, <2>4, <3>1, <3>2
  <2> HIDE DEF a, b, c, d, z, f
  <2>6. b \in Nat /\ d = f + b
    BY <2>5
  <2> QED
    BY <2>6 DEF b, d, f
<1>3. Odd = {}
  <2> HIDE DEF A
  <2> SUFFICES ASSUME Odd # {}
               PROVE  FALSE
    OBVIOUS
  <2>1. PICK k \in Odd : \A j \in Odd : k <= j
    BY LeastNatural
  <2>2. k \in Nat /\ k <= n /\ ~ A(k)
    BY <2>1
  <2>3. k # 0
    BY <1>1, <2>2
  <2>4. k - 1 \in Nat /\ k - 1 \notin Odd /\ k - 1 <= n /\ (k - 1) + 1 = k
    BY <2>1, <2>2, <2>3
  <2>5. A(k - 1)
    BY <2>4
  <2> QED
    BY <1>2, <2>2, <2>4, <2>5
<1>4. \A m \in 0 .. n : A(m)
  <2> HIDE DEF A
  <2> QED
    BY <1>3
<1> QED
  BY <1>4

(* A page of units decoded from the first bytes of what remains is the     *)
(* beginning of what all of it stands for, whatever bytes follow: a page   *)
(* that has taken all that was left over ends what there is.               *)
Taken(units, n) == SubSeq(units, 1, n)

DecodeTells(raw, final, more, n) ==
    LET units == UnitsOf(raw, final).units
        k     == Size(UnitSizes(units), 0, n)
    IN  n <= Len(units) /\ (~ final \/ n < Len(units) \/ more = <<>>)
        => /\ k \in 0 .. Len(raw) /\ (n >= 1 => k >= 1)
           /\ UnitsOf(raw \o more, TRUE).units = Taken(units, n) \o UnitsOf(Drop(raw, k) \o more, TRUE).units

(* Units have one byte or two.                                             *)
LEMMA SizesOfUnits ==
    ASSUME NEW units \in Seq(Units)
    PROVE  UnitSizes(units) \in Seq(Nat \ {0}) /\ Len(UnitSizes(units)) = Len(units)
<1>1. \A i \in 1 .. Len(units) : UnitBytes(units[i]) \in Nat \ {0}
  BY DEF UnitBytes
<1> QED
  BY <1>1 DEF UnitSizes

(* Nothing taken leaves everything to be decoded.                          *)
LEMMA DecodesNone ==
    ASSUME NEW raw \in Seq(Bytes), NEW more \in Seq(Bytes), NEW final \in BOOLEAN
    PROVE  DecodeTells(raw, final, more, 0)
<1> DEFINE units == UnitsOf(raw, final).units
           v == UnitsOf(raw \o more, TRUE).units
<1>1. Size(UnitSizes(units), 0, 0) = 0
  BY SizeSteps
<1>2. Drop(raw, 0) = raw
  <2>1. 0 + 1 = 1 /\ SubSeq(raw, 1, Len(raw)) = raw
    OBVIOUS
  <2> QED
    BY <2>1 DEF Drop
<1>3. Taken(units, 0) = <<>>
  BY DEF Taken
<1>4. v \in Seq(Units)
  <2>1. raw \o more \in Seq(Bytes)
    OBVIOUS
  <2>2. UnitsOf(raw \o more, TRUE) \in Decodings
    BY <2>1, UnitsTyped
  <2> QED
    BY <2>2 DEF Decodings
<1> HIDE DEF units, v
<1>5. v = <<>> \o v
  BY <1>4
<1>6. 0 \in 0 .. Len(raw)
  OBVIOUS
<1> DEFINE k == Size(UnitSizes(units), 0, 0)
<1>8. k = 0 /\ k \in 0 .. Len(raw) /\ ~ (0 >= 1)
  BY <1>1, <1>6
<1> HIDE DEF k
<1>9. v = Taken(units, 0) \o UnitsOf(Drop(raw, k) \o more, TRUE).units
  BY <1>2, <1>3, <1>5, <1>8, Zenon DEF v
<1> QED
  BY <1>8, <1>9 DEF DecodeTells, units, k, v

(* The beginning of what follows a unit.                                   *)
LEMMA TakenAfter ==
    ASSUME NEW u \in Units, NEW rest2 \in Seq(Units), NEW n \in 0 .. Len(rest2)
    PROVE  Taken(<<u>> \o rest2, n + 1) = <<u>> \o Taken(rest2, n) /\ Taken(rest2, n) \in Seq(Units)
           /\ Len(Taken(rest2, n)) = n
<1> DEFINE all == <<u>> \o rest2
           x == Taken(all, n + 1)
           a == Taken(rest2, n)
           y == <<u>> \o a
<1>1. all \in Seq(Units) /\ Len(all) = 1 + Len(rest2) /\ all[1] = u
      /\ \A i \in 1 .. Len(rest2) : all[i + 1] = rest2[i]
  OBVIOUS
<1>2. a \in Seq(Units) /\ Len(a) = n /\ \A i \in 1 .. n : a[i] = rest2[i]
  BY DEF Taken
<1> HIDE DEF all, a
<1>3. n + 1 \in 0 .. Len(all)
  BY <1>1
<1>4. x \in Seq(Units) /\ Len(x) = n + 1 /\ \A i \in 1 .. n + 1 : x[i] = all[i]
  BY <1>1, <1>3 DEF Taken
<1> HIDE DEF x
<1>5. y \in Seq(Units) /\ Len(y) = n + 1 /\ y[1] = u /\ \A i \in 1 .. n : y[i + 1] = a[i]
  BY <1>2
<1> HIDE DEF y
<1>6. ASSUME NEW i \in 1 .. n + 1
      PROVE  x[i] = y[i]
  <2>1. CASE i = 1
    BY <1>1, <1>4, <1>5, <2>1
  <2>2. CASE i # 1
    <3>1. i - 1 \in 1 .. n /\ i - 1 \in 1 .. Len(rest2) /\ (i - 1) + 1 = i
      BY <2>2
    <3>2. x[i] = all[i] /\ y[(i - 1) + 1] = a[i - 1] /\ all[(i - 1) + 1] = rest2[i - 1] /\ a[i - 1] = rest2[i - 1]
      BY <1>1, <1>2, <1>4, <1>5, <3>1
    <3> QED
      BY <3>1, <3>2, Zenon
  <2> QED
    BY <2>1, <2>2
<1>7. x = y
  BY <1>4, <1>5, <1>6, SeqEqual
<1> QED
  BY <1>2, <1>7 DEF x, y, a, all

-----------------------------------------------------------------------------
(* Three sequences in a row.                                               *)
JoinTells(S, s, t, w) == s \o (t \o w) = (s \o t) \o w /\ s \o t \in Seq(S)

(* It does not matter which two are put together first.                    *)
LEMMA Joined ==
    ASSUME NEW S, NEW s \in Seq(S), NEW t \in Seq(S), NEW w \in Seq(S)
    PROVE  JoinTells(S, s, t, w)
<1> DEFINE st == s \o t
           tw == t \o w
           x == s \o tw
           y == st \o w
           n == Len(s) + Len(t) + Len(w)
<1>1. st \in Seq(S) /\ tw \in Seq(S) /\ Len(st) = Len(s) + Len(t) /\ Len(tw) = Len(t) + Len(w)
      /\ Len(s) \in Nat /\ Len(t) \in Nat /\ Len(w) \in Nat
  OBVIOUS
<1>2. /\ \A i \in 1 .. Len(s) : st[i] = s[i]
      /\ \A i \in 1 .. Len(t) : st[Len(s) + i] = t[i]
      /\ \A i \in 1 .. Len(t) : tw[i] = t[i]
      /\ \A i \in 1 .. Len(w) : tw[Len(t) + i] = w[i]
  OBVIOUS
<1> HIDE DEF st, tw
<1>3. x \in Seq(S) /\ y \in Seq(S) /\ Len(x) = n /\ Len(y) = n
  <2>1. x \in Seq(S) /\ y \in Seq(S)
    BY <1>1
  <2>2. Len(x) = Len(s) + Len(tw) /\ Len(y) = Len(st) + Len(w)
    <3>1. tw \in Seq(S) /\ st \in Seq(S)
      BY <1>1
    <3>2. Len(x) = Len(s) + Len(tw)
      BY ONLY <3>1, s \in Seq(S) DEF x
    <3>3. Len(y) = Len(st) + Len(w)
      BY ONLY <3>1, w \in Seq(S) DEF y
    <3> QED
      BY <3>2, <3>3
  <2> HIDE DEF x, y
  <2>3. Len(x) = n /\ Len(y) = n
    BY <1>1, <2>2
  <2> QED
    BY <2>1, <2>3
<1>4. /\ \A i \in 1 .. Len(s) : x[i] = s[i]
      /\ \A i \in 1 .. Len(tw) : x[Len(s) + i] = tw[i]
      /\ \A i \in 1 .. Len(st) : y[i] = st[i]
      /\ \A i \in 1 .. Len(w) : y[Len(st) + i] = w[i]
  BY <1>1
<1> HIDE DEF x, y
<1>5. ASSUME NEW i \in 1 .. n
      PROVE  x[i] = y[i]
  <2>1. CASE i <= Len(s)
    <3>1. i \in 1 .. Len(s) /\ i \in 1 .. Len(st)
      BY <1>1, <2>1
    <3>2. x[i] = s[i] /\ y[i] = st[i] /\ st[i] = s[i]
      BY <1>2, <1>4, <3>1
    <3> QED
      BY <3>2
  <2>2. CASE ~ (i <= Len(s)) /\ i <= Len(s) + Len(t)
    <3> DEFINE j == i - Len(s)
    <3>1. j \in 1 .. Len(t) /\ Len(s) + j = i /\ j \in 1 .. Len(tw) /\ i \in 1 .. Len(st)
      BY <1>1, <2>2
    <3> HIDE DEF j
    <3>2. x[Len(s) + j] = tw[j] /\ tw[j] = t[j] /\ y[i] = st[i] /\ st[Len(s) + j] = t[j]
      BY <1>2, <1>4, <3>1
    <3> QED
      BY <3>1, <3>2, Zenon
  <2>3. CASE ~ (i <= Len(s) + Len(t))
    <3> DEFINE j == i - (Len(s) + Len(t))
    <3>1. j \in 1 .. Len(w) /\ Len(s) + (Len(t) + j) = i /\ Len(st) + j = i /\ Len(t) + j \in 1 .. Len(tw)
      BY <1>1, <2>3
    <3> HIDE DEF j
    <3>2. x[Len(s) + (Len(t) + j)] = tw[Len(t) + j] /\ tw[Len(t) + j] = w[j] /\ y[Len(st) + j] = w[j]
      BY <1>2, <1>4, <3>1
    <3> QED
      BY <3>1, <3>2, Zenon
  <2>4. (i <= Len(s) /\ TRUE) \/ (~ (i <= Len(s)) /\ i <= Len(s) + Len(t)) \/ ~ (i <= Len(s) + Len(t))
    BY Zenon
  <2> QED
    BY <2>1, <2>2, <2>3, <2>4
<1> HIDE DEF n
<1>6. x = y
  BY <1>3, <1>5, SeqEqual
<1> QED
  BY <1>1, <1>6 DEF x, y, st, tw, JoinTells

(* A unit whose end is known does not change when bytes follow.            *)
LEMMA BeginsExtended ==
    ASSUME NEW raw \in Seq(Bytes), NEW more \in Seq(Bytes), NEW final \in BOOLEAN, NEW u,
           Begins(raw, final, u), ~ final \/ Len(raw) > UnitBytes(u) \/ more = <<>>
    PROVE  Begins(raw \o more, TRUE, u)
<1> DEFINE b == raw \o more
<1>1. Len(raw) \in Nat /\ Len(raw) >= 1 /\ Len(b) = Len(raw) + Len(more) /\ Len(more) \in Nat
  BY DEF Begins
<1>2. \A i \in 1 .. Len(raw) : b[i] = raw[i]
  OBVIOUS
<1>3. more = <<>> => b = raw /\ Len(more) = 0
  OBVIOUS
<1> HIDE DEF b
<1>4. b[1] = raw[1] /\ (1 < Len(raw) => b[2] = raw[2] /\ 1 < Len(b)) /\ Len(b) >= 1
  <2>1. 1 \in 1 .. Len(raw) /\ (1 < Len(raw) => 2 \in 1 .. Len(raw))
    BY <1>1
  <2> QED
    BY <1>1, <1>2, <2>1
<1>5. CASE 1 < Len(raw)
  BY <1>4, <1>5 DEF Begins, b
<1>6. CASE ~ (1 < Len(raw))
  <2>1. Len(raw) = 1 /\ ~ (1 < Len(raw))
    <3>1. \A x \in Nat : x >= 1 /\ ~ (1 < x) => x = 1
      OBVIOUS
    <3> QED
      BY <1>1, <1>6, <3>1, Zenon
  <2>2. u = IF raw[1] = "A" THEN "A" ELSE "?"
    BY <1>6, Zenon DEF Begins
  <2>3. CASE raw[1] = "L"
    <3>1. final
      BY <2>1, <2>3 DEF Begins
    <3>2. u = "?"
      BY <2>2, <2>3
    <3>3. UnitBytes(u) = 1
      BY <3>2 DEF UnitBytes
    <3>4. more = <<>>
      BY <2>1, <3>1, <3>3
    <3>5. b = raw
      BY <1>3, <3>4
    <3>6. ~ (1 < Len(b)) /\ Len(b) >= 1
      <4>1. Len(b) = 1
        BY <2>1, <3>5, Zenon
      <4>2. \A x \in Nat : x = 1 => ~ (1 < x) /\ x >= 1
        OBVIOUS
      <4>3. 1 \in Nat
        OBVIOUS
      <4> QED
        BY <4>1, <4>2, <4>3, Zenon
    <3> QED
      BY <1>4, <2>2, <3>6, Zenon DEF Begins, b
  <2>4. CASE raw[1] # "L"
    <3>1. b[1] # "L"
      BY <1>4, <2>4
    <3> HIDE DEF b
    <3>2. u = IF b[1] = "A" THEN "A" ELSE "?"
      BY <1>4, <2>2, Zenon
    <3>3. Begins(b, TRUE, u)
      BY <1>4, <3>1, <3>2, Zenon DEF Begins
    <3> QED
      BY <3>3 DEF b
  <2> QED
    BY <2>3, <2>4
<1> QED
  BY <1>5, <1>6

(* What holds of the first units of any bytes holds of one unit more: it   *)
(* is the first of what remains.                                           *)
LEMMA DecodesMore ==
    ASSUME NEW n \in Nat, NEW final \in BOOLEAN,
           \A r, m \in Seq(Bytes) : DecodeTells(r, final, m, n),
           NEW raw \in Seq(Bytes), NEW more \in Seq(Bytes)
    PROVE  DecodeTells(raw, final, more, n + 1)
<1> DEFINE units == UnitsOf(raw, final).units
           k     == Size(UnitSizes(units), 0, n + 1)
<1> SUFFICES ASSUME n + 1 <= Len(units), ~ final \/ n + 1 < Len(units) \/ more = <<>>
             PROVE  /\ k \in 0 .. Len(raw) /\ (n + 1 >= 1 => k >= 1)
                    /\ UnitsOf(raw \o more, TRUE).units = Taken(units, n + 1) \o UnitsOf(Drop(raw, k) \o more, TRUE).units
  BY DEF DecodeTells
<1>0. units \in Seq(Units)
  BY UnitsTyped DEF Decodings
<1>1. PICK u : Begins(raw, final, u)
  <2> SUFFICES ASSUME \A u : ~ Begins(raw, final, u)
               PROVE  FALSE
    OBVIOUS
  <2>1. units = <<>>
    BY NoUnit
  <2>2. Len(units) = 0
    BY <2>1
  <2> HIDE DEF units
  <2> QED
    BY <2>2
<1> DEFINE j == UnitBytes(u)
           raw2 == Drop(raw, j)
           units2 == UnitsOf(raw2, final).units
           k2 == Size(UnitSizes(units2), 0, n)
<1>2. BeginTells(raw, final, u)
  BY <1>1, UnitBegins
<1>3. u \in Units /\ j \in 1 .. Len(raw) /\ j <= 2 /\ units = <<u>> \o units2
  BY <1>2 DEF BeginTells
<1>4. raw2 \in Seq(Bytes) /\ Len(raw2) = Len(raw) - j
  <2>1. j \in 0 .. Len(raw)
    <3> HIDE DEF j
    <3> QED
      BY <1>3
  <2>2. DropTells(Bytes, raw, j)
    <3> HIDE DEF j
    <3> QED
      BY <2>1, Dropped
  <2> QED
    BY <2>2 DEF DropTells
<1> HIDE DEF j, raw2
<1>5. units2 \in Seq(Units)
  BY <1>4, UnitsTyped DEF Decodings
<1>6. Len(units) = 1 + Len(units2) /\ units[1] = u /\ (\A i \in 1 .. Len(units2) : units[i + 1] = units2[i]) /\ Len(units2) \in Nat
  <2> HIDE DEF units, units2
  <2> QED
    BY <1>3, <1>5
<1>7. n <= Len(units2) /\ (~ final \/ n < Len(units2) \/ more = <<>>)
  <2> HIDE DEF units, units2
  <2> QED
    BY <1>6
<1>8. /\ k2 \in 0 .. Len(raw2)
      /\ UnitsOf(raw2 \o more, TRUE).units = Taken(units2, n) \o UnitsOf(Drop(raw2, k2) \o more, TRUE).units
  <2>1. DecodeTells(raw2, final, more, n)
    BY <1>4
  <2> QED
    BY <1>7, <2>1, Zenon DEF DecodeTells
<1>9. k = j + k2
  <2> DEFINE s == UnitSizes(units)
             t == UnitSizes(units2)
  <2>1. s \in Seq(Nat \ {0}) /\ Len(s) = Len(units) /\ t \in Seq(Nat \ {0}) /\ Len(t) = Len(units2)
    <3> HIDE DEF units, units2
    <3> QED
      BY <1>0, <1>5, SizesOfUnits
  <2>2. s[1] = j
    <3>1. 1 \in 1 .. Len(units)
      <4> HIDE DEF units, units2
      <4> QED
        BY <1>6
    <3> HIDE DEF units
    <3> QED
      BY <1>6, <3>1 DEF UnitSizes, j
  <2>3. \A i \in 1 .. Len(units2) : t[i] = s[i + 1]
    <3> TAKE i \in 1 .. Len(units2)
    <3>1. i + 1 \in 1 .. Len(units)
      <4> HIDE DEF units, units2
      <4> QED
        BY <1>6
    <3>2. t[i] = UnitBytes(units2[i]) /\ s[i + 1] = UnitBytes(units[i + 1])
      <4> HIDE DEF units, units2
      <4> QED
        BY <3>1 DEF UnitSizes
    <3> QED
      BY <1>6, <3>2
  <2> HIDE DEF units, units2, s, t
  <2>4. s \in Seq(Nat) /\ t \in Seq(Nat) /\ Len(units2) \in Nat /\ Len(units2) = Len(t) /\ Len(units2) + 1 = Len(s)
        /\ n \in 0 .. Len(units2)
    BY <1>6, <1>7, <2>1
  <2>5. Size(s, 0, n + 1) = s[1] + Size(t, 0, n)
    <3> DEFINE p == Len(units2)
    <3>1. p \in Nat /\ p = Len(t) /\ p + 1 = Len(s) /\ \A i \in 1 .. p : t[i] = s[i + 1]
      BY <2>3, <2>4
    <3> HIDE DEF p
    <3>2. \A m \in 0 .. p : Size(t, 0, m) \in Nat /\ Size(s, 0, m + 1) = s[1] + Size(t, 0, m)
      BY <2>4, <3>1, SizeShift
    <3> QED
      BY <2>4, <3>2 DEF p
  <2> QED
    BY <2>2, <2>5 DEF s, t
<1> HIDE DEF k, k2
<1>10. k \in 0 .. Len(raw) /\ k >= 1
  BY <1>3, <1>4, <1>8, <1>9
<1>11. ~ final \/ Len(raw) > j \/ more = <<>>
  <2> SUFFICES ASSUME final, ~ (Len(raw) > j)
               PROVE  more = <<>>
    OBVIOUS
  <2>1. Len(raw2) = 0
    BY <1>3, <1>4
  <2>2. \A v : ~ Begins(raw2, final, v)
    BY <2>1 DEF Begins
  <2>3. units2 = <<>>
    BY <1>4, <2>2, NoUnit
  <2> HIDE DEF units2
  <2>4. Len(units2) = 0
    BY ONLY <2>3
  <2> QED
    BY <1>7, <2>4
<1>12. Begins(raw \o more, TRUE, u)
  BY <1>1, <1>11, BeginsExtended DEF j
<1>13. raw \o more \in Seq(Bytes)
  OBVIOUS
<1>14. BeginTells(raw \o more, TRUE, u)
  BY <1>12, <1>13, UnitBegins
<1>15. UnitsOf(raw \o more, TRUE).units = <<u>> \o UnitsOf(Drop(raw \o more, j), TRUE).units
  BY <1>14 DEF BeginTells, j
<1>16. Drop(raw \o more, j) = raw2 \o more
  <2>1. j \in 0 .. Len(raw)
    BY <1>3
  <2> QED
    BY <2>1, DropExtended DEF raw2
<1>17. Drop(raw2, k2) = Drop(raw, k)
  <2>1. j \in Nat /\ k2 \in Nat /\ j + k2 <= Len(raw)
    BY <1>3, <1>4, <1>8
  <2>2. Drop(Drop(raw, j), k2) = Drop(raw, j + k2)
    BY <2>1, DropsAdd
  <2> QED
    BY <1>9, <2>2, Zenon DEF raw2
<1> DEFINE tail == UnitsOf(Drop(raw, k) \o more, TRUE).units
           first == Taken(units2, n)
<1>18. UnitsOf(raw \o more, TRUE).units = <<u>> \o (first \o tail)
  BY <1>8, <1>15, <1>16, <1>17, Zenon
<1>19. tail \in Seq(Units)
  <2>1. Drop(raw, k) \in Seq(Bytes)
    <3>1. DropTells(Bytes, raw, k)
      BY <1>10, Dropped
    <3> QED
      BY <3>1 DEF DropTells
  <2>2. Drop(raw, k) \o more \in Seq(Bytes)
    BY <2>1
  <2>3. UnitsOf(Drop(raw, k) \o more, TRUE) \in Decodings
    BY <2>2, UnitsTyped
  <2> QED
    BY <2>3 DEF Decodings
<1> HIDE DEF units, units2
<1>20. Taken(units, n + 1) = <<u>> \o first /\ first \in Seq(Units)
  <2>1. n \in 0 .. Len(units2)
    BY <1>6, <1>7
  <2> QED
    BY <1>3, <1>5, <2>1, TakenAfter
<1> HIDE DEF tail, first
<1>21. <<u>> \o (first \o tail) = (<<u>> \o first) \o tail
  <2>1. <<u>> \in Seq(Units)
    BY <1>3
  <2> DEFINE one == <<u>>
  <2> HIDE DEF one
  <2>2. one \in Seq(Units)
    BY <2>1 DEF one
  <2>3. one \o (first \o tail) = (one \o first) \o tail
    <3>1. first \in Seq(Units) /\ tail \in Seq(Units)
      BY <1>19, <1>20
    <3> QED
      <4>1. JoinTells(Units, one, first, tail)
        BY <2>2, <3>1, Joined
      <4> QED
        BY <4>1, Zenon DEF JoinTells
  <2> QED
    BY <2>3 DEF one
<1>22. UnitsOf(raw \o more, TRUE).units = Taken(units, n + 1) \o tail
  BY <1>18, <1>20, <1>21, Zenon
<1> QED
  BY <1>10, <1>22 DEF tail

(* So it holds of any number of units: what is decoded of a part of a log  *)
(* and what is decoded of the rest is what is decoded of the whole.        *)
LEMMA Decodes ==
    ASSUME NEW final \in BOOLEAN, NEW n \in Nat, NEW raw \in Seq(Bytes), NEW more \in Seq(Bytes)
    PROVE  DecodeTells(raw, final, more, n)
<1> DEFINE A(k) == \A r, m \in Seq(Bytes) : DecodeTells(r, final, m, k)
           Odd == {k \in Nat : ~ A(k)}
<1>1. A(0)
  BY DecodesNone
<1>2. ASSUME NEW k \in Nat, A(k)
      PROVE  A(k + 1)
  BY <1>2, DecodesMore
<1> HIDE DEF A
<1>3. Odd = {}
  <2> SUFFICES ASSUME Odd # {}
               PROVE  FALSE
    OBVIOUS
  <2>1. PICK k \in Odd : \A j \in Odd : k <= j
    BY LeastNatural
  <2>2. k \in Nat /\ ~ A(k)
    BY <2>1
  <2>3. k # 0
    BY <1>1, <2>2
  <2>4. k - 1 \in Nat /\ k - 1 \notin Odd /\ (k - 1) + 1 = k
    BY <2>1, <2>2, <2>3
  <2>5. A(k - 1)
    BY <2>4
  <2> QED
    BY <1>2, <2>2, <2>4, <2>5
<1>4. A(n)
  BY <1>3
<1> QED
  BY <1>4 DEF A

-----------------------------------------------------------------------------
(* The log of a job.                                                       *)

(* Bytes of which no unit can be made to the very end are none.            *)
LEMMA AllDecoded ==
    ASSUME NEW b \in Seq(Bytes), UnitsOf(b, TRUE).units = <<>>
    PROVE  Len(b) = 0 /\ b = <<>>
<1>1. CASE \A u : ~ Begins(b, TRUE, u)
  <2>1. Len(b) = 0
    BY <1>1, NoUnit
  <2> QED
    BY <2>1
<1>2. CASE \E u : Begins(b, TRUE, u)
  <2>1. PICK u : Begins(b, TRUE, u)
    BY <1>2
  <2>2. BeginTells(b, TRUE, u)
    BY <2>1, UnitBegins
  <2> DEFINE c == Drop(b, UnitBytes(u))
             v == UnitsOf(c, TRUE).units
  <2>3. u \in Units /\ UnitBytes(u) \in 1 .. Len(b) /\ UnitsOf(b, TRUE).units = <<u>> \o v
    BY <2>2 DEF BeginTells
  <2>4. v \in Seq(Units)
    <3>1. UnitBytes(u) \in 0 .. Len(b)
      BY <2>3
    <3>2. DropTells(Bytes, b, UnitBytes(u))
      BY <3>1, Dropped
    <3>3. c \in Seq(Bytes)
      BY <3>2 DEF DropTells
    <3> HIDE DEF c
    <3> QED
      BY <3>3, UnitsTyped DEF Decodings
  <2> HIDE DEF v
  <2>5. <<u>> \o v # <<>>
    BY <2>3, <2>4
  <2> QED
    BY <2>3, <2>5
<1> QED
  BY <1>1, <1>2

(* A page of a log: the beginning of what there is, and something of it    *)
(* unless there is nothing, or one byte of which more is expected.         *)
GoesOn(raw, k, items, final, more) ==
    ~ final \/ k < Len(raw) \/ more = <<>>
    => UnitsOf(raw \o more, TRUE).units = items \o UnitsOf(Drop(raw, k) \o more, TRUE).units

LogTells(p, from, raw, final, size, k) ==
    /\ k \in 0 .. Len(raw) /\ p.next = from + k /\ p.more = (p.next < size) /\ p.items \in Seq(Units)
    /\ \A more \in Seq(Bytes) : GoesOn(raw, k, p.items, final, more)
    /\ k = 0 /\ Len(raw) > 0 => Len(raw) = 1 /\ ~ final /\ p.note = "minimum_max_bytes"

(* job_output: whatever bytes were read, a page of a log is such a page.   *)
LEMMA LogTold ==
    ASSUME NEW raw \in Seq(Bytes), NEW final \in BOOLEAN, NEW from \in Nat, NEW size \in Nat
    PROVE  \E k \in Nat : LogTells(LogPage(from, raw, final, size, Room), from, raw, final, size, k)
<1> DEFINE all   == UnitsOf(raw, final)
           units == all.units
           sizes == UnitSizes(units)
           f     == Fitting(sizes, 0, 0, Room)
           most  == Max({1, f})
           n     == Min({Len(units), most})
           taken == Taken(units, n)
           k     == Total(UnitSizes(taken))
           p     == LogPage(from, raw, final, size, Room)
<1>1. all \in Decodings
  BY UnitsTyped
<1>2. units \in Seq(Units) /\ all.left \in {0, 1} /\ Len(units) \in Nat
  BY <1>1 DEF Decodings
<1>3. /\ p.items = taken /\ p.next = from + k /\ p.more = (from + k < size)
      /\ p.note = IF n = 0 /\ all.left > 0 THEN "minimum_max_bytes" ELSE "none"
  BY DEF LogPage, PageOf, Decoded, Taken
<1> HIDE DEF units, p
<1>4. sizes \in Seq(Nat \ {0}) /\ Len(sizes) = Len(units) /\ sizes \in Seq(Nat)
  <2>1. sizes \in Seq(Nat \ {0}) /\ Len(sizes) = Len(units)
    BY <1>2, SizesOfUnits
  <2> HIDE DEF sizes
  <2> QED
    BY <2>1
<1> HIDE DEF sizes
<1>5. f \in Nat
  <2>1. FitTells(sizes, 0, 0, Room)
    <3>1. 0 \in 0 .. Len(sizes) /\ 0 \in Nat /\ Room \in Int
      BY <1>2, <1>4, PageAssumption
    <3> QED
      BY <1>4, <3>1, FittingTells
  <2> QED
    BY <2>1 DEF FitTells
<1> HIDE DEF f
<1>6. most \in Nat /\ most >= 1
  <2>1. most = IF 1 >= f THEN 1 ELSE f
    BY <1>5, LargerOf
  <2> HIDE DEF most
  <2> QED
    BY <1>5, <2>1
<1> HIDE DEF most
<1>7. n \in 0 .. Len(units) /\ (n = 0 => Len(units) = 0)
  <2> DEFINE l == Len(units)
  <2>1. l \in Nat
    BY <1>2
  <2> HIDE DEF l
  <2>2. Min({l, most}) = IF l <= most THEN l ELSE most
    BY <1>6, <2>1, SmallerOf
  <2> DEFINE x == Min({l, most})
  <2>3. x = IF l <= most THEN l ELSE most
    BY <2>2
  <2> HIDE DEF x
  <2>4. x \in 0 .. l /\ (x = 0 => l = 0)
    BY <1>6, <2>1, <2>3
  <2> QED
    BY <2>4 DEF x, l
<1> HIDE DEF n
<1>8. taken \in Seq(Units) /\ Len(taken) = n /\ \A i \in 1 .. n : taken[i] = units[i]
  BY <1>2, <1>7 DEF Taken
<1>9. k = Size(UnitSizes(units), 0, n)
  <2> HIDE DEF taken
  <2>1. Len(UnitSizes(taken)) = n
    BY <1>8, SizesOfUnits
  <2>2. \A i \in 1 .. n : UnitSizes(taken)[0 + i] = UnitSizes(units)[0 + i]
    <3> TAKE i \in 1 .. n
    <3>1. 0 + i = i /\ i \in 1 .. Len(units) /\ i \in 1 .. Len(taken)
      BY <1>2, <1>7, <1>8
    <3>2. UnitSizes(taken)[i] = UnitBytes(taken[i]) /\ UnitSizes(units)[i] = UnitBytes(units[i])
      BY <3>1 DEF UnitSizes
    <3> QED
      BY <1>8, <3>1, <3>2, Zenon
  <2>3. n \in Nat
    BY <1>7
  <2>4. Size(UnitSizes(taken), 0, n) = Size(UnitSizes(units), 0, n)
    BY <2>2, <2>3, SizesAgree
  <2> QED
    BY <2>1, <2>4, Zenon DEF Total
<1> HIDE DEF taken, k
<1>10. ASSUME NEW more \in Seq(Bytes), ~ final \/ n < Len(units) \/ more = <<>>
       PROVE  /\ k \in 0 .. Len(raw) /\ (n >= 1 => k >= 1)
              /\ UnitsOf(raw \o more, TRUE).units = taken \o UnitsOf(Drop(raw, k) \o more, TRUE).units
  <2>1. n \in Nat /\ n <= Len(units)
    BY <1>2, <1>7
  <2>2. DecodeTells(raw, final, more, n)
    BY <2>1, Decodes
  <2> QED
    BY <1>9, <1>10, <2>1, <2>2, Zenon DEF DecodeTells, units, taken, all
<1>11. k \in 0 .. Len(raw) /\ (n >= 1 => k >= 1)
  <2>1. <<>> \in Seq(Bytes)
    OBVIOUS
  <2> QED
    BY <1>10, <2>1
<1>12. final /\ k < Len(raw) => n < Len(units)
  <2> SUFFICES ASSUME final, k < Len(raw), ~ (n < Len(units))
               PROVE  FALSE
    OBVIOUS
  <2>1. n = Len(units) /\ final = TRUE
    BY <1>2, <1>7
  <2> DEFINE d == Drop(raw, k)
             v == UnitsOf(d, TRUE).units
  <2>2. d \in Seq(Bytes) /\ Len(d) = Len(raw) - k
    <3>1. DropTells(Bytes, raw, k)
      BY <1>11, Dropped
    <3> QED
      BY <3>1 DEF DropTells
  <2>3. UnitsOf(raw \o <<>>, TRUE).units = taken \o UnitsOf(d \o <<>>, TRUE).units
    <3>1. <<>> \in Seq(Bytes)
      OBVIOUS
    <3> QED
      BY <1>10, <3>1
  <2>4. raw \o <<>> = raw
    OBVIOUS
  <2> HIDE DEF d
  <2>5. d \o <<>> = d
    BY <2>2
  <2>6. v \in Seq(Units)
    BY <2>2, UnitsTyped DEF Decodings
  <2>7. UnitsOf(raw, TRUE).units = units
    BY <2>1 DEF units
  <2>8. units = taken \o v
    BY <2>3, <2>4, <2>5, <2>7, Zenon
  <2> HIDE DEF v
  <2>9. Len(taken \o v) = Len(taken) + Len(v) /\ Len(v) \in Nat /\ Len(taken) \in Nat
    <3>1. taken \in Seq(Units)
      BY <1>8
    <3> QED
      BY ONLY <2>6, <3>1
  <2>10. Len(units) = Len(taken) + Len(v)
    BY <2>8, <2>9, Zenon
  <2>11. Len(v) = 0
    BY <1>8, <2>1, <2>9, <2>10
  <2>12. v = <<>>
    BY <2>6, <2>11
  <2>13. Len(d) = 0
    BY <2>2, <2>12, AllDecoded DEF v
  <2> QED
    BY <1>11, <2>2, <2>13
<1>13. ASSUME NEW more \in Seq(Bytes)
       PROVE  GoesOn(raw, k, taken, final, more)
  <2> SUFFICES ASSUME ~ final \/ k < Len(raw) \/ more = <<>>
               PROVE  UnitsOf(raw \o more, TRUE).units = taken \o UnitsOf(Drop(raw, k) \o more, TRUE).units
    BY DEF GoesOn
  <2>1. ~ final \/ n < Len(units) \/ more = <<>>
    BY <1>12
  <2> QED
    BY <1>10, <2>1
<1>14. ASSUME k = 0, Len(raw) > 0
       PROVE  Len(raw) = 1 /\ ~ final /\ p.note = "minimum_max_bytes"
  <2>1. n = 0
    BY <1>7, <1>11, <1>14
  <2>2. Len(units) = 0
    BY <1>7, <2>1
  <2>3. units = <<>>
    BY <1>2, <2>2
  <2>4. \A u : ~ Begins(raw, final, u)
    <3> SUFFICES ASSUME NEW u, Begins(raw, final, u)
                 PROVE  FALSE
      OBVIOUS
    <3>1. BeginTells(raw, final, u)
      BY UnitBegins
    <3> DEFINE w == UnitsOf(Drop(raw, UnitBytes(u)), final).units
    <3>2. u \in Units /\ UnitBytes(u) \in 1 .. Len(raw) /\ units = <<u>> \o w
      BY <3>1 DEF BeginTells, units
    <3>3. Drop(raw, UnitBytes(u)) \in Seq(Bytes)
      <4>1. UnitBytes(u) \in 0 .. Len(raw)
        BY <3>2
      <4>2. DropTells(Bytes, raw, UnitBytes(u))
        BY <4>1, Dropped
      <4> QED
        BY <4>2 DEF DropTells
    <3>4. w \in Seq(Units)
      BY <3>3, UnitsTyped DEF Decodings
    <3> HIDE DEF w
    <3>5. <<u>> \o w # <<>>
      BY <3>2, <3>4
    <3> QED
      BY <2>3, <3>2, <3>5, Zenon
  <2>5. Len(raw) = 1 /\ ~ final /\ all.left = 1
    <3>1. \/ Len(raw) = 0 /\ all.left = 0
          \/ Len(raw) = 1 /\ ~ final /\ all.left = 1
      BY <2>4, NoUnit
    <3>2. Len(raw) # 0
      BY <1>14
    <3> QED
      BY <3>1, <3>2, Zenon
  <2>6. n = 0 /\ all.left > 0
    BY <2>1, <2>5
  <2> QED
    BY <1>3, <2>5, <2>6, Zenon
<1>15. p.items \in Seq(Units) /\ p.items = taken /\ p.next = from + k /\ p.more = (p.next < size)
  BY <1>3, <1>8
<1>16. LogTells(p, from, raw, final, size, k)
  BY <1>11, <1>13, <1>14, <1>15 DEF LogTells
<1>17. k \in Nat
  BY <1>11
<1> QED
  BY <1>16, <1>17 DEF p

-----------------------------------------------------------------------------
(* The inductive invariant.                                                *)

ListKinds == {"items", "lines", "jobs"}
ReadOn    == src.kind \notin {"files", "grep"}

(* What has been read and what is yet to be read are all there is, and     *)
(* stay so whatever is written.                                            *)
Expands(bytes, from, units) ==
    \A ext \in Seq(Bytes) :
        UnitsOf(bytes \o ext, TRUE).units = units \o UnitsOf(Drop(bytes, from) \o ext, TRUE).units

CallKind == [at : {"idle", "status", "size", "bytes", "answer"}, max : {0} \cup ByteLimits,
             terminal : BOOLEAN, size : Nat, raw : Seq(Bytes)]

(* What a call of job_output has read is still there.                      *)
CallInv ==
    /\ call \in CallKind
    /\ call.size <= Len(log) /\ Len(call.raw) <= call.max
    /\ call.at # "idle" => call.max \in ByteLimits /\ phase = "open"
    /\ call.terminal => status = "over"
    /\ call.at \in {"bytes", "answer"}
        => cursor <= call.size /\ (call.terminal /\ ~ src.leftover => call.size = Len(log))
    /\ call.at = "answer"
        => /\ Len(call.raw) = Min({call.max, call.size - cursor})
           /\ \E tail \in Seq(Bytes) : Drop(log, cursor) = call.raw \o tail

ListInv ==
    src.kind \in ListKinds
    => call = Idle /\ log = <<>> /\ cursor \in 0 .. Len(src.sizes) /\ got = Span(0, cursor)

DiffInv ==
    src.kind = "diff"
    => /\ call = Idle /\ log = <<>>
       /\ \E m \in 0 .. Len(src.chars) : cursor = Size(src.chars, 0, m) /\ got = Span(0, m)

LogInv ==
    src.kind = "log"
    => /\ log \in Seq(Bytes) /\ Len(log) <= LogLimit /\ cursor \in 0 .. Len(log) /\ got \in Seq(Units)
       /\ phase = "open" => Expands(log, cursor, got)
       /\ CallInv

BaseInv ==
    /\ phase \in {"open", "done"} /\ status \in {"running", "over"}
    /\ rest = {} /\ scan = NoScan

IInv ==
    /\ src \in Sources
    /\ ReadOn => BaseInv /\ ListInv /\ DiffInv /\ LogInv

(* What is assumed of a source of each kind.                               *)
LEMMA SourceKinds ==
    ASSUME src \in Sources
    PROVE  /\ ReadOn => src.kind \in ListKinds \cup {"diff", "log"}
           /\ src.kind \in ListKinds => src.sizes \in Seq(Nat) /\ src.kind # "diff" /\ src.kind # "log"
           /\ src.kind = "items" => src.envelope \in Nat /\ src.wrapper \in Nat
           /\ src.kind = "lines" => src.bytes \in Seq(Nat) /\ Len(src.bytes) = Len(src.sizes)
           /\ src.kind = "jobs"  => src.envelope \in Nat /\ src.warnings \in Nat
           /\ src.kind = "diff"  => src.chars \in Seq({1, 2}) /\ src.envelope \in Nat
           /\ src.kind = "log"   => src.leftover \in BOOLEAN
<1> DEFINE s == src
<1>1. s \in Sources
  OBVIOUS
<1> HIDE DEF s
<1>2. /\ s.kind \in {"items", "lines", "jobs", "files", "diff", "grep", "log"}
      /\ s.kind \in {"items", "lines", "jobs"} => s.sizes \in Seq(Nat \ {0})
      /\ s.kind = "items" => s.envelope \in Nat /\ s.wrapper \in Nat
      /\ s.kind = "lines" => s.bytes \in Seq(Nat) /\ Len(s.bytes) = Len(s.sizes)
      /\ s.kind = "jobs"  => s.envelope \in Nat /\ s.warnings \in Nat
      /\ s.kind = "diff"  => s.chars \in Seq({1, 2}) /\ s.envelope \in Nat
      /\ s.kind = "log"   => s.leftover \in BOOLEAN
  BY <1>1, ReadingAssumption
<1>3. ASSUME NEW z \in Seq(Nat \ {0})
      PROVE  z \in Seq(Nat)
  OBVIOUS
<1>4. s.kind \in ListKinds => s.sizes \in Seq(Nat)
  BY <1>2, <1>3 DEF ListKinds
<1>5. s.kind \notin {"files", "grep"} => s.kind \in ListKinds \cup {"diff", "log"}
  BY <1>2 DEF ListKinds
<1>6. s.kind \in ListKinds => s.kind # "diff" /\ s.kind # "log"
  BY DEF ListKinds
<1> QED
  BY <1>2, <1>4, <1>5, <1>6 DEF s, ReadOn

(* Nobody has read anything at the beginning.                              *)
LEMMA InitGood ==
    ASSUME Init
    PROVE  IInv
<1>1. src \in Sources /\ cursor = 0 /\ got = <<>> /\ rest = {} /\ phase = "open" /\ log = <<>>
      /\ status = "running" /\ call = Idle /\ scan = NoScan
  BY DEF Init
<1>2. SUFFICES ASSUME ReadOn
               PROVE  BaseInv /\ ListInv /\ DiffInv /\ LogInv
  BY <1>1 DEF IInv
<1>3. Span(0, 0) = <<>>
  BY DEF Span
<1>4. BaseInv
  BY <1>1 DEF BaseInv
<1>5. ListInv
  <2> SUFFICES ASSUME src.kind \in ListKinds
               PROVE  0 \in 0 .. Len(src.sizes)
    BY <1>1, <1>3, Zenon DEF ListInv
  <2>1. src.sizes \in Seq(Nat)
    BY <1>1, SourceKinds
  <2> QED
    BY <2>1
<1>6. DiffInv
  <2> SUFFICES ASSUME src.kind = "diff"
               PROVE  \E m \in 0 .. Len(src.chars) : cursor = Size(src.chars, 0, m) /\ got = Span(0, m)
    BY <1>1, Zenon DEF DiffInv
  <2>1. src.chars \in Seq({1, 2})
    BY <1>1, SourceKinds
  <2>2. 0 \in 0 .. Len(src.chars)
    BY <2>1
  <2>3. Size(src.chars, 0, 0) = 0
    <3>1. 0 \in Nat
      OBVIOUS
    <3> QED
      BY <3>1, SizeSteps
  <2> QED
    BY <1>1, <1>3, <2>2, <2>3
<1>7. LogInv
  <2>1. log \in Seq(Bytes) /\ Len(log) <= LogLimit /\ cursor \in 0 .. Len(log) /\ got \in Seq(Units)
    BY <1>1, ReadingAssumption
  <2>2. CallInv
    <3>1. call \in CallKind
      BY <1>1 DEF CallKind, Idle
    <3>2. call.size = 0 /\ call.raw = <<>> /\ call.max = 0 /\ call.at = "idle" /\ call.terminal = FALSE
      BY <1>1 DEF Idle
    <3>3. call.size <= Len(log) /\ Len(call.raw) <= call.max
      BY <1>1, <3>2
    <3> QED
      BY <3>1, <3>2, <3>3 DEF CallInv
  <2>3. Expands(log, cursor, got)
    <3> SUFFICES ASSUME NEW ext \in Seq(Bytes)
                 PROVE  UnitsOf(<<>> \o ext, TRUE).units = <<>> \o UnitsOf(Drop(<<>>, 0) \o ext, TRUE).units
      BY <1>1, Zenon DEF Expands
    <3>1. Drop(<<>>, 0) = <<>>
      BY DEF Drop
    <3>2. <<>> \o ext = ext
      OBVIOUS
    <3> DEFINE v == UnitsOf(ext, TRUE).units
    <3>3. v \in Seq(Units)
      BY UnitsTyped DEF Decodings
    <3> HIDE DEF v
    <3>4. <<>> \o v = v
      BY <3>3
    <3> QED
      BY <3>1, <3>2, <3>4, Zenon DEF v
  <2> QED
    BY <2>1, <2>2, <2>3 DEF LogInv
<1> QED
  BY <1>4, <1>5, <1>6, <1>7

(* A page of a list.                                                       *)
LEMMA AskList ==
    ASSUME IInv, src.kind \in ListKinds, NEW limit \in Limits, NEW maxBytes \in ByteLimits,
           Ask(limit, maxBytes)
    PROVE  /\ ListPage(page', src.sizes, cursor)
           /\ page'.more => page'.next > cursor \/ ~ Readily
<1>1. src \in Sources /\ ReadOn /\ ListInv
  BY DEF IInv, ReadOn, ListKinds
<1>2. cursor \in 0 .. Len(src.sizes) /\ limit \in Nat
  BY <1>1, ReadingAssumption DEF ListInv
<1>3. page' = Pages(limit, maxBytes)
  BY DEF Ask
<1> DEFINE s == src
           c == cursor
           p == page'
<1>4. s.sizes \in Seq(Nat) /\ c \in 0 .. Len(s.sizes) /\ limit \in Nat
  BY <1>1, <1>2, SourceKinds
<1>5. CASE src.kind = "items"
  <2>1. p = Collected(s, c, limit)
    BY <1>3, <1>5 DEF Pages
  <2>2. s.envelope \in Nat /\ s.wrapper \in Nat
    BY <1>1, <1>5, SourceKinds
  <2>3. Readily => \A i \in DOMAIN s.sizes : s.sizes[i] + s.envelope + s.wrapper <= Room
    BY <1>5 DEF Readily
  <2> HIDE DEF s, c, p
  <2>4. /\ ListPage(Collected(s, c, limit), s.sizes, c)
        /\ (\A i \in DOMAIN s.sizes : s.sizes[i] + s.envelope + s.wrapper <= Room)
               /\ Collected(s, c, limit).more => Collected(s, c, limit).next > c
    BY <1>4, <2>2, CollectedList
  <2>5. ListPage(p, s.sizes, c) /\ (p.more => p.next > c \/ ~ Readily)
    BY <2>1, <2>3, <2>4, Zenon
  <2> QED
    BY <2>5 DEF s, c, p
<1>6. CASE src.kind = "lines"
  <2>1. p = Lines(s, c, limit)
    BY <1>3, <1>6 DEF Pages
  <2>2. s.bytes \in Seq(Nat) /\ Len(s.bytes) = Len(s.sizes)
    BY <1>1, <1>6, SourceKinds
  <2> HIDE DEF s, c, p
  <2>4. /\ ListPage(Lines(s, c, limit), s.sizes, c)
        /\ Lines(s, c, limit).more => Lines(s, c, limit).next > c
    BY <1>4, <2>2, LinesList
  <2>5. ListPage(p, s.sizes, c) /\ (p.more => p.next > c \/ ~ Readily)
    BY <2>1, <2>4, Zenon
  <2> QED
    BY <2>5 DEF s, c, p
<1>7. CASE src.kind = "jobs"
  <2> DEFINE least == Max({1, limit})
  <2>1. p = Jobs(s, c, least)
    BY <1>3, <1>7 DEF Pages
  <2>2. s.envelope \in Nat /\ s.warnings \in Nat
    BY <1>1, <1>7, SourceKinds
  <2>3. least = IF 1 >= limit THEN 1 ELSE limit
    BY <1>4, LargerOf
  <2> HIDE DEF s, c, p, least
  <2>4. least \in Nat /\ least >= 1
    BY <1>4, <2>3
  <2>5. /\ ListPage(Jobs(s, c, least), s.sizes, c)
        /\ Jobs(s, c, least).more => Jobs(s, c, least).next > c
    BY <1>4, <2>2, <2>4, JobsList
  <2>6. ListPage(p, s.sizes, c) /\ (p.more => p.next > c \/ ~ Readily)
    BY <2>1, <2>5, Zenon
  <2> QED
    BY <2>6 DEF s, c, p
<1> QED
  BY <1>5, <1>6, <1>7 DEF ListKinds

(* A page of a diff.                                                       *)
LEMMA AskDiff ==
    ASSUME IInv, src.kind = "diff", NEW limit \in Limits, NEW maxBytes \in ByteLimits,
           Ask(limit, maxBytes)
    PROVE  \E m \in 0 .. Len(src.chars) :
               cursor = Size(src.chars, 0, m) /\ got = Span(0, m) /\ DiffTells(src, m, page')
<1>1. src \in Sources /\ ReadOn /\ DiffInv
  BY DEF IInv, ReadOn
<1>2. page' = Diff(src, cursor, maxBytes) /\ maxBytes >= 2
  BY DEF Ask, Pages
<1>3. PICK m \in 0 .. Len(src.chars) : cursor = Size(src.chars, 0, m) /\ got = Span(0, m)
  BY <1>1 DEF DiffInv
<1>4. src.chars \in Seq({1, 2}) /\ src.envelope \in Nat
  BY <1>1, SourceKinds
<1>5. maxBytes \in Nat
  BY ReadingAssumption
<1> DEFINE s == src
<1>6. DiffTells(s, m, Diff(s, Size(s.chars, 0, m), maxBytes))
  <2>1. s.chars \in Seq({1, 2}) /\ s.envelope \in Nat /\ m \in 0 .. Len(s.chars)
    BY <1>4
  <2> HIDE DEF s
  <2> QED
    BY <1>2, <1>5, <2>1, DiffTold
<1>7. DiffTells(src, m, page')
  BY <1>2, <1>3, <1>6, Zenon DEF s
<1> QED
  BY <1>3, <1>7

(* A page of a list or of a diff keeps the invariant.                      *)
LEMMA AskGood ==
    ASSUME IInv, NEW limit \in Limits, NEW maxBytes \in ByteLimits, Ask(limit, maxBytes)
    PROVE  IInv'
<1>1. src' = src /\ src \in Sources /\ ReadOn /\ src.kind # "log" /\ rest' = rest /\ log' = log /\ status' = status
      /\ call' = call /\ scan' = scan /\ cursor' = page'.next /\ got' = got \o page'.items
      /\ phase' = IF page'.more THEN "open" ELSE "done"
  BY DEF Ask, IInv, ReadOn
<1>2. BaseInv /\ ListInv /\ DiffInv
  BY <1>1 DEF IInv
<1>3. BaseInv'
  BY <1>1, <1>2 DEF BaseInv
<1>4. CASE src.kind \in ListKinds
  <2>1. ListPage(page', src.sizes, cursor)
    BY <1>4, AskList
  <2>2. call = Idle /\ log = <<>> /\ cursor \in 0 .. Len(src.sizes) /\ got = Span(0, cursor)
    BY <1>2, <1>4 DEF ListInv
  <2>3. PICK k \in Nat : k <= Len(src.sizes) - cursor /\ page'.items = Span(cursor, k) /\ page'.next = cursor + k
    BY <2>1 DEF ListPage
  <2>4. src.sizes \in Seq(Nat) /\ src.kind # "diff"
    BY <1>1, <1>4, SourceKinds
  <2>5. cursor' \in 0 .. Len(src.sizes)
    BY <1>1, <2>2, <2>3, <2>4
  <2>6. got' = Span(0, cursor')
    <3>1. cursor \in Nat
      BY <2>2
    <3>2. Span(0, cursor) \o Span(cursor, k) = Span(0, cursor + k)
      BY <3>1, SpansJoin
    <3> QED
      BY <1>1, <2>2, <2>3, <3>2, Zenon
  <2>7. ListInv'
    BY <1>1, <2>2, <2>5, <2>6 DEF ListInv, Idle
  <2>8. DiffInv' /\ LogInv'
    BY <1>1, <2>4 DEF DiffInv, LogInv
  <2> QED
    BY <1>1, <1>3, <2>7, <2>8 DEF IInv
<1>5. CASE src.kind = "diff"
  <2>1. PICK m \in 0 .. Len(src.chars) :
               cursor = Size(src.chars, 0, m) /\ got = Span(0, m) /\ DiffTells(src, m, page')
    BY <1>5, AskDiff
  <2>2. call = Idle /\ log = <<>>
    BY <1>2, <1>5 DEF DiffInv
  <2>3. PICK k \in Nat : k <= Len(src.chars) - m /\ page'.items = Span(m, k) /\ page'.next = Size(src.chars, 0, m + k)
    BY <2>1 DEF DiffTells
  <2>4. src.chars \in Seq({1, 2}) /\ src.kind \notin ListKinds
    BY <1>1, <1>5, SourceKinds DEF ListKinds
  <2>5. m + k \in 0 .. Len(src.chars) /\ m \in Nat
    BY <2>3, <2>4
  <2>6. got' = Span(0, m + k) /\ cursor' = Size(src.chars, 0, m + k)
    <3>1. Span(0, m) \o Span(m, k) = Span(0, m + k)
      BY <2>5, SpansJoin
    <3> QED
      BY <1>1, <2>1, <2>3, <3>1, Zenon
  <2>7. DiffInv'
    <3>1. \E n \in 0 .. Len(src.chars) : cursor' = Size(src.chars, 0, n) /\ got' = Span(0, n)
      BY <2>5, <2>6
    <3> QED
      BY <1>1, <2>2, <3>1 DEF DiffInv, Idle
  <2>8. ListInv' /\ LogInv'
    BY <1>1, <2>4 DEF ListInv, LogInv, ListKinds
  <2> QED
    BY <1>1, <1>3, <2>7, <2>8 DEF IInv
<1> QED
  BY <1>1, <1>4, <1>5, SourceKinds

-----------------------------------------------------------------------------
(* The steps of a log and of those who read it.                            *)

LogParts ==
    /\ log \in Seq(Bytes) /\ Len(log) <= LogLimit /\ cursor \in 0 .. Len(log) /\ got \in Seq(Units)
    /\ phase = "open" => Expands(log, cursor, got)

(* It is enough that the parts of a log are kept.                          *)
LEMMA LogKept ==
    ASSUME IInv, src.kind = "log", src' = src, rest' = rest, scan' = scan,
           phase' \in {"open", "done"}, status' \in {"running", "over"}, LogParts', CallInv'
    PROVE  IInv'
<1>1. src \in Sources /\ ReadOn /\ BaseInv
  BY DEF IInv, ReadOn
<1>2. BaseInv'
  BY <1>1 DEF BaseInv
<1>3. src'.kind = "log" /\ src'.kind \notin ListKinds
  BY DEF ListKinds
<1>4. ListInv' /\ DiffInv'
  BY <1>3 DEF ListInv, DiffInv
<1>5. LogInv'
  BY DEF LogInv, LogParts
<1> QED
  BY <1>1, <1>2, <1>4, <1>5 DEF IInv

(* What the invariant says of a log.                                       *)
LEMMA LogThere ==
    ASSUME IInv, src.kind = "log"
    PROVE  /\ src \in Sources /\ src.leftover \in BOOLEAN /\ LogParts /\ CallInv
           /\ phase \in {"open", "done"} /\ status \in {"running", "over"}
<1>1. src \in Sources /\ ReadOn /\ BaseInv /\ LogInv
  BY DEF IInv, ReadOn
<1>2. src.leftover \in BOOLEAN
  BY <1>1, SourceKinds
<1>3. LogParts /\ CallInv
  BY <1>1 DEF LogInv, LogParts
<1>4. phase \in {"open", "done"} /\ status \in {"running", "over"}
  BY <1>1 DEF BaseInv
<1> QED
  BY <1>1, <1>2, <1>3, <1>4

(* A byte more.                                                            *)
LEMMA Appended ==
    ASSUME NEW S, NEW s \in Seq(S), NEW b \in S
    PROVE  Append(s, b) = s \o <<b>> /\ <<b>> \in Seq(S) /\ Len(Append(s, b)) = Len(s) + 1
OBVIOUS

(* A byte that the job writes while it is read keeps the invariant: it is  *)
(* part of what is yet to be read.                                         *)
LEMMA WriteGood ==
    ASSUME IInv, NEW byte \in Bytes, Write(byte)
    PROVE  IInv'
<1>1. src.kind = "log" /\ Len(log) < LogLimit /\ (status = "running" \/ src.leftover)
      /\ log' = Append(log, byte) /\ src' = src /\ cursor' = cursor /\ got' = got /\ rest' = rest
      /\ phase' = phase /\ status' = status /\ call' = call /\ scan' = scan
  BY DEF Write
<1>2. src.leftover \in BOOLEAN /\ LogParts /\ CallInv /\ phase \in {"open", "done"} /\ status \in {"running", "over"}
  BY <1>1, LogThere
<1>3. log \in Seq(Bytes) /\ cursor \in 0 .. Len(log) /\ Len(log) \in Nat /\ LogLimit \in Nat
  BY <1>2, ReadingAssumption DEF LogParts
<1> DEFINE one == <<byte>>
<1>4. log' = log \o one /\ one \in Seq(Bytes) /\ Len(log') = Len(log) + 1 /\ log' \in Seq(Bytes)
  <2>1. Append(log, byte) = log \o <<byte>> /\ <<byte>> \in Seq(Bytes) /\ Len(Append(log, byte)) = Len(log) + 1
    BY <1>3, Appended
  <2>2. Append(log, byte) \in Seq(Bytes)
    BY <1>3
  <2> QED
    BY <1>1, <2>1, <2>2
<1> HIDE DEF one
<1>5. Drop(log', cursor) = Drop(log, cursor) \o one
  BY <1>3, <1>4, DropExtended
<1>6. Drop(log, cursor) \in Seq(Bytes)
  <2>1. DropTells(Bytes, log, cursor)
    BY <1>3, Dropped
  <2> QED
    BY <2>1 DEF DropTells
<1>7. phase = "open" => Expands(log', cursor, got)
  <2> SUFFICES ASSUME phase = "open", NEW ext \in Seq(Bytes)
               PROVE  UnitsOf(log' \o ext, TRUE).units = got \o UnitsOf(Drop(log', cursor) \o ext, TRUE).units
    BY DEF Expands
  <2> DEFINE more == one \o ext
  <2>1. more \in Seq(Bytes)
    BY <1>4
  <2>2. JoinTells(Bytes, log, one, ext) /\ JoinTells(Bytes, Drop(log, cursor), one, ext)
    BY <1>3, <1>4, <1>6, Joined
  <2>3. log \o more = log' \o ext /\ Drop(log, cursor) \o more = Drop(log', cursor) \o ext
    BY <1>4, <1>5, <2>2, Zenon DEF JoinTells
  <2> HIDE DEF more
  <2>4. Expands(log, cursor, got)
    BY <1>2 DEF LogParts
  <2>5. UnitsOf(log \o more, TRUE).units = got \o UnitsOf(Drop(log, cursor) \o more, TRUE).units
    BY <2>1, <2>4 DEF Expands
  <2> QED
    BY <2>3, <2>5, Zenon
<1>8. LogParts'
  <2>1. Len(log') <= LogLimit /\ cursor' \in 0 .. Len(log')
    BY <1>1, <1>3, <1>4
  <2>2. got' \in Seq(Units)
    BY <1>1, <1>2 DEF LogParts
  <2>3. phase' = "open" => Expands(log', cursor', got')
    BY <1>1, <1>7, Zenon
  <2> QED
    BY <1>4, <2>1, <2>2, <2>3 DEF LogParts
<1>9. CallInv'
  <2>1. call \in CallKind
    BY <1>2 DEF CallInv
  <2>2. call.size <= Len(log') /\ Len(call.raw) <= call.max
    <3>1. call.size <= Len(log) /\ Len(call.raw) <= call.max /\ call.size \in Nat
      BY <1>2 DEF CallInv, CallKind
    <3> QED
      BY <1>3, <1>4, <3>1
  <2>3. ~ (call.terminal /\ ~ src.leftover)
    BY <1>1, <1>2 DEF CallInv
  <2>4. call.at = "answer" => \E tail \in Seq(Bytes) : Drop(log', cursor) = call.raw \o tail
    <3> SUFFICES ASSUME call.at = "answer"
                 PROVE  \E tail \in Seq(Bytes) : Drop(log', cursor) = call.raw \o tail
      OBVIOUS
    <3>1. PICK tail \in Seq(Bytes) : Drop(log, cursor) = call.raw \o tail
      BY <1>2 DEF CallInv
    <3>2. call.raw \in Seq(Bytes)
      BY <2>1 DEF CallKind
    <3>3. JoinTells(Bytes, call.raw, tail, one)
      BY <1>4, <3>2, Joined
    <3>4. Drop(log', cursor) = call.raw \o (tail \o one)
      BY <1>5, <3>1, <3>3, Zenon DEF JoinTells
    <3>5. tail \o one \in Seq(Bytes)
      BY <1>4
    <3> QED
      BY <3>4, <3>5
  <2> QED
    BY <1>1, <1>2, <2>1, <2>2, <2>3, <2>4 DEF CallInv
<1> QED
  BY <1>1, <1>2, <1>8, <1>9, LogKept

(* The end of the job keeps the invariant.                                 *)
LEMMA JobEndsGood ==
    ASSUME IInv, JobEnds
    PROVE  IInv'
<1>1. src.kind = "log" /\ status' = "over" /\ log' = log /\ src' = src /\ cursor' = cursor /\ got' = got /\ rest' = rest
      /\ phase' = phase /\ call' = call /\ scan' = scan
  BY DEF JobEnds
<1>2. LogParts /\ CallInv /\ phase \in {"open", "done"}
  BY <1>1, LogThere
<1>3. LogParts'
  BY <1>1, <1>2 DEF LogParts, Expands
<1>4. CallInv'
  BY <1>1, <1>2 DEF CallInv
<1> QED
  BY <1>1, <1>2, <1>3, <1>4, LogKept

(* A step of a call leaves the log alone.                                  *)
LEMMA CallKeeps ==
    ASSUME IInv, src.kind = "log", CallInv',
           UNCHANGED <<src, cursor, got, rest, page, phase, log, status, scan>>
    PROVE  IInv'
<1>1. LogParts /\ phase \in {"open", "done"} /\ status \in {"running", "over"}
  BY LogThere
<1>2. LogParts'
  BY <1>1 DEF LogParts, Expands
<1> QED
  BY <1>1, <1>2, LogKept

(* A call of job_output begins with nothing read.                          *)
LEMMA AskLogGood ==
    ASSUME IInv, NEW maxBytes \in ByteLimits, AskLog(maxBytes)
    PROVE  IInv'
<1>1. src.kind = "log" /\ phase = "open" /\ call.at = "idle"
      /\ call' = [Idle EXCEPT !.at = "status", !.max = maxBytes]
      /\ UNCHANGED <<src, cursor, got, rest, page, phase, log, status, scan>>
  BY DEF AskLog
<1>2. LogParts
  BY <1>1, LogThere
<1>3. /\ call'.at = "status" /\ call'.max = maxBytes /\ call'.terminal = FALSE /\ call'.size = 0
      /\ call'.raw = <<>> /\ call' \in CallKind
  <2>1. call' = [at |-> "status", max |-> maxBytes, terminal |-> FALSE, size |-> 0, raw |-> <<>>]
    BY <1>1 DEF Idle
  <2> QED
    BY <2>1 DEF CallKind
<1>4. maxBytes \in Nat /\ Len(log) \in Nat
  BY <1>2, ReadingAssumption DEF LogParts
<1>5. CallInv'
  <2>1. call'.size <= Len(log') /\ Len(call'.raw) <= call'.max
    BY <1>1, <1>3, <1>4
  <2> QED
    BY <1>1, <1>3, <2>1 DEF CallInv
<1> QED
  BY <1>1, <1>5, CallKeeps

(* Only a log has calls in progress.                                       *)
LEMMA CallOfLog ==
    ASSUME IInv, ReadOn, call.at # "idle"
    PROVE  src.kind = "log"
<1>1. src \in Sources /\ ListInv /\ DiffInv
  BY DEF IInv
<1>2. src.kind \in ListKinds \cup {"diff", "log"}
  BY <1>1, SourceKinds
<1>3. src.kind \notin ListKinds /\ src.kind # "diff"
  BY <1>1 DEF ListInv, DiffInv, Idle
<1> QED
  BY <1>2, <1>3

(* The status that a call reads is over only when the job is.              *)
LEMMA ReadStatusGood ==
    ASSUME IInv, src.kind = "log", ReadStatus
    PROVE  IInv'
<1>1. call.at = "status" /\ call' = [call EXCEPT !.at = "size", !.terminal = status = "over"]
      /\ UNCHANGED <<src, cursor, got, rest, page, phase, log, status, scan>>
  BY DEF ReadStatus
<1>2. CallInv
  BY LogThere
<1>3. /\ call'.at = "size" /\ call'.max = call.max /\ call'.terminal = (status = "over") /\ call'.size = call.size
      /\ call'.raw = call.raw /\ call' \in CallKind
  BY <1>1, <1>2 DEF CallInv, CallKind
<1>4. CallInv'
  BY <1>1, <1>2, <1>3 DEF CallInv
<1> QED
  BY <1>1, <1>4, CallKeeps

(* The size that a call reads is that of the log, for good when the job    *)
(* was over before and left nobody behind.                                 *)
LEMMA ReadSizeGood ==
    ASSUME IInv, src.kind = "log", ReadSize
    PROVE  IInv'
<1>1. call.at = "size" /\ call' = [call EXCEPT !.at = "bytes", !.size = Len(log)]
      /\ UNCHANGED <<src, cursor, got, rest, page, phase, log, status, scan>>
  BY DEF ReadSize
<1>2. CallInv /\ LogParts
  BY LogThere
<1>3. Len(log) \in Nat /\ cursor <= Len(log) /\ Len(log) <= Len(log)
  BY <1>2 DEF LogParts
<1>4. /\ call'.at = "bytes" /\ call'.max = call.max /\ call'.terminal = call.terminal /\ call'.size = Len(log)
      /\ call'.raw = call.raw /\ call' \in CallKind
  BY <1>1, <1>2, <1>3 DEF CallInv, CallKind
<1>5. CallInv'
  BY <1>1, <1>2, <1>3, <1>4 DEF CallInv
<1> QED
  BY <1>1, <1>5, CallKeeps

(* A sequence in two.                                                      *)
SplitTells(S, s, j, m) ==
    /\ Drop(s, j) = SubSeq(s, j + 1, j + m) \o Drop(s, j + m)
    /\ SubSeq(s, j + 1, j + m) \in Seq(S) /\ Len(SubSeq(s, j + 1, j + m)) = m /\ Drop(s, j + m) \in Seq(S)

(* A sequence is a part of it and what remains, at any place.              *)
LEMMA Split ==
    ASSUME NEW S, NEW s \in Seq(S), NEW j \in Nat, NEW m \in Nat, j + m <= Len(s)
    PROVE  SplitTells(S, s, j, m)
<1> DEFINE a == SubSeq(s, j + 1, j + m)
           d == Drop(s, j + m)
           x == Drop(s, j)
           y == a \o d
           n == Len(s) - j
<1>1. Len(s) \in Nat /\ j \in 0 .. Len(s) /\ j + m \in 0 .. Len(s) /\ n \in Nat
  OBVIOUS
<1>2. DropTells(S, s, j) /\ DropTells(S, s, j + m)
  BY <1>1, Dropped
<1>3. x \in Seq(S) /\ Len(x) = n /\ \A i \in 1 .. n : x[i] = s[j + i]
  BY <1>2 DEF DropTells
<1>4. d \in Seq(S) /\ Len(d) = Len(s) - (j + m) /\ \A i \in 1 .. Len(s) - (j + m) : d[i] = s[(j + m) + i]
  BY <1>2 DEF DropTells
<1>5. a \in Seq(S) /\ Len(a) = m /\ \A i \in 1 .. m : a[i] = s[j + i]
  <2>1. j + 1 \in 1 .. Len(s) + 1 /\ j + m \in Nat
    BY <1>1
  <2> QED
    BY <1>1, <2>1
<1> HIDE DEF a, d, x
<1>6. y \in Seq(S) /\ Len(y) = Len(a) + Len(d)
  <2>1. a \in Seq(S) /\ d \in Seq(S)
    BY <1>4, <1>5
  <2> QED
    BY ONLY <2>1 DEF y
<1>7. /\ \A i \in 1 .. Len(a) : y[i] = a[i]
      /\ \A i \in 1 .. Len(d) : y[Len(a) + i] = d[i]
  <2>1. a \in Seq(S) /\ d \in Seq(S)
    BY <1>4, <1>5
  <2> QED
    BY ONLY <2>1 DEF y
<1> HIDE DEF y
<1>8. Len(y) = n
  BY <1>1, <1>4, <1>5, <1>6
<1>9. ASSUME NEW i \in 1 .. n
      PROVE  x[i] = y[i]
  <2>1. x[i] = s[j + i]
    BY <1>3
  <2>2. CASE i <= m
    <3>1. i \in 1 .. Len(a) /\ i \in 1 .. m
      BY <1>5, <2>2
    <3> QED
      BY <1>5, <1>7, <2>1, <3>1
  <2>3. CASE ~ (i <= m)
    <3> DEFINE k == i - m
    <3>1. k \in 1 .. Len(d) /\ k \in 1 .. Len(s) - (j + m) /\ Len(a) + k = i /\ (j + m) + k = j + i
      BY <1>1, <1>4, <1>5, <2>3
    <3> HIDE DEF k
    <3>2. y[Len(a) + k] = d[k] /\ d[k] = s[(j + m) + k]
      BY <1>4, <1>7, <3>1
    <3> QED
      BY <2>1, <3>1, <3>2, Zenon
  <2> QED
    BY <2>2, <2>3
<1> HIDE DEF n
<1>10. x = y
  BY <1>1, <1>3, <1>6, <1>8, <1>9, SeqEqual
<1> QED
  BY <1>4, <1>5, <1>10 DEF SplitTells, x, y, a, d

(* The bytes that a call reads are the next ones of the log.               *)
LEMMA ReadBytesGood ==
    ASSUME IInv, src.kind = "log", ReadBytes
    PROVE  IInv'
<1> DEFINE m == Min({call.max, call.size - cursor})
           a == SubSeq(log, cursor + 1, cursor + m)
<1>1. call.at = "bytes" /\ call' = [call EXCEPT !.at = "answer", !.raw = a]
      /\ UNCHANGED <<src, cursor, got, rest, page, phase, log, status, scan>>
  BY DEF ReadBytes
<1>2. CallInv /\ LogParts
  BY LogThere
<1>3. /\ call \in CallKind /\ call.max \in ByteLimits /\ cursor <= call.size /\ call.size <= Len(log)
      /\ call.size \in Nat /\ cursor \in Nat /\ log \in Seq(Bytes) /\ Len(log) \in Nat /\ call.max \in Nat
  <2>1. call \in CallKind /\ call.max \in ByteLimits /\ cursor <= call.size /\ call.size <= Len(log)
    BY <1>1, <1>2 DEF CallInv
  <2>2. call.size \in Nat
    BY <2>1 DEF CallKind
  <2>3. cursor \in Nat /\ log \in Seq(Bytes) /\ Len(log) \in Nat
    BY <1>2 DEF LogParts
  <2> QED
    BY <2>1, <2>2, <2>3, ReadingAssumption
<1>4. m \in Nat /\ m <= call.max /\ cursor + m <= Len(log)
  <2> DEFINE x == call.max
             z == call.size - cursor
  <2>1. x \in Int /\ z \in Int /\ x \in Nat /\ z \in Nat
    BY <1>3
  <2> HIDE DEF x, z
  <2>2. Min({x, z}) = IF x <= z THEN x ELSE z
    BY <2>1, SmallerOf
  <2> DEFINE w == Min({x, z})
  <2>3. w = IF x <= z THEN x ELSE z
    BY <2>2
  <2> HIDE DEF w
  <2>4. w \in Nat /\ w <= x /\ w <= z
    BY <2>1, <2>3
  <2>5. cursor + w <= Len(log)
    BY <1>3, <2>4 DEF z
  <2> QED
    BY <2>4, <2>5 DEF w, x, z
<1> HIDE DEF m
<1>5. SplitTells(Bytes, log, cursor, m)
  BY <1>3, <1>4, Split
<1>6. Drop(log, cursor) = a \o Drop(log, cursor + m) /\ a \in Seq(Bytes) /\ Len(a) = m /\ Drop(log, cursor + m) \in Seq(Bytes)
  BY <1>5 DEF SplitTells
<1> HIDE DEF a
<1>7. /\ call'.at = "answer" /\ call'.max = call.max /\ call'.terminal = call.terminal /\ call'.size = call.size
      /\ call'.raw = a /\ call' \in CallKind
  BY <1>1, <1>3, <1>6 DEF CallKind
<1>8. CallInv'
  <2>1. Len(call'.raw) <= call'.max
    BY <1>4, <1>6, <1>7
  <2>2. Len(call'.raw) = Min({call'.max, call'.size - cursor'})
    BY <1>1, <1>6, <1>7, Zenon DEF m
  <2>3. \E tail \in Seq(Bytes) : Drop(log', cursor') = call'.raw \o tail
    BY <1>1, <1>6, <1>7
  <2> QED
    BY <1>1, <1>2, <1>7, <2>1, <2>2, <2>3 DEF CallInv
<1> QED
  BY <1>1, <1>8, CallKeeps

-----------------------------------------------------------------------------
(* The answer of job_output: what it adds to what has been read, whether   *)
(* the reader goes on, and what it tells him where it adds nothing.        *)
AnswerTells ==
    /\ log' = log /\ src' = src /\ cursor' \in 0 .. Len(log) /\ got' \in Seq(Units)
    /\ phase' = "open" => Expands(log, cursor', got')
    /\ phase' = "done" => got' = UnitsOf(log, TRUE).units
    /\ page'.more => \/ page'.next > cursor
                     \/ ~ Readily /\ (call.size > cursor => page'.note = "minimum_max_bytes")

(* An answer of job_output does so whatever happened since the call began. *)
LEMMA AnswerTold ==
    ASSUME IInv, src.kind = "log", Answer
    PROVE  AnswerTells
<1> DEFINE L == Len(log)
           raw == call.raw
           r == Len(raw)
           final == call.terminal /\ cursor + r >= L
           p == page'
           rem == Drop(log, cursor)
<1>1. /\ call.at = "answer" /\ p = LogPage(cursor, raw, final, L, Room)
      /\ cursor' = p.next /\ got' = got \o p.items
      /\ phase' = IF p.next = L /\ call.terminal THEN "done" ELSE "open"
      /\ src' = src /\ log' = log
  BY DEF Answer, AnswerWith, LogAnswer
<1>2. CallInv /\ LogParts /\ src.leftover \in BOOLEAN
  BY LogThere
<1>3. /\ call.max \in Nat /\ call.max >= 1 /\ call.size \in Nat /\ call.size <= L /\ raw \in Seq(Bytes) /\ r \in Nat
      /\ call.terminal \in BOOLEAN /\ phase = "open" /\ cursor <= call.size
      /\ call.terminal /\ ~ src.leftover => call.size = L
      /\ r = Min({call.max, call.size - cursor})
  <2>1. call \in CallKind /\ call.max \in ByteLimits
    BY <1>1, <1>2 DEF CallInv
  <2>2. call.max \in Nat /\ call.max >= 1
    <3>1. call.max \in Nat \ {0}
      BY <2>1, ReadingAssumption
    <3> QED
      BY <3>1
  <2>3. call.size \in Nat /\ raw \in Seq(Bytes) /\ call.terminal \in BOOLEAN
    BY <2>1 DEF CallKind
  <2>4. r \in Nat
    BY <2>3
  <2> QED
    BY <1>1, <1>2, <2>2, <2>3, <2>4 DEF CallInv
<1>4. log \in Seq(Bytes) /\ L \in Nat /\ cursor \in Nat /\ cursor <= L /\ got \in Seq(Units) /\ Expands(log, cursor, got)
  BY <1>2, <1>3 DEF LogParts
<1>5. PICK tail \in Seq(Bytes) : rem = raw \o tail
  BY <1>1, <1>2 DEF CallInv
<1>6. r + Len(tail) = L - cursor /\ Len(tail) \in Nat
  <2>1. DropTells(Bytes, log, cursor)
    BY <1>4, Dropped
  <2>2. Len(rem) = L - cursor
    BY <2>1 DEF DropTells
  <2> HIDE DEF rem, raw
  <2>3. Len(raw \o tail) = Len(raw) + Len(tail) /\ Len(tail) \in Nat
    <3>1. raw \in Seq(Bytes) /\ tail \in Seq(Bytes)
      BY <1>3
    <3> QED
      BY ONLY <3>1
  <2> QED
    BY <1>5, <2>2, <2>3, Zenon
<1>7. final \in BOOLEAN
  BY <1>3
<1> HIDE DEF L, r, final
<1>8. PICK k \in Nat : LogTells(LogPage(cursor, raw, final, L, Room), cursor, raw, final, L, k)
  <2> HIDE DEF raw
  <2> QED
    BY <1>3, <1>4, <1>7, LogTold
<1>9. LogTells(p, cursor, raw, final, L, k)
  BY <1>1, <1>8, Zenon
<1>10. /\ k \in Nat /\ k <= r /\ p.next = cursor + k /\ p.more = (cursor + k < L) /\ p.items \in Seq(Units)
       /\ \A more \in Seq(Bytes) : GoesOn(raw, k, p.items, final, more)
       /\ k = 0 /\ r > 0 => r = 1 /\ ~ final /\ p.note = "minimum_max_bytes"
  BY <1>9 DEF LogTells, r
<1>11. final => Len(tail) = 0 /\ tail = <<>>
  <2> SUFFICES ASSUME final
               PROVE  Len(tail) = 0
    BY <1>5
  <2>1. cursor + r >= L
    BY DEF final
  <2> QED
    BY <1>3, <1>4, <1>6, <2>1
<1> HIDE DEF p, raw
<1>12. got' \in Seq(Units) /\ cursor' = cursor + k
  <2>1. got \o p.items \in Seq(Units)
    <3>1. got \in Seq(Units) /\ p.items \in Seq(Units)
      BY <1>4, <1>10
    <3> QED
      BY ONLY <3>1
  <2> QED
    BY <1>1, <1>10, <2>1
<1>13. cursor' \in 0 .. L
  <2>1. cursor + k <= L
    BY <1>3, <1>4, <1>6, <1>10
  <2> QED
    BY <1>4, <1>10, <1>12, <2>1
<1>14. ASSUME NEW ext \in Seq(Bytes), ~ final \/ k < r \/ tail \o ext = <<>>
       PROVE  UnitsOf(log \o ext, TRUE).units = got' \o UnitsOf(Drop(log, cursor') \o ext, TRUE).units
  <2> DEFINE more == tail \o ext
             d == Drop(raw, k)
             v == UnitsOf(d \o more, TRUE).units
  <2>1. more \in Seq(Bytes)
    <3>1. tail \in Seq(Bytes) /\ ext \in Seq(Bytes)
      OBVIOUS
    <3> QED
      BY ONLY <3>1
  <2>2. d \in Seq(Bytes)
    <3>1. k \in 0 .. Len(raw)
      BY <1>3, <1>10 DEF r
    <3>2. DropTells(Bytes, raw, k)
      BY <1>3, <3>1, Dropped
    <3> QED
      BY <3>2 DEF DropTells
  <2>3. rem \o ext = raw \o more
    <3>1. JoinTells(Bytes, raw, tail, ext)
      BY <1>3, Joined
    <3> QED
      BY <1>5, <3>1, Zenon DEF JoinTells
  <2>4. UnitsOf(log \o ext, TRUE).units = got \o UnitsOf(rem \o ext, TRUE).units
    BY <1>4 DEF Expands
  <2>5. UnitsOf(raw \o more, TRUE).units = p.items \o v
    <3>1. GoesOn(raw, k, p.items, final, more)
      BY <1>10, <2>1
    <3>2. ~ final \/ k < Len(raw) \/ more = <<>>
      BY <1>14 DEF r
    <3> HIDE DEF more
    <3> QED
      BY <3>1, <3>2, Zenon DEF GoesOn
  <2>6. Drop(log, cursor') = d \o tail
    <3>1. Drop(Drop(log, cursor), k) = Drop(log, cursor + k)
      <4>1. cursor \in Nat /\ k \in Nat /\ cursor + k <= Len(log)
        BY <1>4, <1>10, <1>12, <1>13 DEF L
      <4> QED
        BY <1>4, <4>1, DropsAdd
    <3>2. Drop(raw \o tail, k) = d \o tail
      <4>1. k \in 0 .. Len(raw)
        BY <1>3, <1>10 DEF r
      <4> QED
        BY <1>3, <4>1, DropExtended
    <3> QED
      BY <1>5, <1>12, <3>1, <3>2, Zenon
  <2>7. Drop(log, cursor') \o ext = d \o more
    <3> HIDE DEF d
    <3>1. JoinTells(Bytes, d, tail, ext)
      BY <2>2, Joined
    <3> QED
      BY <2>6, <3>1, Zenon DEF JoinTells
  <2>8. v \in Seq(Units)
    <3> HIDE DEF d, more
    <3>1. d \o more \in Seq(Bytes)
      BY ONLY <2>1, <2>2
    <3> QED
      BY <3>1, UnitsTyped DEF Decodings
  <2>9. got \o (p.items \o v) = (got \o p.items) \o v
    <3> HIDE DEF v
    <3>1. JoinTells(Units, got, p.items, v)
      BY <1>4, <1>10, <2>8, Joined
    <3> QED
      BY <3>1, Zenon DEF JoinTells
  <2> HIDE DEF d, more, rem
  <2>10. got' = got \o p.items
    BY <1>1
  <2> QED
    BY <2>3, <2>4, <2>5, <2>7, <2>9, <2>10, Zenon
<1>15. phase' = "open" => Expands(log, cursor', got')
  <2> SUFFICES ASSUME phase' = "open"
               PROVE  Expands(log, cursor', got')
    OBVIOUS
  <2>1. ~ final \/ k < r
    <3> SUFFICES ASSUME final, ~ (k < r)
                 PROVE  FALSE
      OBVIOUS
    <3>1. k = r /\ Len(tail) = 0
      BY <1>3, <1>10, <1>11
    <3>2. cursor + k = L
      BY <1>3, <1>4, <1>6, <3>1
    <3>3. call.terminal
      BY DEF final
    <3>4. phase' = "done"
      BY <1>1, <1>10, <3>2, <3>3
    <3> QED
      BY <3>4
  <2> QED
    BY <1>14, <2>1 DEF Expands
<1>16. phase' = "done" => got' = UnitsOf(log, TRUE).units
  <2> SUFFICES ASSUME phase' = "done"
               PROVE  got' = UnitsOf(log, TRUE).units
    OBVIOUS
  <2>1. cursor + k = L
    BY <1>1, <1>10
  <2>2. Len(tail) = 0
    BY <1>3, <1>4, <1>6, <1>10, <2>1
  <2>3. tail = <<>> /\ <<>> \in Seq(Bytes)
    BY <1>5, <2>2
  <2>4. tail \o <<>> = <<>>
    BY <2>3
  <2>5. UnitsOf(log \o <<>>, TRUE).units = got' \o UnitsOf(Drop(log, cursor') \o <<>>, TRUE).units
    BY <1>14, <2>3, <2>4
  <2> DEFINE d == Drop(log, cursor')
  <2>6. d \in Seq(Bytes) /\ Len(d) = 0
    <3>1. cursor' = Len(log) /\ cursor' \in 0 .. Len(log)
      BY <1>12, <1>13, <2>1 DEF L
    <3> DEFINE c == cursor'
    <3> HIDE DEF c
    <3>2. c = Len(log) /\ c \in 0 .. Len(log)
      BY <3>1 DEF c
    <3>3. DropTells(Bytes, log, c)
      BY <1>4, <3>2, Dropped
    <3>4. Drop(log, c) \in Seq(Bytes) /\ Len(Drop(log, c)) = Len(log) - c
      BY <3>3 DEF DropTells
    <3>5. Len(log) - c = 0
      BY <1>4, <3>2 DEF L
    <3> QED
      BY <3>4, <3>5 DEF c
  <2> HIDE DEF d
  <2>7. d \o <<>> = <<>>
    BY <2>6
  <2>8. log \o <<>> = log
    BY <1>4
  <2>9. UnitsOf(<<>>, TRUE).units = <<>>
    <3> DEFINE b == <<>>
    <3>1. b \in Seq(Bytes) /\ Len(b) = 0
      OBVIOUS
    <3> HIDE DEF b
    <3>2. \A u : ~ Begins(b, TRUE, u)
      BY <3>1 DEF Begins
    <3>3. UnitsOf(b, TRUE).units = <<>>
      BY <3>1, <3>2, NoUnit
    <3> QED
      BY <3>3 DEF b
  <2>10. got' \o <<>> = got'
    <3> DEFINE g == got'
    <3>1. g \in Seq(Units)
      BY <1>12
    <3> HIDE DEF g
    <3>2. g \o <<>> = g
      BY <3>1
    <3> QED
      BY <3>2 DEF g
  <2> QED
    BY <2>5, <2>7, <2>8, <2>9, <2>10, Zenon DEF d
<1>17. p.more => \/ p.next > cursor
                 \/ ~ Readily /\ (call.size > cursor => p.note = "minimum_max_bytes")
  <2>1. CASE k # 0
    <3>1. cursor + k > cursor
      BY <1>4, <1>10, <2>1
    <3> QED
      BY <1>10, <3>1
  <2>2. CASE k = 0
    <3>1. Readily = (call.terminal /\ ~ src.leftover /\ call.max >= 2 /\ call.size > cursor)
      BY DEF Readily
    <3> DEFINE x == call.max
               z == call.size - cursor
    <3>2. x \in Int /\ z \in Int /\ z \in Nat /\ x >= 1 /\ x \in Nat
      BY <1>3, <1>4
    <3>3. r = IF x <= z THEN x ELSE z
      <4> HIDE DEF x, z
      <4>1. Min({x, z}) = IF x <= z THEN x ELSE z
        BY <3>2, SmallerOf
      <4> QED
        BY <1>3, <4>1, Zenon DEF x, z
    <3>4. CASE r = 0
      <4>1. ~ (call.size > cursor)
        <5> HIDE DEF x, z
        <5>1. z = 0
          BY ONLY <3>2, <3>3, <3>4
        <5>2. call.size - cursor = 0
          BY <5>1 DEF z
        <5> DEFINE q == call.size
        <5>3. q \in Nat /\ cursor \in Nat /\ q - cursor = 0
          BY <1>3, <1>4, <5>2
        <5> HIDE DEF q
        <5>4. ~ (q > cursor)
          BY ONLY <5>3
        <5> QED
          BY <5>4 DEF q
      <4> QED
        BY <3>1, <4>1
    <3>5. CASE r # 0
      <4>1. r = 1 /\ ~ final /\ p.note = "minimum_max_bytes"
        BY <1>3, <1>10, <2>2, <3>5
      <4>2. ~ Readily
        <5> SUFFICES ASSUME Readily
                     PROVE  FALSE
          OBVIOUS
        <5>1. call.terminal /\ ~ src.leftover /\ call.max >= 2 /\ call.size > cursor
          BY <3>1
        <5>2. call.size = L
          BY <1>3, <5>1
        <5>3. call.size - cursor = 1
          <6> HIDE DEF x, z
          <6>1. x >= 2
            BY <5>1 DEF x
          <6>2. z = 1
            BY <3>2, <3>3, <4>1, <6>1
          <6> QED
            BY <6>2 DEF z
        <5>4. cursor + r >= L
          BY <1>3, <1>4, <4>1, <5>2, <5>3
        <5> QED
          BY <4>1, <5>1, <5>4 DEF final
      <4> QED
        BY <4>1, <4>2
    <3> QED
      BY <3>4, <3>5
  <2> QED
    BY <2>1, <2>2
<1> QED
  BY <1>1, <1>12, <1>13, <1>15, <1>16, <1>17 DEF AnswerTells, L, p

(* An answer of job_output keeps the invariant.                            *)
LEMMA AnswerGood ==
    ASSUME IInv, src.kind = "log", Answer
    PROVE  IInv'
<1>1. /\ rest' = rest /\ status' = status /\ scan' = scan /\ call' = Idle /\ src' = src /\ log' = log
      /\ phase' \in {"open", "done"}
  BY DEF Answer, AnswerWith
<1>2. LogParts /\ status \in {"running", "over"}
  BY LogThere
<1>3. AnswerTells
  BY AnswerTold
<1>4. LogParts'
  BY <1>1, <1>2, <1>3 DEF LogParts, AnswerTells, Expands
<1>5. CallInv'
  <2>1. Len(log) \in Nat
    BY <1>2 DEF LogParts
  <2>2. /\ call'.at = "idle" /\ call'.max = 0 /\ call'.terminal = FALSE /\ call'.size = 0
        /\ call'.raw = <<>> /\ call' \in CallKind
    BY <1>1 DEF Idle, CallKind
  <2>3. call'.size <= Len(log') /\ Len(call'.raw) <= call'.max
    BY <1>1, <2>1, <2>2
  <2> QED
    BY <2>2, <2>3 DEF CallInv
<1> QED
  BY <1>1, <1>2, <1>4, <1>5, LogKept

-----------------------------------------------------------------------------
(* Every step keeps the invariant.                                         *)

(* What is read otherwise is left aside.                                   *)
LEMMA LeftAside ==
    ASSUME IInv, ~ ReadOn, src' = src
    PROVE  IInv'
BY DEF IInv, ReadOn

(* What is read is never another.                                          *)
LEMMA StepKeepsSource ==
    ASSUME [Next]_vars
    PROVE  src' = src
<1>1. CASE UNCHANGED vars
  BY <1>1 DEF vars
<1>2. ASSUME NEW limit \in Limits, NEW maxBytes \in ByteLimits, Ask(limit, maxBytes)
      PROVE  src' = src
  BY <1>2 DEF Ask
<1>3. CASE AskBatch
  BY <1>3 DEF AskBatch
<1>4. ASSUME NEW file \in rest, NEW limit \in Limits, AskRest(file, limit)
      PROVE  src' = src
  BY <1>4 DEF AskRest
<1>5. ASSUME NEW byte \in Bytes, Write(byte)
      PROVE  src' = src
  BY <1>5 DEF Write
<1>6. CASE JobEnds
  BY <1>6 DEF JobEnds
<1>7. ASSUME NEW maxBytes \in ByteLimits, AskLog(maxBytes)
      PROVE  src' = src
  BY <1>7 DEF AskLog
<1>8. CASE CallStep
  BY <1>8 DEF CallStep, ReadStatus, ReadSize, ReadBytes, Answer, AnswerWith
<1>9. ASSUME NEW limit \in Limits, AskGrep(limit)
      PROVE  src' = src
  BY <1>9 DEF AskGrep
<1>10. CASE ScanStep
  BY <1>10 DEF ScanStep, ReadEvent, ReadMalformed, AnswerGrep
<1> QED
  BY <1>1, <1>2, <1>3, <1>4, <1>5, <1>6, <1>7, <1>8, <1>9, <1>10 DEF Next

(* A reader of one of these kinds takes no step of another.                *)
LEMMA StepsOfReaders ==
    ASSUME IInv, ReadOn, [Next]_vars
    PROVE  \/ UNCHANGED vars
           \/ \E limit \in Limits, maxBytes \in ByteLimits : Ask(limit, maxBytes)
           \/ src.kind = "log" /\ \/ \E byte \in Bytes : Write(byte)
                                  \/ JobEnds
                                  \/ \E maxBytes \in ByteLimits : AskLog(maxBytes)
                                  \/ ReadStatus \/ ReadSize \/ ReadBytes \/ Answer
<1>1. src.kind # "files" /\ src.kind # "grep" /\ scan = NoScan
  BY DEF ReadOn, IInv, BaseInv
<1>2. ~ AskBatch /\ ~ \E file \in rest, limit \in Limits : AskRest(file, limit)
  BY <1>1 DEF AskBatch, AskRest
<1>3. ~ \E limit \in Limits : AskGrep(limit)
  BY <1>1 DEF AskGrep
<1>4. ~ ScanStep
  <2>1. ~ scan.on
    BY <1>1 DEF NoScan
  <2> QED
    BY <2>1 DEF ScanStep, ReadEvent, ReadMalformed, AnswerGrep
<1>5. CallStep => src.kind = "log" /\ (ReadStatus \/ ReadSize \/ ReadBytes \/ Answer)
  <2> SUFFICES ASSUME CallStep
               PROVE  src.kind = "log" /\ (ReadStatus \/ ReadSize \/ ReadBytes \/ Answer)
    OBVIOUS
  <2>1. call.at # "idle"
    BY DEF CallStep, ReadStatus, ReadSize, ReadBytes, Answer, AnswerWith
  <2>2. src.kind = "log"
    BY <2>1, CallOfLog
  <2> QED
    BY <2>2 DEF CallStep
<1>6. (\E byte \in Bytes : Write(byte)) => src.kind = "log"
  BY DEF Write
<1>7. JobEnds => src.kind = "log"
  BY DEF JobEnds
<1>8. (\E maxBytes \in ByteLimits : AskLog(maxBytes)) => src.kind = "log"
  BY DEF AskLog
<1> QED
  BY <1>2, <1>3, <1>4, <1>5, <1>6, <1>7, <1>8, Zenon DEF Next

(* Every step keeps the invariant, whatever is read.                       *)
LEMMA NextGood ==
    ASSUME IInv, [Next]_vars
    PROVE  IInv'
<1>1. src' = src
  BY StepKeepsSource
<1>2. CASE ~ ReadOn
  BY <1>1, <1>2, LeftAside
<1>3. CASE ReadOn
  <2>1. CASE UNCHANGED vars
    BY <2>1 DEF vars, IInv, ReadOn, BaseInv, ListInv, DiffInv, LogInv, CallInv, Expands
  <2>2. ASSUME NEW limit \in Limits, NEW maxBytes \in ByteLimits, Ask(limit, maxBytes)
        PROVE  IInv'
    BY <2>2, AskGood
  <2>3. ASSUME src.kind = "log", NEW byte \in Bytes, Write(byte)
        PROVE  IInv'
    BY <2>3, WriteGood
  <2>4. CASE JobEnds
    BY <2>4, JobEndsGood
  <2>5. ASSUME NEW maxBytes \in ByteLimits, AskLog(maxBytes)
        PROVE  IInv'
    BY <2>5, AskLogGood
  <2>6. CASE src.kind = "log" /\ (ReadStatus \/ ReadSize \/ ReadBytes \/ Answer)
    BY <2>6, ReadStatusGood, ReadSizeGood, ReadBytesGood, AnswerGood
  <2> QED
    BY <1>3, <2>1, <2>2, <2>3, <2>4, <2>5, <2>6, StepsOfReaders
<1> QED
  BY <1>2, <1>3

(* The invariant holds of every behaviour.                                 *)
LEMMA AlwaysGood == Spec => []IInv
<1>1. Init => IInv
  BY InitGood
<1>2. IInv /\ [Next]_vars => IInv'
  BY NextGood
<1> QED
  BY <1>1, <1>2, PTL DEF Spec

-----------------------------------------------------------------------------
(* What it says of pages.                                                  *)

LEMMA SpanLength ==
    ASSUME NEW n \in Nat
    PROVE  Len(Span(0, n)) = n
BY DEF Span

(* Offsets and calls are of their kinds.                                   *)
LEMMA Typed ==
    ASSUME IInv, ReadOn
    PROVE  TypeOK
<1>1. src \in Sources /\ BaseInv /\ ListInv /\ DiffInv /\ LogInv
  BY DEF IInv
<1>2. src.kind \in ListKinds \cup {"diff", "log"}
  BY <1>1, SourceKinds
<1>3. /\ \A file \in rest : file.next \in 0 .. Len(src.files[file.path]) - 1
      /\ phase \in {"open", "done"} /\ status \in {"running", "over"}
  BY <1>1 DEF BaseInv
<1>4. Len(scan.c.pending) <= MaxPending
  <2>1. scan.c.pending = <<>>
    BY <1>1 DEF BaseInv, NoScan, Collector
  <2>2. Len(<<>>) = 0 /\ 0 <= MaxPending
    BY PendingAssumption
  <2> QED
    BY <2>1, <2>2
<1>5. ASSUME NEW b \in Seq(Bytes), Len(b) <= LogLimit
      PROVE  b \in BoundedSeq(Bytes, LogLimit)
  <2>1. Len(b) \in 0 .. LogLimit /\ b \in [1 .. Len(b) -> Bytes]
    BY <1>5, ReadingAssumption
  <2> QED
    BY <2>1 DEF BoundedSeq, SeqOf
<1>6. CASE src.kind \in ListKinds \/ src.kind = "diff"
  <2>1. call = Idle /\ log = <<>>
    BY <1>1, <1>6 DEF ListInv, DiffInv
  <2>2. /\ call.at \in {"idle", "status", "size", "bytes", "answer"}
        /\ call.max \in {0} \cup ByteLimits /\ call.terminal \in BOOLEAN
        /\ call.size = 0 /\ call.raw = <<>> /\ call.max = 0
    BY <2>1 DEF Idle
  <2>3. call.size \in 0 .. Len(log) /\ Len(call.raw) <= call.max
    BY <2>1, <2>2
  <2>4. log \in BoundedSeq(Bytes, LogLimit)
    <3>1. <<>> \in Seq(Bytes) /\ Len(<<>>) <= LogLimit
      BY ReadingAssumption
    <3> QED
      BY <1>5, <2>1, <3>1
  <2>5. cursor \in 0 .. (CASE src.kind = "diff"  -> Total(src.chars)
                          [] src.kind = "log"   -> Len(log)
                          [] src.kind = "files" -> Len(src.files)
                          [] OTHER              -> Len(Whole))
    <3>1. CASE src.kind \in ListKinds
      <4>1. src.sizes \in Seq(Nat) /\ src.kind # "diff" /\ src.kind # "log" /\ src.kind # "files"
        BY <1>1, <3>1, SourceKinds DEF ReadOn
      <4>2. Whole = Span(0, Len(src.sizes))
        BY <3>1 DEF Whole, ListKinds
      <4>3. Len(Whole) = Len(src.sizes)
        BY <4>1, <4>2, SpanLength
      <4>4. cursor \in 0 .. Len(Whole)
        BY <1>1, <3>1, <4>3 DEF ListInv
      <4> QED
        BY <4>1, <4>4
    <3>2. CASE src.kind = "diff"
      <4>1. src.chars \in Seq(Nat \ {0}) /\ src.chars \in Seq(Nat)
        <5> DEFINE z == src.chars
        <5>1. z \in Seq({1, 2})
          BY <1>1, <3>2, SourceKinds
        <5> HIDE DEF z
        <5>2. z \in Seq(Nat \ {0}) /\ z \in Seq(Nat)
          BY <5>1
        <5> QED
          BY <5>2 DEF z
      <4>2. PICK m \in 0 .. Len(src.chars) : cursor = Size(src.chars, 0, m)
        BY <1>1, <3>2 DEF DiffInv
      <4>3. Growing(src.chars)
        BY <4>1, SizesGrow
      <4> DEFINE l == Len(src.chars)
                 t == Size(src.chars, 0, l)
      <4>4. l \in Nat /\ m \in 0 .. l /\ l \in 0 .. l
        BY <4>1
      <4>5. t \in Nat /\ cursor \in Nat /\ (m < l => cursor < t) /\ (m = l => cursor = t)
        BY <4>2, <4>3, <4>4 DEF Growing
      <4> HIDE DEF l, t
      <4>6. cursor \in 0 .. t
        BY <4>4, <4>5
      <4> QED
        BY <3>2, <4>6 DEF Total, t, l
    <3> QED
      BY <1>6, <3>1, <3>2
  <2> QED
    BY <1>3, <1>4, <2>2, <2>3, <2>4, <2>5 DEF TypeOK
<1>7. CASE src.kind = "log"
  <2>1. log \in Seq(Bytes) /\ Len(log) <= LogLimit /\ cursor \in 0 .. Len(log) /\ CallInv
    BY <1>1, <1>7 DEF LogInv
  <2>2. log \in BoundedSeq(Bytes, LogLimit)
    BY <1>5, <2>1
  <2>3. /\ call.at \in {"idle", "status", "size", "bytes", "answer"}
        /\ call.max \in {0} \cup ByteLimits /\ call.terminal \in BOOLEAN
        /\ call.size \in 0 .. Len(log) /\ Len(call.raw) <= call.max
    BY <2>1 DEF CallInv, CallKind
  <2>4. cursor \in 0 .. (CASE src.kind = "diff"  -> Total(src.chars)
                          [] src.kind = "log"   -> Len(log)
                          [] src.kind = "files" -> Len(src.files)
                          [] OTHER              -> Len(Whole))
    BY <1>7, <2>1
  <2> QED
    BY <1>3, <1>4, <2>2, <2>3, <2>4 DEF TypeOK
<1> QED
  BY <1>2, <1>6, <1>7

(* What a reader has is the beginning of what there is.                    *)
LEMMA Begun ==
    ASSUME IInv, ReadOn
    PROVE  NothingLost
<1>1. src \in Sources /\ BaseInv /\ ListInv /\ DiffInv /\ LogInv
  BY DEF IInv
<1>2. src.kind \in ListKinds \cup {"diff", "log"} /\ src.kind # "files" /\ src.kind # "grep"
  BY <1>1, SourceKinds DEF ReadOn
<1> SUFFICES ASSUME phase = "open"
             PROVE  got = SubSeq(Whole, 1, Upto)
  BY <1>2 DEF NothingLost, Places
<1>3. CASE src.kind \in ListKinds
  <2>1. src.sizes \in Seq(Nat) /\ src.kind # "diff" /\ src.kind # "log"
    BY <1>1, <1>3, SourceKinds
  <2>2. Whole = Span(0, Len(src.sizes)) /\ Upto = cursor
    BY <1>3, <2>1 DEF Whole, Upto, ListKinds
  <2>3. cursor \in Nat /\ cursor <= Len(src.sizes) /\ Len(src.sizes) \in Nat /\ got = Span(0, cursor)
    BY <1>1, <1>3, <2>1 DEF ListInv
  <2>4. SubSeq(Span(0, Len(src.sizes)), 1, cursor) = Span(0, cursor)
    BY <2>3, SpanBegins
  <2> QED
    BY <2>2, <2>3, <2>4
<1>4. CASE src.kind = "diff"
  <2> DEFINE z == src.chars
  <2>1. z \in Seq({1, 2})
    BY <1>1, <1>4, SourceKinds
  <2>2. PICK m \in 0 .. Len(z) : cursor = Size(z, 0, m) /\ got = Span(0, m)
    BY <1>1, <1>4 DEF DiffInv
  <2>3. Whole = Span(0, Len(z)) /\ Upto = CharsUpTo(z, cursor)
    BY <1>4 DEF Whole, Upto
  <2> HIDE DEF z
  <2>4. z \in Seq(Nat \ {0}) /\ Len(z) \in Nat /\ m \in Nat /\ m <= Len(z)
    BY <2>1
  <2>5. CharsUpTo(z, cursor) = m
    BY <2>2, <2>4, CharsThere
  <2>6. SubSeq(Span(0, Len(z)), 1, m) = Span(0, m)
    BY <2>4, SpanBegins
  <2> QED
    BY <2>2, <2>3, <2>5, <2>6, Zenon
<1>5. CASE src.kind = "log"
  <2>1. log \in Seq(Bytes) /\ cursor \in 0 .. Len(log) /\ got \in Seq(Units) /\ Expands(log, cursor, got)
    BY <1>1, <1>5 DEF LogInv
  <2>2. Whole = UnitsOf(log, TRUE).units /\ Upto = Len(got)
    BY <1>5 DEF Whole, Upto
  <2> DEFINE d == Drop(log, cursor)
             v == UnitsOf(d \o <<>>, TRUE).units
  <2>3. d \in Seq(Bytes)
    <3>1. DropTells(Bytes, log, cursor)
      BY <2>1, Dropped
    <3> QED
      BY <3>1 DEF DropTells
  <2>4. UnitsOf(log \o <<>>, TRUE).units = got \o v
    <3>1. <<>> \in Seq(Bytes)
      OBVIOUS
    <3> QED
      BY <2>1, <3>1 DEF Expands
  <2> HIDE DEF d
  <2>5. d \o <<>> \in Seq(Bytes)
    BY <2>3
  <2>6. v \in Seq(Units)
    BY <2>5, UnitsTyped DEF Decodings
  <2>7. log \o <<>> = log
    BY <2>1
  <2> HIDE DEF v
  <2>8. SubSeq(got \o v, 1, Len(got)) = got
    <3>1. got \in Seq(Units)
      BY <2>1
    <3> QED
      BY ONLY <2>6, <3>1
  <2> QED
    BY <2>2, <2>4, <2>7, <2>8, Zenon
<1> QED
  BY <1>2, <1>3, <1>4, <1>5

-----------------------------------------------------------------------------
(* The last page.                                                          *)
LEMMA EndStep ==
    ASSUME IInv, ReadOn, [Next]_vars, phase' = "done", phase = "open"
    PROVE  Places(got') = Places(Whole')
<1>1. src \in Sources /\ src' = src /\ src.kind # "grep"
  BY StepKeepsSource DEF IInv, ReadOn
<1> SUFFICES got' = Whole'
  BY <1>1 DEF Places
<1>2. ASSUME NEW limit \in Limits, NEW maxBytes \in ByteLimits, Ask(limit, maxBytes)
      PROVE  got' = Whole'
  <2>1. src.kind # "log" /\ cursor' = page'.next /\ got' = got \o page'.items /\ ~ page'.more
    BY <1>2 DEF Ask
  <2>2. IInv'
    BY <1>2, AskGood
  <2>3. ListInv' /\ DiffInv'
    BY <1>1, <2>2 DEF IInv, ReadOn
  <2>4. CASE src.kind \in ListKinds
    <3>1. src.sizes \in Seq(Nat)
      BY <1>1, <2>4, SourceKinds
    <3>2. got' = Span(0, cursor') /\ cursor' \in 0 .. Len(src.sizes)
      BY <1>1, <2>3, <2>4 DEF ListInv
    <3>3. ListPage(page', src.sizes, cursor)
      BY <1>2, <2>4, AskList
    <3>4. PICK k \in Nat : page'.next = cursor + k /\ page'.more = (cursor + k < Len(src.sizes))
      BY <3>3 DEF ListPage
    <3>5. ~ (cursor' < Len(src.sizes))
      BY <2>1, <3>4
    <3>6. cursor' = Len(src.sizes)
      BY <3>1, <3>2, <3>5
    <3>7. Whole' = Span(0, Len(src.sizes))
      BY <1>1, <2>4 DEF Whole, ListKinds
    <3> QED
      BY <3>2, <3>6, <3>7, Zenon
  <2>5. CASE src.kind = "diff"
    <3> DEFINE z == src.chars
    <3>1. z \in Seq({1, 2})
      BY <1>1, <2>5, SourceKinds
    <3>2. PICK m \in 0 .. Len(z) : cursor' = Size(z, 0, m) /\ got' = Span(0, m)
      BY <1>1, <2>3, <2>5 DEF DiffInv
    <3>3. PICK n \in 0 .. Len(z) : DiffTells(src, n, page')
      BY <1>2, <2>5, AskDiff
    <3>4. page'.more = (page'.next < Total(z))
      BY <3>3 DEF DiffTells
    <3>5. ~ (Size(z, 0, m) < Size(z, 0, Len(z)))
      BY <2>1, <3>2, <3>4 DEF Total
    <3>6. Whole' = Span(0, Len(z))
      BY <1>1, <2>5 DEF Whole
    <3> HIDE DEF z
    <3>7. z \in Seq(Nat \ {0}) /\ Len(z) \in Nat /\ Len(z) \in 0 .. Len(z)
      BY <3>1
    <3>8. Growing(z)
      BY <3>7, SizesGrow
    <3>9. m < Len(z) => Size(z, 0, m) < Size(z, 0, Len(z))
      BY <3>7, <3>8 DEF Growing
    <3>10. m = Len(z)
      BY <3>5, <3>7, <3>9
    <3> QED
      BY <3>2, <3>6, <3>10, Zenon
  <2> QED
    BY <1>1, <2>1, <2>4, <2>5, SourceKinds
<1>3. ASSUME src.kind = "log", Answer
      PROVE  got' = Whole'
  <2>1. AnswerTells
    BY <1>3, AnswerTold
  <2>2. got' = UnitsOf(log', TRUE).units
    BY <2>1 DEF AnswerTells
  <2> QED
    BY <1>1, <1>3, <2>2 DEF Whole
<1>4. ~ UNCHANGED vars
  BY DEF vars
<1>5. ~ (\E byte \in Bytes : Write(byte)) /\ ~ JobEnds /\ ~ (\E maxBytes \in ByteLimits : AskLog(maxBytes))
  BY DEF Write, JobEnds, AskLog
<1>6. ~ ReadStatus /\ ~ ReadSize /\ ~ ReadBytes
  BY DEF ReadStatus, ReadSize, ReadBytes
<1> QED
  BY <1>2, <1>3, <1>4, <1>5, <1>6, StepsOfReaders

(* A page that goes on.                                                    *)
LEMMA GoOnStep ==
    ASSUME IInv, ReadOn, [Next]_vars, page' # page, page'.more
    PROVE  \/ page'.next > cursor
           \/ /\ ~ Readily
              /\ src.kind = "diff" => page'.note = "continuation_blocked"
              /\ src.kind = "log" /\ call.size > cursor => page'.note = "minimum_max_bytes"
<1>1. src \in Sources
  BY DEF IInv
<1>2. ASSUME NEW limit \in Limits, NEW maxBytes \in ByteLimits, Ask(limit, maxBytes)
      PROVE  \/ page'.next > cursor
             \/ /\ ~ Readily
                /\ src.kind = "diff" => page'.note = "continuation_blocked"
                /\ src.kind = "log" /\ call.size > cursor => page'.note = "minimum_max_bytes"
  <2>1. src.kind # "log"
    BY <1>2 DEF Ask
  <2>2. CASE src.kind \in ListKinds
    <3>1. page'.next > cursor \/ ~ Readily
      BY <1>2, <2>2, AskList
    <3>2. src.kind # "diff"
      BY <1>1, <2>2, SourceKinds
    <3> QED
      BY <2>1, <3>1, <3>2
  <2>3. CASE src.kind = "diff"
    <3>1. PICK m \in 0 .. Len(src.chars) : cursor = Size(src.chars, 0, m) /\ DiffTells(src, m, page')
      BY <1>2, <2>3, AskDiff
    <3>2. page'.next > cursor \/ (page'.note = "continuation_blocked" /\ ~ (src.envelope < Room))
      BY <3>1 DEF DiffTells
    <3>3. Readily => src.envelope < Room
      BY <2>3 DEF Readily
    <3> QED
      BY <2>1, <3>2, <3>3
  <2> QED
    BY <1>1, <2>1, <2>2, <2>3, SourceKinds
<1>3. ASSUME src.kind = "log", Answer
      PROVE  \/ page'.next > cursor
             \/ /\ ~ Readily
                /\ src.kind = "diff" => page'.note = "continuation_blocked"
                /\ src.kind = "log" /\ call.size > cursor => page'.note = "minimum_max_bytes"
  <2>1. AnswerTells
    BY <1>3, AnswerTold
  <2> QED
    BY <1>3, <2>1 DEF AnswerTells
<1>4. ~ UNCHANGED vars
  BY DEF vars
<1>5. ~ (\E byte \in Bytes : Write(byte)) /\ ~ JobEnds /\ ~ (\E maxBytes \in ByteLimits : AskLog(maxBytes))
  BY DEF Write, JobEnds, AskLog
<1>6. ~ ReadStatus /\ ~ ReadSize /\ ~ ReadBytes
  BY DEF ReadStatus, ReadSize, ReadBytes
<1> QED
  BY <1>2, <1>3, <1>4, <1>5, <1>6, StepsOfReaders

-----------------------------------------------------------------------------
(* Batches of files.                                                       *)

(* How many lines of a file a page has.                                    *)
LEMMA LinesCounted ==
    ASSUME NEW f \in Seq(Nat \ {0})
    PROVE  /\ LineCount(f, f, 0, 0) \in 0 .. Len(f) /\ (Len(f) >= 1 => LineCount(f, f, 0, 0) >= 1)
           /\ \A lines \in 0 .. Len(f) : Size(f, 0, lines) \in Nat
<1> DEFINE a == Fitting(f, 0, 0, Room)
           b == Fitting(f, 0, 0, MaxBytes)
           m == Min({a, b})
           n == LineCount(f, f, 0, 0)
<1>1. f \in Seq(Nat) /\ Len(f) \in Nat /\ 0 \in 0 .. Len(f) /\ 0 \in Nat /\ Room \in Int /\ MaxBytes \in Int
  BY PageAssumption
<1>2. FitTells(f, 0, 0, Room) /\ FitTells(f, 0, 0, MaxBytes)
  BY <1>1, FittingTells
<1>3. a \in Nat /\ b \in Nat /\ a <= Len(f)
  BY <1>1, <1>2 DEF FitTells
<1>4. n = IF m = 0 /\ 0 < Len(f) THEN 1 ELSE m
  BY DEF LineCount
<1> HIDE DEF a, b, n
<1>5. m = IF a <= b THEN a ELSE b
  <2>1. a \in Int /\ b \in Int
    BY <1>3
  <2>2. Min({a, b}) = IF a <= b THEN a ELSE b
    BY <2>1, SmallerOf
  <2> QED
    BY <2>2, Zenon
<1> HIDE DEF m
<1>6. n \in 0 .. Len(f) /\ (Len(f) >= 1 => n >= 1)
  BY <1>1, <1>3, <1>4, <1>5
<1>7. \A lines \in 0 .. Len(f) : Size(f, 0, lines) \in Nat
  BY SizesGrow DEF Growing
<1> QED
  BY <1>6, <1>7 DEF n

(* The result of a file says whether it is whole, and where it goes on.    *)
ResultKind == [path : Nat, lines : Nat, next : Nat, more : BOOLEAN]
ResultTells(s, r) ==
    /\ r.path \in 1 .. Len(s.files) /\ r.lines <= Len(s.files[r.path])
    /\ (r.more => r.next = r.lines /\ r.lines < Len(s.files[r.path]))
    /\ (~ r.more => r.lines = Len(s.files[r.path]))

(* A page of a batch: the files that go on do so within themselves, and    *)
(* the batch gets further where an empty result has room.                  *)
BatchTells(s, from, p) ==
    /\ p.next \in Nat /\ from <= p.next /\ p.next <= Len(s.files) /\ p.more = (p.next < Len(s.files))
    /\ \A r \in Range(p.items) : r.more => r.path \in 1 .. Len(s.files) /\ r.next \in 0 .. Len(s.files[r.path]) - 1
    /\ p.items \in Seq(ResultKind) /\ p.next = from + Len(p.items)
    /\ \A i \in 1 .. Len(p.items) : p.items[i].path = from + i /\ ResultTells(s, p.items[i])
    /\ p.more /\ s.envelope + s.perFile <= Room => p.next > from

(* read_text for a batch: whatever the files, however many fit whole and   *)
(* however much of the next, a page is such a page.                        *)
LEMMA BatchTold ==
    ASSUME NEW s, s.files \in Seq(Seq(Nat \ {0})), s.envelope \in Nat, s.perFile \in Nat,
           NEW from \in 0 .. Len(s.files)
    PROVE  BatchTells(s, from, Files(s, from))
<1> DEFINE L == Len(s.files)
           W(path) == LineCount(s.files[path], s.files[path], 0, 0)
           C(path, lines) == s.perFile + Size(s.files[path], 0, lines)
           wholes == [path \in 1 .. L |-> C(path, W(path))]
           n      == Fitting(wholes, from, 0, Room - s.envelope)
           left   == Room - s.envelope - Size(wholes, from, n)
           next   == from + n + 1
           part   == IF next > L THEN {}
                     ELSE {lines \in 0 .. W(next) - 1 : C(next, lines) <= left}
           first  == [i \in 1 .. n |-> FileResult(s, from + i, W(from + i))]
           last   == IF part = {} THEN <<>> ELSE <<FileResult(s, next, Max(part))>>
           results  == first \o last
           p      == Files(s, from)
           R      == ResultKind
           Right(r) == ResultTells(s, r)
<1>1. p = PageOf(results, from + Len(results), from + Len(results) < L, "none")
  BY Zenon DEF Files
<1>2. L \in Nat /\ from \in Nat /\ from <= L /\ Room \in Int
  BY PageAssumption
<1>3. \A path \in 1 .. L : s.files[path] \in Seq(Nat \ {0})
  OBVIOUS
<1>4. ASSUME NEW path \in 1 .. L
      PROVE  /\ W(path) \in 0 .. Len(s.files[path]) /\ (Len(s.files[path]) >= 1 => W(path) >= 1)
             /\ \A lines \in 0 .. Len(s.files[path]) : C(path, lines) \in Nat
             /\ Len(s.files[path]) \in Nat
  <2> DEFINE f == s.files[path]
  <2>1. f \in Seq(Nat \ {0})
    BY <1>3
  <2> HIDE DEF f
  <2>2. /\ LineCount(f, f, 0, 0) \in 0 .. Len(f) /\ (Len(f) >= 1 => LineCount(f, f, 0, 0) >= 1)
        /\ \A lines \in 0 .. Len(f) : Size(f, 0, lines) \in Nat
    BY <2>1, LinesCounted
  <2>3. \A lines \in 0 .. Len(f) : s.perFile + Size(f, 0, lines) \in Nat
    BY <2>2
  <2>4. Len(f) \in Nat
    BY <2>1
  <2> QED
    BY <2>2, <2>3, <2>4 DEF f
<1> HIDE DEF W, L
<1>5. wholes \in Seq(Nat) /\ Len(wholes) = L
  <2>1. \A path \in 1 .. L : C(path, W(path)) \in Nat
    BY <1>4
  <2> HIDE DEF C
  <2> QED
    BY <1>2, <2>1
<1>6. \A path \in 1 .. L : wholes[path] = C(path, W(path))
  OBVIOUS
<1> HIDE DEF wholes
<1>7. FitTells(wholes, from, 0, Room - s.envelope)
  <2>1. from \in 0 .. Len(wholes) /\ 0 \in Nat /\ Room - s.envelope \in Int
    BY <1>2, <1>5
  <2> QED
    BY <1>5, <2>1, FittingTells
<1>8. n \in Nat /\ n <= L - from /\ (from < L /\ wholes[from + 1] <= Room - s.envelope => n >= 1)
  BY <1>5, <1>7 DEF FitTells
<1> HIDE DEF n, C
<1>9. ASSUME NEW path \in 1 .. L, NEW lines \in 0 .. Len(s.files[path])
      PROVE  FileResult(s, path, lines) \in R /\ Right(FileResult(s, path, lines))
  <2> DEFINE l == Len(s.files[path])
             r == FileResult(s, path, lines)
  <2>1. l \in Nat /\ lines \in Nat /\ lines <= l /\ path \in Nat
    BY <1>4
  <2>2. r = [path |-> path, lines |-> lines, next |-> IF lines < l THEN lines ELSE l, more |-> lines < l]
    BY Zenon DEF FileResult
  <2>3. r.path = path /\ r.more = (lines < l) /\ r.next = (IF lines < l THEN lines ELSE l)
    <3> HIDE DEF l, r
    <3> QED
      BY <2>2
  <2>4. r \in R
    <3> HIDE DEF l, r
    <3> QED
      BY <2>1, <2>2 DEF ResultKind
  <2>5. r.lines = lines
    <3> HIDE DEF l, r
    <3> QED
      BY <2>2
  <2>6. (r.more => r.next = r.lines /\ r.lines < l) /\ (~ r.more => r.lines = l) /\ r.lines <= l
    <3> HIDE DEF l, r
    <3>1. r.more => lines < l /\ r.next = lines
      BY <2>3, Zenon
    <3>2. ~ r.more => ~ (lines < l)
      BY <2>3, Zenon
    <3>3. ~ r.more => lines = l
      BY <2>1, <3>2
    <3> QED
      BY <2>1, <2>5, <3>1, <3>3
  <2>7. Right(r)
    <3> HIDE DEF r
    <3> QED
      BY <2>1, <2>3, <2>6 DEF ResultTells, L
  <2> QED
    BY <2>4, <2>7
<1>10. first \in Seq(R) /\ Len(first) = n /\ \A i \in 1 .. n : Right(first[i])
  <2>1. \A i \in 1 .. n : FileResult(s, from + i, W(from + i)) \in R /\ Right(FileResult(s, from + i, W(from + i)))
    <3> TAKE i \in 1 .. n
    <3>1. from + i \in 1 .. L
      BY <1>2, <1>8
    <3> HIDE DEF Right, R
    <3> QED
      BY <1>4, <1>9, <3>1
  <2> DEFINE F(i) == FileResult(s, from + i, W(from + i))
  <2>2. \A i \in 1 .. n : F(i) \in R /\ Right(F(i))
    BY <2>1
  <2>3. first = [i \in 1 .. n |-> F(i)]
    OBVIOUS
  <2> HIDE DEF Right, R, F, first
  <2>4. [i \in 1 .. n |-> F(i)] \in Seq(R) /\ Len([i \in 1 .. n |-> F(i)]) = n
    BY ONLY <1>8, <2>2
  <2>5. \A i \in 1 .. n : first[i] = F(i)
    BY <2>3
  <2> QED
    BY <2>2, <2>3, <2>4, <2>5, Zenon
<1>11. ASSUME part # {}
       PROVE  next \in 1 .. L /\ Max(part) \in 0 .. Len(s.files[next])
  <2>1. next \in 1 .. L
    BY <1>2, <1>8, <1>11
  <2> DEFINE w == W(next)
             l == Len(s.files[next])
  <2>2. w \in 0 .. l /\ l \in Nat
    <3> HIDE DEF next
    <3> QED
      BY <1>4, <2>1
  <2>3. part \in SUBSET (0 .. w - 1)
    BY <2>1
  <2> HIDE DEF w, l, part, next
  <2>4. w >= 1
    <3>1. PICK x \in part : x \in 0 .. w - 1
      BY <1>11, <2>3
    <3> QED
      BY <2>2, <3>1
  <2>5. w - 1 \in Nat
    BY <2>2, <2>4
  <2>6. Max(part) \in part
    BY <1>11, <2>3, <2>5, LargestOf
  <2>7. Max(part) \in 0 .. w - 1
    BY <2>3, <2>6
  <2>8. Max(part) \in 0 .. l
    BY <2>2, <2>7
  <2> QED
    BY <2>1, <2>8 DEF l
<1>12. last \in Seq(R) /\ Len(last) \in Nat /\ (part # {} => Len(last) = 1) /\ (part = {} => Len(last) = 0)
       /\ (\A i \in 1 .. Len(last) : Right(last[i])) /\ (part # {} => next <= L)
  <2>1. CASE part = {}
    <3>1. last = <<>>
      BY <2>1
    <3> HIDE DEF last, Right
    <3> QED
      BY <2>1, <3>1
  <2>2. CASE part # {}
    <3> DEFINE r == FileResult(s, next, Max(part))
    <3>1. last = <<r>>
      BY <2>2
    <3>2. r \in R /\ Right(r)
      <4> HIDE DEF Right, R, next, part
      <4> QED
        BY <1>9, <1>11, <2>2
    <3>3. next <= L
      <4> HIDE DEF next, part
      <4> QED
        BY <1>2, <1>11, <2>2
    <3> HIDE DEF last, r, Right, R, next
    <3>4. last \in Seq(R) /\ Len(last) = 1 /\ last[1] = r
      BY <3>1, <3>2
    <3>5. \A i \in 1 .. Len(last) : Right(last[i])
      <4>1. \A i \in 1 .. Len(last) : i = 1
        BY <3>4
      <4> QED
        BY <3>2, <3>4, <4>1
    <3> QED
      BY <2>2, <3>3, <3>4, <3>5
  <2> QED
    BY <2>1, <2>2
<1>13. results \in Seq(R) /\ Len(results) = n + Len(last) /\ \A i \in 1 .. Len(results) : Right(results[i])
  <2>1. first \in Seq(R) /\ last \in Seq(R)
    BY <1>10, <1>12
  <2> HIDE DEF first, last, R, Right
  <2>2. /\ results \in Seq(R) /\ Len(results) = Len(first) + Len(last)
        /\ \A i \in 1 .. Len(first) : results[i] = first[i]
        /\ \A i \in 1 .. Len(last) : results[Len(first) + i] = last[i]
    BY ONLY <2>1 DEF results
  <2> HIDE DEF results
  <2>3. Len(results) = n + Len(last)
    BY <1>10, <2>2, Zenon
  <2>4. ASSUME NEW i \in 1 .. Len(results)
        PROVE  Right(results[i])
    <3>1. CASE i <= n
      <4>1. i \in 1 .. n /\ i \in 1 .. Len(first)
        BY <1>8, <1>10, <3>1
      <4> QED
        BY <1>10, <2>2, <4>1
    <3>2. CASE ~ (i <= n)
      <4> DEFINE j == i - n
      <4>1. j \in 1 .. Len(last) /\ Len(first) + j = i
        BY <1>8, <1>10, <1>12, <2>3, <3>2
      <4> HIDE DEF j
      <4>2. results[Len(first) + j] = last[j] /\ Right(last[j])
        BY <1>12, <2>2, <4>1
      <4> QED
        BY <4>1, <4>2, Zenon
    <3> QED
      BY <3>1, <3>2
  <2> QED
    BY <2>2, <2>3, <2>4
<1>14. \A i \in 1 .. Len(results) : results[i].path = from + i
  <2>1. \A i \in 1 .. n : first[i].path = from + i
    BY DEF FileResult
  <2>2. ASSUME NEW i \in 1 .. Len(last)
        PROVE  last[i].path = from + (n + i)
    <3>1. part # {}
      <4> HIDE DEF part, last
      <4> QED
        BY <1>12, <2>2
    <3>2. last = <<FileResult(s, next, Max(part))>>
      BY <3>1
    <3>3. i = 1
      <4> HIDE DEF part, last
      <4> QED
        BY <1>12, <2>2, <3>1
    <3>4. last[i] = FileResult(s, next, Max(part))
      <4> HIDE DEF part, next, last
      <4> QED
        BY <3>2, <3>3
    <3>5. last[i].path = next
      <4> HIDE DEF part, next, last
      <4> QED
        BY <3>4 DEF FileResult
    <3>6. next = from + (n + 1)
      BY <1>2, <1>8
    <3> QED
      BY <3>3, <3>5, <3>6, Zenon
  <2>3. first \in Seq(R) /\ last \in Seq(R)
    BY <1>10, <1>12
  <2> HIDE DEF first, last, R, Right
  <2>4. /\ Len(results) = Len(first) + Len(last)
        /\ \A i \in 1 .. Len(first) : results[i] = first[i]
        /\ \A i \in 1 .. Len(last) : results[Len(first) + i] = last[i]
    BY ONLY <2>3 DEF results
  <2> HIDE DEF results
  <2> TAKE i \in 1 .. Len(results)
  <2>5. CASE i <= n
    <3>1. i \in 1 .. n /\ i \in 1 .. Len(first)
      BY <1>8, <1>10, <2>5
    <3> QED
      BY <2>1, <2>4, <3>1
  <2>6. CASE ~ (i <= n)
    <3> DEFINE j == i - n
    <3>1. j \in 1 .. Len(last) /\ Len(first) + j = i /\ n + j = i
      BY <1>8, <1>10, <1>12, <2>4, <2>6
    <3> HIDE DEF j
    <3>2. results[Len(first) + j] = last[j] /\ last[j].path = from + (n + j)
      BY <2>2, <2>4, <3>1
    <3> QED
      BY <3>1, <3>2, Zenon
  <2> QED
    BY <2>5, <2>6
<1>15. Len(results) \in Nat /\ from + Len(results) <= L
  <2> DEFINE k == Len(last)
  <2>1. k \in Nat /\ (part # {} => k = 1) /\ (part = {} => k = 0) /\ (part # {} => next <= L)
    BY <1>12
  <2>2. Len(results) = n + k
    BY <1>13
  <2>3. part # {} => from + n + 1 <= L
    BY <2>1
  <2> HIDE DEF k, results, part, next
  <2> QED
    BY <1>2, <1>8, <2>1, <2>2, <2>3
<1>16. ASSUME from < L, s.envelope + s.perFile <= Room
       PROVE  Len(results) >= 1
  <2>1. CASE n >= 1
    <3> DEFINE k == Len(last)
    <3>1. k \in Nat /\ Len(results) = n + k
      BY <1>12, <1>13
    <3> HIDE DEF k, results
    <3> QED
      BY <1>8, <2>1, <3>1
  <2>2. CASE ~ (n >= 1)
    <3>1. n = 0
      BY <1>8, <2>2
    <3>2. next = from + 1 /\ from + 1 \in 1 .. L
      BY <1>2, <1>16, <3>1
    <3>3. ~ (wholes[from + 1] <= Room - s.envelope)
      BY <1>8, <1>16, <2>2
    <3>4. s.perFile <= Room - s.envelope
      BY <1>2, <1>16
    <3>5. C(from + 1, 0) = s.perFile
      <4>1. Size(s.files[from + 1], 0, 0) = 0
        <5>1. 0 \in Nat
          OBVIOUS
        <5> QED
          BY <5>1, SizeSteps
      <4>2. s.perFile + 0 = s.perFile
        OBVIOUS
      <4> QED
        BY <4>1, <4>2, Zenon DEF C
    <3>6. W(from + 1) # 0
      <4> SUFFICES ASSUME W(from + 1) = 0
                   PROVE  FALSE
        OBVIOUS
      <4>1. wholes[from + 1] = C(from + 1, W(from + 1))
        BY <1>6, <3>2
      <4>2. wholes[from + 1] = s.perFile
        BY <3>5, <4>1, Zenon
      <4> QED
        BY <3>3, <3>4, <4>2
    <3>7. W(from + 1) \in Nat
      <4> DEFINE g == from + 1
      <4>1. g \in 1 .. L
        BY <3>2
      <4> HIDE DEF g
      <4>2. W(g) \in 0 .. Len(s.files[g]) /\ Len(s.files[g]) \in Nat
        BY <1>4, <4>1
      <4>3. W(g) \in Nat
        BY <4>2
      <4> QED
        BY <4>3 DEF g
    <3>8. 0 \in 0 .. W(from + 1) - 1
      BY <3>6, <3>7
    <3>9. left = Room - s.envelope
      <4>1. Size(wholes, from, 0) = 0
        <5>1. 0 \in Nat
          OBVIOUS
        <5> QED
          BY <5>1, SizeSteps
      <4>2. Room - s.envelope - 0 = Room - s.envelope
        BY <1>2
      <4> QED
        BY <3>1, <4>1, <4>2, Zenon
    <3>10. C(from + 1, 0) <= left
      BY <3>4, <3>5, <3>9
    <3>11. ~ (next > L)
      BY <1>2, <3>2
    <3>12. 0 \in part
      <4>1. part = {lines \in 0 .. W(from + 1) - 1 : C(from + 1, lines) <= left}
        BY <3>2, <3>11
      <4> HIDE DEF part, left
      <4> QED
        BY <3>8, <3>10, <4>1
    <3>13. part # {}
      <4> HIDE DEF part
      <4> QED
        BY <3>12
    <3>14. Len(last) = 1
      <4> HIDE DEF part, last
      <4> QED
        BY <1>12, <3>13
    <3>15. Len(results) = n + 1
      BY <1>13, <3>14
    <3> HIDE DEF results
    <3> QED
      BY <3>1, <3>15
  <2> QED
    BY <2>1, <2>2
<1>17. p.items = results /\ p.next = from + Len(results) /\ p.more = (from + Len(results) < L)
  <2> HIDE DEF results, p
  <2> QED
    BY <1>1 DEF PageOf
<1>18. \A r \in Range(p.items) : r.more => r.path \in 1 .. L /\ r.next \in 0 .. Len(s.files[r.path]) - 1
  <2> TAKE r \in Range(p.items)
  <2> HIDE DEF results, R, p
  <2>1. PICK i \in 1 .. Len(results) : r = results[i]
    BY <1>13, <1>17 DEF Range
  <2>2. r \in R /\ ResultTells(s, r)
    BY <1>13, <2>1
  <2> SUFFICES ASSUME r.more
               PROVE  r.path \in 1 .. L /\ r.next \in 0 .. Len(s.files[r.path]) - 1
    OBVIOUS
  <2>3. r.path \in 1 .. L /\ r.lines \in Nat /\ r.next = r.lines /\ r.lines < Len(s.files[r.path])
    BY <2>2 DEF ResultTells, L, R, ResultKind
  <2> DEFINE l == Len(s.files[r.path])
             t == r.lines
  <2>4. l \in Nat
    BY <1>4, <2>3
  <2>5. t \in Nat /\ t < l
    BY <2>3
  <2>6. t \in 0 .. l - 1
    <3> HIDE DEF l, t
    <3> QED
      BY <2>4, <2>5
  <2> QED
    BY <2>3, <2>6
<1>19. /\ p.items \in Seq(ResultKind) /\ p.next = from + Len(p.items)
       /\ \A i \in 1 .. Len(p.items) : p.items[i].path = from + i /\ ResultTells(s, p.items[i])
  <2> HIDE DEF results, p
  <2> QED
    BY <1>13, <1>14, <1>17, Zenon
<1> DEFINE k == Len(results)
<1>20. p.next \in Nat /\ from <= p.next /\ p.next <= L /\ p.more = (p.next < L)
       /\ (p.more /\ s.envelope + s.perFile <= Room => p.next > from)
  <2>1. k \in Nat /\ from + k <= L /\ p.next = from + k /\ p.more = (from + k < L)
        /\ (from < L /\ s.envelope + s.perFile <= Room => k >= 1)
    BY <1>15, <1>16, <1>17
  <2> HIDE DEF k, p
  <2>2. from + k \in Nat /\ from <= from + k
    BY <1>2, <2>1
  <2>3. from + k < L /\ s.envelope + s.perFile <= Room => from + k > from
    <3> SUFFICES ASSUME from + k < L, s.envelope + s.perFile <= Room
                 PROVE  from + k > from
      OBVIOUS
    <3>1. from < L
      BY <1>2, <2>1
    <3>2. k >= 1
      BY <2>1, <3>1
    <3> QED
      BY <1>2, <2>1, <3>2
  <2> QED
    BY <2>1, <2>2, <2>3, Zenon
<1> QED
  BY <1>18, <1>19, <1>20 DEF BatchTells, L

-----------------------------------------------------------------------------
(* The files of a batch whose own pages go on do so within themselves.     *)
Batch    == src.kind = "files"
InFile   == {file \in [path : 1 .. Len(src.files), next : Nat] :
                file.next <= Len(src.files[file.path]) - 1}
BatchInv ==
    Batch => /\ cursor \in 0 .. Len(src.files) /\ rest \subseteq InFile
             /\ phase \in {"open", "done"} /\ status \in {"running", "over"}
             /\ log = <<>> /\ call = Idle /\ scan = NoScan

(* What is assumed of a batch of files.                                    *)
LEMMA BatchSource ==
    ASSUME src \in Sources, Batch
    PROVE  src.files \in Seq(Seq(Nat \ {0})) /\ src.envelope \in Nat /\ src.perFile \in Nat
BY ReadingAssumption DEF Batch

(* Nobody has read anything of a batch at the beginning.                   *)
LEMMA BatchBegins ==
    ASSUME Init
    PROVE  BatchInv
<1>1. src \in Sources /\ cursor = 0 /\ rest = {} /\ phase = "open" /\ log = <<>>
      /\ status = "running" /\ call = Idle /\ scan = NoScan
  BY DEF Init
<1>2. Batch => 0 \in 0 .. Len(src.files)
  <2> SUFFICES ASSUME Batch
               PROVE  0 \in 0 .. Len(src.files)
    OBVIOUS
  <2>1. src.files \in Seq(Seq(Nat \ {0}))
    BY <1>1, BatchSource
  <2> QED
    BY <2>1
<1> QED
  BY <1>1, <1>2 DEF BatchInv

(* The steps of a reader of a batch.                                       *)
LEMMA StepsOfBatch ==
    ASSUME BatchInv, Batch, [Next]_vars
    PROVE  \/ UNCHANGED vars
           \/ AskBatch
           \/ \E file \in rest, limit \in Limits : AskRest(file, limit)
<1>1. src.kind = "files" /\ src.kind # "log" /\ src.kind # "grep" /\ call = Idle /\ scan = NoScan
  BY DEF Batch, BatchInv
<1>2. ~ \E limit \in Limits, maxBytes \in ByteLimits : Ask(limit, maxBytes)
  BY <1>1 DEF Ask
<1>3. ~ \E limit \in Limits : AskGrep(limit)
  BY <1>1 DEF AskGrep
<1>4. ~ ScanStep
  <2>1. ~ scan.on
    BY <1>1 DEF NoScan
  <2> QED
    BY <2>1 DEF ScanStep, ReadEvent, ReadMalformed, AnswerGrep
<1>5. ~ CallStep
  <2>1. call.at = "idle"
    BY <1>1 DEF Idle
  <2> QED
    BY <2>1 DEF CallStep, ReadStatus, ReadSize, ReadBytes, Answer, AnswerWith
<1>6. ~ (\E byte \in Bytes : Write(byte)) /\ ~ JobEnds /\ ~ (\E maxBytes \in ByteLimits : AskLog(maxBytes))
  BY <1>1 DEF Write, JobEnds, AskLog
<1> QED
  BY <1>2, <1>3, <1>4, <1>5, <1>6, Zenon DEF Next

(* The lines of a file from a place on.                                    *)
Block(p, at, n) == [i \in 1 .. n |-> <<p, at + i>>]

(* The next page of a file of a batch has its next lines, at least one     *)
(* while there is more.                                                    *)
RestTells(file, n, p) ==
    \E k \in Nat : /\ p.items = Block(file.path, file.next, k) /\ p.next = file.next + k
                   /\ p.next <= n /\ (p.more => p.next < n /\ p.next > file.next)
                   /\ (~ p.more => p.next = n)

(* RestOf gives such a page, whatever the limit.                           *)
LEMMA RestTold ==
    ASSUME src \in Sources, Batch, NEW file \in InFile, NEW limit \in Limits
    PROVE  RestTells(file, Len(src.files[file.path]), RestOf(file, limit))
<1> DEFINE f == src.files[file.path]
           s == [sizes |-> f, bytes |-> f]
           p == Lines(s, file.next, limit)
           r == RestOf(file, limit)
           at == file.next
<1>1. f \in Seq(Nat \ {0})
  BY BatchSource DEF InFile
<1>2. at \in Nat /\ at <= Len(f) - 1 /\ limit \in Nat /\ Len(f) \in Nat
  BY <1>1, ReadingAssumption DEF InFile
<1>3. r = [p EXCEPT !.items = [i \in DOMAIN @ |-> <<file.path, @[i]>>]]
  BY Zenon DEF RestOf
<1> HIDE DEF f
<1>4. s.sizes \in Seq(Nat) /\ s.bytes \in Seq(Nat) /\ Len(s.bytes) = Len(s.sizes) /\ at \in 0 .. Len(s.sizes)
  BY <1>1, <1>2
<1>5. s.sizes = f
  OBVIOUS
<1> HIDE DEF s
<1>6. ListPage(p, s.sizes, at) /\ (p.more => p.next > at)
  BY <1>2, <1>4, LinesList
<1>7. r.next = p.next /\ r.more = p.more /\ r.items = [i \in DOMAIN p.items |-> <<file.path, p.items[i]>>]
  <2>1. \E items, next, more, note : p = [items |-> items, next |-> next, more |-> more, note |-> note]
    BY DEF Lines, PageOf
  <2> HIDE DEF p, r
  <2> QED
    BY <1>3, <2>1
<1> HIDE DEF p, r, at
<1>8. PICK k \in Nat : /\ k <= Len(f) - at /\ p.items = Span(at, k)
                       /\ p.next = at + k /\ p.more = (at + k < Len(f))
  BY <1>5, <1>6 DEF ListPage
<1>9. at + k <= Len(f) /\ (at + k < Len(f) \/ at + k = Len(f))
  BY <1>2, <1>8
<1>10. (r.more => at + k < Len(f)) /\ (~ r.more => at + k = Len(f))
  BY <1>7, <1>8, <1>9, Zenon
<1>11. r.items = Block(file.path, at, k)
  <2>1. DOMAIN p.items = 1 .. k /\ \A i \in 1 .. k : p.items[i] = at + i
    BY <1>8 DEF Span
  <2> QED
    BY <1>7, <2>1 DEF Block
<1>12. r.next = at + k
  BY <1>7, <1>8, Zenon
<1>13. r.more => r.next > at
  BY <1>6, <1>7, Zenon
<1> QED
  BY <1>9, <1>10, <1>11, <1>12, <1>13 DEF RestTells, r, f, at

(* A page of a batch.                                                      *)
LEMMA BatchAsked ==
    ASSUME src \in Sources, BatchInv, Batch, AskBatch
    PROVE  BatchTells(src, cursor, Files(src, cursor))
           /\ page'.next = Files(src, cursor).next /\ page'.more = Files(src, cursor).more
<1> DEFINE p == Files(src, cursor)
<1>1. BatchTells(src, cursor, p)
  <2>1. cursor \in 0 .. Len(src.files)
    BY DEF BatchInv
  <2> QED
    BY <2>1, BatchSource, BatchTold
<1>2. page' = [p EXCEPT !.items = LinesOf(@)]
  BY DEF AskBatch
<1>3. \E items, next, more, note : p = [items |-> items, next |-> next, more |-> more, note |-> note]
  BY DEF Files, PageOf
<1> HIDE DEF p
<1>4. page'.next = p.next /\ page'.more = p.more
  BY <1>2, <1>3
<1> QED
  BY <1>1, <1>4 DEF p

(* Every step keeps what is said of a batch.                               *)
LEMMA BatchKept ==
    ASSUME IInv, BatchInv, [Next]_vars
    PROVE  BatchInv'
<1>1. src' = src /\ src \in Sources
  BY StepKeepsSource DEF IInv
<1>2. CASE ~ Batch
  BY <1>1, <1>2 DEF Batch, BatchInv
<1>3. CASE Batch
  <2>1. /\ cursor \in 0 .. Len(src.files) /\ rest \subseteq InFile
        /\ phase \in {"open", "done"} /\ status \in {"running", "over"}
        /\ log = <<>> /\ call = Idle /\ scan = NoScan
    BY <1>3 DEF BatchInv
  <2>2. InFile' = InFile
    BY <1>1 DEF InFile
  <2>3. CASE UNCHANGED vars
    BY <1>1, <2>1, <2>2, <2>3 DEF vars, BatchInv
  <2>4. CASE AskBatch
    <3> DEFINE p == Files(src, cursor)
               Unread == {[path |-> r.path, next |-> r.next] : r \in {x \in Range(p.items) : x.more}}
    <3>1. BatchTells(src, cursor, p) /\ page'.next = p.next
      BY <1>1, <1>3, <2>4, BatchAsked
    <3>2. cursor' = page'.next /\ rest' = rest \cup Unread /\ phase' \in {"open", "done"}
          /\ status' = status /\ log' = log /\ call' = call /\ scan' = scan
      BY <2>4 DEF AskBatch
    <3>3. Unread \subseteq InFile
      <4> SUFFICES ASSUME NEW r \in Range(p.items), r.more
                   PROVE  [path |-> r.path, next |-> r.next] \in InFile
        OBVIOUS
      <4>1. r.path \in 1 .. Len(src.files) /\ r.next \in 0 .. Len(src.files[r.path]) - 1
        BY <3>1 DEF BatchTells
      <4>2. src.files[r.path] \in Seq(Nat \ {0})
        BY <1>1, <1>3, <4>1, BatchSource
      <4> DEFINE l == Len(src.files[r.path])
                 at == r.path
                 n  == r.next
      <4>3. l \in Nat
        BY <4>2
      <4>4. n \in Nat /\ n <= l - 1
        <5>1. n \in 0 .. l - 1
          BY <4>1
        <5> HIDE DEF l, n
        <5> QED
          BY <4>3, <5>1
      <4>5. at \in 1 .. Len(src.files)
        BY <4>1
      <4>6. n <= Len(src.files[at]) - 1
        BY <4>4
      <4> HIDE DEF at, n
      <4>7. [path |-> at, next |-> n] \in InFile
        BY <4>4, <4>5, <4>6 DEF InFile
      <4> QED
        BY <4>7 DEF at, n
    <3>4. cursor' \in 0 .. Len(src.files)
      <4>1. p.next \in Nat /\ p.next <= Len(src.files)
        BY <3>1 DEF BatchTells
      <4>2. Len(src.files) \in Nat
        BY <1>1, <1>3, BatchSource
      <4> HIDE DEF p
      <4>3. p.next \in 0 .. Len(src.files)
        BY <4>1, <4>2
      <4> QED
        BY <3>1, <3>2, <4>3, Zenon
    <3> HIDE DEF Unread, p
    <3> QED
      BY <1>1, <2>1, <2>2, <3>2, <3>3, <3>4 DEF BatchInv
  <2>5. ASSUME NEW file \in rest, NEW limit \in Limits, AskRest(file, limit)
        PROVE  BatchInv'
    <3> DEFINE on == [file EXCEPT !.next = page'.next]
    <3>1. file \in InFile
      BY <2>1
    <3>2. page' = RestOf(file, limit) /\ rest' = (rest \ {file}) \cup (IF page'.more THEN {on} ELSE {})
          /\ cursor' = cursor /\ phase' = phase /\ status' = status /\ log' = log /\ call' = call /\ scan' = scan
      BY <2>5 DEF AskRest
    <3>3. RestTells(file, Len(src.files[file.path]), page')
      BY <1>1, <1>3, <3>1, <3>2, RestTold
    <3>4. page'.more => on \in InFile
      <4> SUFFICES ASSUME page'.more
                   PROVE  on \in InFile
        OBVIOUS
      <4> DEFINE n == page'.next
      <4>1. n \in Nat /\ n <= Len(src.files[file.path]) - 1
        <5> DEFINE l == Len(src.files[file.path])
        <5>1. src.files[file.path] \in Seq(Nat \ {0}) /\ file.next \in Nat
          BY <1>1, <1>3, <3>1, BatchSource DEF InFile
        <5>2. l \in Nat
          BY <5>1
        <5>3. n \in Nat /\ n < l
          BY <3>3, <5>1 DEF RestTells
        <5> HIDE DEF l, n
        <5>4. n <= l - 1
          BY <5>2, <5>3
        <5> QED
          BY <5>3, <5>4 DEF l
      <4> HIDE DEF n
      <4>2. [file EXCEPT !.next = n] \in InFile
        BY <3>1, <4>1 DEF InFile
      <4> QED
        BY <4>2 DEF n
    <3> HIDE DEF on
    <3>5. rest' \subseteq InFile
      BY <2>1, <3>2, <3>4
    <3> QED
      BY <1>1, <2>1, <2>2, <3>2, <3>5 DEF BatchInv
  <2> QED
    BY <1>3, <2>3, <2>4, <2>5, StepsOfBatch
<1> QED
  BY <1>2, <1>3

(* It holds of every behaviour.                                            *)
LEMMA BatchAlways == Spec => []BatchInv
<1>1. Init => BatchInv
  BY BatchBegins
<1>2. IInv /\ BatchInv /\ [Next]_vars => BatchInv'
  BY BatchKept
<1> QED
  BY <1>1, <1>2, AlwaysGood, PTL DEF Spec

-----------------------------------------------------------------------------
(* Every reader but that of a search in the contents of files.             *)
NoSearch == src.kind # "grep"

(* Such a reader reads a batch or is one of those above.                   *)
LEMMA TwoReaders ==
    ASSUME NoSearch
    PROVE  ReadOn \/ Batch
BY DEF NoSearch, ReadOn, Batch

(* The offsets of a batch are of their kinds.                              *)
LEMMA BatchTyped ==
    ASSUME IInv, BatchInv, Batch
    PROVE  TypeOK
<1>1. /\ src \in Sources /\ cursor \in 0 .. Len(src.files) /\ rest \subseteq InFile
      /\ phase \in {"open", "done"} /\ status \in {"running", "over"}
      /\ log = <<>> /\ call = Idle /\ scan = NoScan
  BY DEF IInv, BatchInv
<1>2. \A file \in rest : file.next \in 0 .. Len(src.files[file.path]) - 1
  <2> TAKE file \in rest
  <2>1. file.path \in 1 .. Len(src.files) /\ file.next \in Nat /\ file.next <= Len(src.files[file.path]) - 1
    BY <1>1 DEF InFile
  <2>2. src.files[file.path] \in Seq(Nat \ {0})
    BY <1>1, <2>1, BatchSource
  <2> DEFINE l == Len(src.files[file.path])
  <2>3. l \in Nat
    BY <2>2
  <2> HIDE DEF l
  <2>4. file.next <= l - 1
    BY <2>1 DEF l
  <2>5. file.next \in 0 .. l - 1
    BY <2>1, <2>3, <2>4
  <2> QED
    BY <2>5 DEF l
<1>3. Len(scan.c.pending) <= MaxPending
  <2>1. scan.c.pending = <<>>
    BY <1>1 DEF NoScan, Collector
  <2>2. Len(<<>>) = 0 /\ 0 <= MaxPending
    BY PendingAssumption
  <2> QED
    BY <2>1, <2>2
<1>4. /\ call.at \in {"idle", "status", "size", "bytes", "answer"}
      /\ call.max \in {0} \cup ByteLimits /\ call.terminal \in BOOLEAN
      /\ call.size \in 0 .. Len(log) /\ Len(call.raw) <= call.max
  <2>1. call.at = "idle" /\ call.max = 0 /\ call.terminal = FALSE /\ call.size = 0 /\ call.raw = <<>>
    BY <1>1 DEF Idle
  <2>2. call.size \in 0 .. Len(log) /\ Len(call.raw) <= call.max
    BY <1>1, <2>1
  <2> QED
    BY <2>1, <2>2
<1>5. log \in BoundedSeq(Bytes, LogLimit)
  <2>1. <<>> \in Seq(Bytes) /\ Len(<<>>) = 0 /\ 0 \in 0 .. LogLimit /\ <<>> \in [1 .. 0 -> Bytes]
    BY ReadingAssumption
  <2> QED
    BY <1>1, <2>1 DEF BoundedSeq, SeqOf
<1>6. cursor \in 0 .. (CASE src.kind = "diff"  -> Total(src.chars)
                        [] src.kind = "log"   -> Len(log)
                        [] src.kind = "files" -> Len(src.files)
                        [] OTHER              -> Len(Whole))
  BY <1>1 DEF Batch
<1> QED
  BY <1>1, <1>2, <1>3, <1>4, <1>5, <1>6 DEF TypeOK

-----------------------------------------------------------------------------
(* The last page of a batch comes after its last file.                     *)
LEMMA BatchEnds ==
    ASSUME IInv, BatchInv, Batch, [Next]_vars, phase' = "done", phase = "open"
    PROVE  cursor' = Len(src.files)
<1>1. ~ UNCHANGED vars
  BY DEF vars
<1>2. ~ \E file \in rest, limit \in Limits : AskRest(file, limit)
  BY DEF AskRest
<1>3. AskBatch
  BY <1>1, <1>2, StepsOfBatch
<1> DEFINE p == Files(src, cursor)
<1>4. BatchTells(src, cursor, p) /\ page'.next = p.next /\ page'.more = p.more
  BY <1>3, BatchAsked DEF IInv
<1>5. cursor' = p.next /\ ~ page'.more
  BY <1>3, <1>4 DEF AskBatch
<1>6. p.next \in Nat /\ p.next <= Len(src.files) /\ p.more = (p.next < Len(src.files))
  BY <1>4 DEF BatchTells
<1>7. ~ (p.next < Len(src.files))
  BY <1>4, <1>5, <1>6, Zenon
<1>8. Len(src.files) \in Nat
  BY BatchSource DEF IInv
<1> HIDE DEF p
<1> QED
  BY <1>5, <1>6, <1>7, <1>8

(* A page that says that there is no more has given the reader everything  *)
(* that was there when it was made, of a batch all its files but for those *)
(* whose own pages go on (EndMeansAll): for a log that is so because       *)
(* job_output reads the status before the size.                            *)
THEOREM TheEndIsReached == Spec /\ []NoSearch => EndMeansAll
<1>1. IInv /\ BatchInv /\ NoSearch /\ [Next]_vars
      => [phase' = "done" /\ phase = "open"
          => IF src.kind = "files" THEN cursor' = Len(src.files) ELSE Places(got') = Places(Whole')]_vars
  <2> SUFFICES ASSUME IInv, BatchInv, NoSearch, [Next]_vars, phase' = "done", phase = "open"
               PROVE  IF src.kind = "files" THEN cursor' = Len(src.files) ELSE Places(got') = Places(Whole')
    OBVIOUS
  <2>1. CASE Batch
    BY <2>1, BatchEnds DEF Batch
  <2>2. CASE ReadOn
    BY <2>2, EndStep DEF ReadOn
  <2> QED
    BY <2>1, <2>2, TwoReaders
<1> QED
  BY <1>1, AlwaysGood, BatchAlways, PTL DEF Spec, EndMeansAll

-----------------------------------------------------------------------------
(* A page of a batch, or of one of its files, after which there is more.   *)
LEMMA BatchGoesOn ==
    ASSUME IInv, BatchInv, Batch, [Next]_vars, page' # page, page'.more
    PROVE  page'.next > cursor \/ rest' # rest \/ ~ Readily
<1>1. src \in Sources /\ rest \subseteq InFile
  BY DEF IInv, BatchInv
<1>2. ~ UNCHANGED vars
  BY DEF vars
<1>3. CASE AskBatch
  <2> DEFINE p == Files(src, cursor)
  <2>1. BatchTells(src, cursor, p) /\ page'.next = p.next /\ page'.more = p.more
    BY <1>1, <1>3, BatchAsked
  <2>2. p.more /\ src.envelope + src.perFile <= Room => p.next > cursor
    BY <2>1 DEF BatchTells
  <2>3. Readily => src.envelope + src.perFile <= Room
    BY DEF Readily, Batch
  <2> HIDE DEF p
  <2> QED
    BY <2>1, <2>2, <2>3
<1>4. ASSUME NEW file \in rest, NEW limit \in Limits, AskRest(file, limit)
      PROVE  rest' # rest
  <2> DEFINE on == [file EXCEPT !.next = page'.next]
  <2>1. file \in InFile
    BY <1>1
  <2>2. page' = RestOf(file, limit) /\ rest' = (rest \ {file}) \cup {on}
    BY <1>4 DEF AskRest
  <2>3. RestTells(file, Len(src.files[file.path]), page')
    BY <1>1, <2>1, <2>2, RestTold
  <2>4. page'.next > file.next /\ page'.next \in Nat /\ file.next \in Nat
    BY <2>1, <2>3 DEF RestTells, InFile
  <2> DEFINE n == page'.next
  <2>5. n \in Nat /\ n # file.next
    BY <2>4
  <2> HIDE DEF n
  <2>6. [file EXCEPT !.next = n].next = n
    BY <2>1, <2>5 DEF InFile
  <2>7. on # file
    BY <2>5, <2>6 DEF n
  <2> HIDE DEF on
  <2>8. file \notin rest'
    BY <2>2, <2>7
  <2> QED
    BY <2>8
<1> QED
  BY <1>2, <1>3, <1>4, StepsOfBatch

(* Nobody is told to go on from where he is, unless what is next is larger *)
(* than a page or is yet to be written, and the tool says so               *)
(* (PagesAdvance).                                                         *)
THEOREM ReadersAdvance == Spec /\ []NoSearch => PagesAdvance
<1>1. IInv /\ BatchInv /\ NoSearch /\ [Next]_vars
      => [page' # page /\ page'.more
          => \/ page'.next > cursor
             \/ src.kind = "files" /\ rest' # rest
             \/ /\ ~ Readily
                /\ src.kind = "diff" => page'.note = "continuation_blocked"
                /\ src.kind = "log" /\ call.size > cursor => page'.note = "minimum_max_bytes"]_vars
  <2> SUFFICES ASSUME IInv, BatchInv, NoSearch, [Next]_vars, page' # page, page'.more
               PROVE  \/ page'.next > cursor
                      \/ src.kind = "files" /\ rest' # rest
                      \/ /\ ~ Readily
                         /\ src.kind = "diff" => page'.note = "continuation_blocked"
                         /\ src.kind = "log" /\ call.size > cursor => page'.note = "minimum_max_bytes"
    OBVIOUS
  <2>1. CASE Batch
    <3>1. src.kind = "files" /\ src.kind # "diff" /\ src.kind # "log"
      BY <2>1 DEF Batch
    <3>2. page'.next > cursor \/ rest' # rest \/ ~ Readily
      BY <2>1, BatchGoesOn
    <3> QED
      BY <3>1, <3>2
  <2>2. CASE ReadOn
    BY <2>2, GoOnStep
  <2> QED
    BY <2>1, <2>2, TwoReaders
<1> QED
  BY <1>1, AlwaysGood, BatchAlways, PTL DEF Spec, PagesAdvance

-----------------------------------------------------------------------------
(* The lines that a reader of a batch has.                                 *)
(* Of each file, as many lines as counted, in their order and each once.   *)
HasLines(lines, count, files) ==
    /\ lines \in Seq(Nat \X Nat) /\ count \in [1 .. files -> Nat] /\ InOrder(lines)
    /\ \A k \in 1 .. Len(lines) :
          lines[k][1] \in 1 .. files /\ lines[k][2] \in 1 .. count[lines[k][1]]
    /\ \A p \in 1 .. files : \A i \in 1 .. count[p] :
          \E k \in 1 .. Len(lines) : lines[k] = <<p, i>>

(* The elements of two sequences, one after the other.                     *)
OneByOne(S, a, b) ==
    /\ a \o b \in Seq(S) /\ Len(a \o b) = Len(a) + Len(b)
    /\ \A k \in 1 .. Len(a) : (a \o b)[k] = a[k]
    /\ \A k \in 1 .. Len(b) : (a \o b)[Len(a) + k] = b[k]

(* They are those of the first, then those of the second.                  *)
LEMMA JoinedAt ==
    ASSUME NEW S, NEW a \in Seq(S), NEW b \in Seq(S)
    PROVE  OneByOne(S, a, b)
BY DEF OneByOne

(* Who has read the lines of a file up to a place and reads the next ones  *)
(* has its lines up to a later place.                                      *)
LEMMA BlockAdded ==
    ASSUME NEW lines, NEW count, NEW files \in Nat, HasLines(lines, count, files),
           NEW p \in 1 .. files, NEW n \in Nat
    PROVE  HasLines(lines \o Block(p, count[p], n), [count EXCEPT ![p] = count[p] + n], files)
<1> DEFINE at == count[p]
           new == Block(p, at, n)
           all == lines \o new
           upto == [count EXCEPT ![p] = at + n]
           m == Len(lines)
           P == Nat \X Nat
<1>1. lines \in Seq(P) /\ at \in Nat /\ m \in Nat /\ count \in [1 .. files -> Nat] /\ p \in Nat
  BY DEF HasLines
<1>2. /\ \A k \in 1 .. m : lines[k][1] \in 1 .. files /\ lines[k][2] \in 1 .. count[lines[k][1]]
      /\ \A q \in 1 .. files : \A i \in 1 .. count[q] : \E k \in 1 .. m : lines[k] = <<q, i>>
  BY DEF HasLines
<1>3. \A j, k \in 1 .. m : j < k /\ lines[j][1] = lines[k][1] => lines[j][2] < lines[k][2]
  <2>1. DOMAIN lines = 1 .. m
    BY <1>1
  <2>2. InOrder(lines)
    BY DEF HasLines
  <2> QED
    BY <2>1, <2>2, Zenon DEF InOrder
<1> HIDE DEF at
<1>4. new \in Seq(P) /\ Len(new) = n /\ \A k \in 1 .. n : new[k] = <<p, at + k>>
  <2>1. \A k \in 1 .. n : <<p, at + k>> \in P
    BY <1>1
  <2> QED
    BY <2>1 DEF Block
<1> HIDE DEF new, P
<1>5. /\ all \in Seq(P) /\ Len(all) = m + n
      /\ \A k \in 1 .. m : all[k] = lines[k]
      /\ \A k \in 1 .. n : all[m + k] = new[k]
  <2>1. /\ all \in Seq(P) /\ Len(all) = m + Len(new)
        /\ \A k \in 1 .. m : all[k] = lines[k]
        /\ \A k \in 1 .. Len(new) : all[m + k] = new[k]
    <3>1. OneByOne(P, lines, new)
      BY <1>1, <1>4, JoinedAt
    <3> QED
      BY <3>1, Zenon DEF OneByOne, all, m
  <2> QED
    BY <1>4, <2>1, Zenon
<1> HIDE DEF all, m
<1>6. \A k \in 1 .. m + n : k \in 1 .. m \/ \E i \in 1 .. n : k = m + i
  <2> TAKE k \in 1 .. m + n
  <2>1. CASE k <= m
    BY <1>1, <2>1
  <2>2. CASE ~ (k <= m)
    <3>1. k - m \in 1 .. n /\ k = m + (k - m)
      BY <1>1, <2>2
    <3> QED
      BY <3>1
  <2> QED
    BY <2>1, <2>2
<1>7. \A k \in 1 .. n : all[m + k][1] = p /\ all[m + k][2] = at + k
  BY <1>4, <1>5
<1>8. upto \in [1 .. files -> Nat] /\ upto[p] = at + n /\ \A q \in 1 .. files : q # p => upto[q] = count[q]
  BY <1>1
<1>9. \A q \in 1 .. files : count[q] \in Nat /\ count[q] <= upto[q]
  BY <1>1, <1>8 DEF at
<1> HIDE DEF upto
<1>10. ASSUME NEW j \in 1 .. m + n, NEW k \in 1 .. m + n, j < k, all[j][1] = all[k][1]
       PROVE  all[j][2] < all[k][2]
  <2>1. CASE k \in 1 .. m
    <3>1. j \in 1 .. m
      BY <1>1, <1>10, <2>1
    <3> QED
      BY <1>3, <1>5, <1>10, <2>1, <3>1
  <2>2. ASSUME NEW i \in 1 .. n, k = m + i
        PROVE  all[j][2] < all[k][2]
    <3>1. all[k][1] = p /\ all[k][2] = at + i
      BY <1>7, <2>2
    <3>2. CASE j \in 1 .. m
      <4>1. lines[j][1] = p
        BY <1>5, <1>10, <3>1, <3>2
      <4>2. lines[j][2] \in 1 .. at
        BY <1>2, <3>2, <4>1 DEF at
      <4>3. all[j][2] = lines[j][2]
        BY <1>5, <3>2
      <4> DEFINE x == lines[j][2]
      <4>4. x \in 1 .. at
        BY <4>2
      <4> HIDE DEF x
      <4>5. x < at + i
        BY <1>1, <4>4
      <4> QED
        BY <3>1, <4>3, <4>5 DEF x
    <3>3. ASSUME NEW h \in 1 .. n, j = m + h
          PROVE  all[j][2] < all[k][2]
      <4>1. all[j][2] = at + h
        BY <1>7, <3>3
      <4>2. at + h < at + i
        BY <1>1, <1>10, <2>2, <3>3
      <4> QED
        BY <3>1, <4>1, <4>2
    <3> QED
      BY <1>6, <3>2, <3>3
  <2> QED
    BY <1>6, <2>1, <2>2
<1>11. InOrder(all)
  <2>1. DOMAIN all = 1 .. m + n
    BY <1>5
  <2> QED
    BY <1>10, <2>1 DEF InOrder
<1>12. ASSUME NEW k \in 1 .. m + n
       PROVE  all[k][1] \in 1 .. files /\ all[k][2] \in 1 .. upto[all[k][1]]
  <2>1. CASE k \in 1 .. m
    <3> DEFINE q == lines[k][1]
               x == lines[k][2]
    <3>1. q \in 1 .. files /\ x \in 1 .. count[q]
      BY <1>2, <2>1
    <3>2. all[k][1] = q /\ all[k][2] = x
      BY <1>5, <2>1
    <3> HIDE DEF q, x
    <3>3. x \in 1 .. upto[q]
      <4>1. count[q] \in Nat /\ count[q] <= upto[q] /\ upto[q] \in Nat
        BY <1>8, <1>9, <3>1
      <4> QED
        BY <3>1, <4>1
    <3> QED
      BY <3>1, <3>2, <3>3
  <2>2. ASSUME NEW i \in 1 .. n, k = m + i
        PROVE  all[k][1] \in 1 .. files /\ all[k][2] \in 1 .. upto[all[k][1]]
    <3>1. all[k][1] = p /\ all[k][2] = at + i
      BY <1>7, <2>2
    <3>2. at + i \in 1 .. at + n
      BY <1>1
    <3> QED
      BY <1>8, <3>1, <3>2
  <2> QED
    BY <1>6, <2>1, <2>2
<1>13. ASSUME NEW q \in 1 .. files, NEW i \in 1 .. upto[q]
       PROVE  \E k \in 1 .. m + n : all[k] = <<q, i>>
  <2>1. CASE i <= count[q]
    <3>1. i \in 1 .. count[q]
      <4>1. count[q] \in Nat /\ upto[q] \in Nat
        BY <1>8, <1>9
      <4> QED
        BY <2>1, <4>1
    <3>2. PICK k \in 1 .. m : lines[k] = <<q, i>>
      BY <1>2, <3>1
    <3>3. k \in 1 .. m + n /\ all[k] = <<q, i>>
      BY <1>1, <1>5, <3>2
    <3> QED
      BY <3>3
  <2>2. CASE ~ (i <= count[q])
    <3>1. q = p
      <4>1. q # p => upto[q] = count[q] /\ count[q] \in Nat
        BY <1>8, <1>9
      <4> QED
        BY <2>2, <4>1
    <3>2. i \in 1 .. at + n /\ ~ (i <= at)
      BY <1>8, <2>2, <3>1 DEF at
    <3> DEFINE h == i - at
    <3>3. h \in 1 .. n /\ at + h = i
      BY <1>1, <3>2
    <3> HIDE DEF h
    <3>4. all[m + h] = <<p, at + h>> /\ m + h \in 1 .. m + n
      <4>1. all[m + h] = <<p, at + h>>
        BY <1>4, <1>5, <3>3, Zenon
      <4>2. m + h \in 1 .. m + n
        BY <1>1, <3>3
      <4> QED
        BY <4>1, <4>2
    <3>5. all[m + h] = <<q, i>>
      BY <3>1, <3>3, <3>4
    <3> QED
      BY <3>4, <3>5
  <2> QED
    BY <2>1, <2>2
<1>14. HasLines(all, upto, files)
  BY <1>5, <1>8, <1>11, <1>12, <1>13 DEF HasLines, P
<1> QED
  BY <1>14 DEF all, upto, new, at

-----------------------------------------------------------------------------
(* The sequences put one after the other by FlattenSeq, so far.            *)
Flats(g, seqs, n) == g = [i \in 1 .. n |-> IF i = 1 THEN seqs[i] ELSE g[i - 1] \o seqs[i]]

(* However many there are, they can be put one after the other.            *)
LEMMA FlatsExist ==
    ASSUME NEW seqs, NEW n \in Nat
    PROVE  \E g : Flats(g, seqs, n)
<1> DEFINE Missing == {k \in Nat : ~ \E g : Flats(g, seqs, k)}
<1>1. \E g : Flats(g, seqs, 0)
  <2> DEFINE g == [i \in 1 .. 0 |-> <<>>]
  <2>1. g = [i \in 1 .. 0 |-> IF i = 1 THEN seqs[i] ELSE g[i - 1] \o seqs[i]]
    <3>1. \A i \in 1 .. 0 : FALSE
      OBVIOUS
    <3> QED
      BY <3>1
  <2>2. Flats(g, seqs, 0)
    BY <2>1 DEF Flats
  <2> QED
    BY <2>2
<1>2. ASSUME NEW k \in Nat, NEW g, Flats(g, seqs, k)
      PROVE  \E h : Flats(h, seqs, k + 1)
  <2> DEFINE h == [i \in 1 .. k + 1 |-> IF i = 1 THEN seqs[i] ELSE g[i - 1] \o seqs[i]]
  <2>1. \A i \in 1 .. k : i \in 1 .. k + 1
    OBVIOUS
  <2>2. \A i \in 1 .. k : h[i] = g[i]
    BY <1>2, <2>1 DEF Flats
  <2>3. \A i \in 1 .. k + 1 : i # 1 => i - 1 \in 1 .. k
    OBVIOUS
  <2>4. \A i \in 1 .. k + 1 : i # 1 => h[i - 1] = g[i - 1]
    BY <2>2, <2>3
  <2>5. Flats(h, seqs, k + 1)
    BY <2>4 DEF Flats
  <2> QED
    BY <2>5
<1>3. Missing = {}
  <2> SUFFICES ASSUME Missing # {}
               PROVE  FALSE
    OBVIOUS
  <2>1. PICK k \in Missing : \A j \in Missing : k <= j
    BY LeastNatural
  <2>2. k \in Nat /\ ~ \E g : Flats(g, seqs, k)
    BY <2>1
  <2>3. k # 0
    BY <1>1, <2>2
  <2>4. k - 1 \in Nat /\ k - 1 \notin Missing /\ (k - 1) + 1 = k
    BY <2>1, <2>2, <2>3
  <2>5. \E g : Flats(g, seqs, k - 1)
    BY <2>4
  <2> QED
    BY <1>2, <2>2, <2>4, <2>5
<1> QED
  BY <1>3

(* What FlattenSeq makes of them is the last of these sequences.           *)
LEMMA FlatIsLast ==
    ASSUME NEW seqs, NEW n \in Nat \ {0}, Len(seqs) = n
    PROVE  \E g : Flats(g, seqs, n) /\ FlattenSeq(seqs) = g[n]
<1> DEFINE flat == CHOOSE g : Flats(g, seqs, n)
<1>1. Flats(flat, seqs, n)
  BY FlatsExist
<1>2. flat = CHOOSE g : g = [i \in 1 .. Len(seqs) |-> IF i = 1 THEN seqs[i] ELSE g[i - 1] \o seqs[i]]
  BY Zenon DEF Flats
<1>3. n # 0
  OBVIOUS
<1> HIDE DEF flat
<1>4. FlattenSeq(seqs) = flat[n]
  BY <1>2, <1>3, Zenon DEF FlattenSeq
<1> QED
  BY <1>1, <1>4

(* How many lines of each file a reader has who had some and read the      *)
(* results of the first files of a page as well.                           *)
CountAfter(count, results, from, files, k) ==
    [p \in 1 .. files |-> IF from < p /\ p <= from + k THEN results[p - from].lines ELSE count[p]]

(* A reader of a page of a batch has the lines it says of each file.       *)
LEMMA PageAdded ==
    ASSUME NEW lines, NEW count, NEW files \in Nat, HasLines(lines, count, files),
           NEW from \in Nat, NEW results \in Seq(ResultKind), from + Len(results) <= files,
           \A i \in 1 .. Len(results) : results[i].path = from + i /\ count[from + i] = 0
    PROVE  HasLines(lines \o LinesOf(results),
                    CountAfter(count, results, from, files, Len(results)), files)
<1> DEFINE n == Len(results)
           P == Nat \X Nat
           seqs == [r \in 1 .. n |-> [i \in 1 .. results[r].lines |-> <<results[r].path, i>>]]
           C(k) == CountAfter(count, results, from, files, k)
<1>1. lines \in Seq(P) /\ count \in [1 .. files -> Nat] /\ n \in Nat
  BY DEF HasLines
<1>2. LinesOf(results) = FlattenSeq(seqs) /\ Len(seqs) = n
  BY DEF LinesOf
<1>3. ASSUME NEW r \in 1 .. n
      PROVE  /\ seqs[r] = Block(from + r, 0, results[r].lines) /\ seqs[r] \in Seq(P)
             /\ results[r].lines \in Nat /\ from + r \in 1 .. files /\ count[from + r] = 0
  <2>1. results[r] \in ResultKind /\ results[r].path = from + r
    OBVIOUS
  <2>2. results[r].lines \in Nat /\ from + r \in Nat /\ from + r \in 1 .. files
    BY <2>1 DEF ResultKind
  <2> DEFINE l == results[r].lines
             x == from + r
  <2>3. seqs[r] = [i \in 1 .. l |-> <<x, i>>]
    BY <2>1
  <2>4. l \in Nat /\ x \in Nat
    BY <2>2
  <2> HIDE DEF l, x, seqs
  <2>5. \A i \in 1 .. l : 0 + i = i /\ <<x, i>> \in P
    BY <2>4
  <2>6. seqs[r] = Block(x, 0, l)
    BY <2>3, <2>5 DEF Block
  <2>7. seqs[r] \in Seq(P)
    <3> HIDE DEF P
    <3> QED
      BY <2>3, <2>4, <2>5
  <2> QED
    BY <2>2, <2>6, <2>7 DEF l, x
<1>4. C(0) = count
  <2>1. \A p \in 1 .. files : ~ (from < p /\ p <= from + 0)
    OBVIOUS
  <2>2. C(0) = [p \in 1 .. files |-> count[p]]
    BY <2>1 DEF CountAfter
  <2> QED
    BY <1>1, <2>2
<1>5. CASE n = 0
  <2>1. FlattenSeq(seqs) = seqs
    BY <1>2, <1>5, Zenon DEF FlattenSeq
  <2>2. seqs = <<>>
    BY <1>5
  <2>3. lines \o <<>> = lines
    BY <1>1
  <2> HIDE DEF seqs
  <2>4. lines \o LinesOf(results) = lines
    BY <1>2, <2>1, <2>2, <2>3
  <2> QED
    BY <1>4, <1>5, <2>4, Zenon
<1>6. CASE n # 0
  <2>1. n \in Nat \ {0}
    BY <1>1, <1>6
  <2> HIDE DEF n, seqs, C
  <2>2. PICK g : Flats(g, seqs, n) /\ FlattenSeq(seqs) = g[n]
    BY <1>2, <2>1, FlatIsLast
  <2>3. \A i \in 1 .. n : g[i] = IF i = 1 THEN seqs[i] ELSE g[i - 1] \o seqs[i]
    BY <2>2 DEF Flats
  <2> DEFINE A(k) == g[k] \in Seq(P) /\ HasLines(lines \o g[k], C(k), files)
             Odd == {k \in Nat : 1 <= k /\ k <= n /\ ~ A(k)}
  <2>4. ASSUME NEW k \in Nat, k + 1 <= n, NEW before, HasLines(before, C(k), files)
        PROVE  HasLines(before \o seqs[k + 1], C(k + 1), files)
    <3> DEFINE p == from + (k + 1)
               l == results[k + 1].lines
    <3>1. k + 1 \in 1 .. n
      BY <2>1, <2>4
    <3>2. seqs[k + 1] = Block(p, 0, l) /\ l \in Nat /\ p \in 1 .. files /\ count[p] = 0
      BY <1>3, <3>1
    <3>3. C(k)[p] = 0
      <4>1. ~ (p <= from + k)
        OBVIOUS
      <4> HIDE DEF p
      <4> QED
        BY <3>2, <4>1 DEF C, CountAfter
    <3>4. HasLines(before \o Block(p, C(k)[p], l), [C(k) EXCEPT ![p] = C(k)[p] + l], files)
      <4> HIDE DEF p, l
      <4> QED
        BY <2>4, <3>2, BlockAdded
    <3>5. C(k + 1) = [C(k) EXCEPT ![p] = 0 + l]
      <4>1. p - from = k + 1 /\ from < p /\ p <= from + (k + 1) /\ p \in Nat
        OBVIOUS
      <4>2. ASSUME NEW q \in 1 .. files
            PROVE  C(k + 1)[q] = [C(k) EXCEPT ![p] = 0 + l][q]
        <5>1. CASE q = p
          <6>1. C(k + 1)[q] = results[q - from].lines
            <7> HIDE DEF p
            <7> QED
              BY <4>1, <5>1 DEF C, CountAfter
          <6>2. C(k + 1)[q] = l
            BY <4>1, <5>1, <6>1
          <6>3. [C(k) EXCEPT ![p] = 0 + l][q] = 0 + l
            <7>1. p \in DOMAIN C(k)
              BY <3>2 DEF C, CountAfter
            <7> HIDE DEF l, p
            <7> QED
              BY <5>1, <7>1
          <6>4. 0 + l = l
            BY <3>2
          <6> QED
            BY <6>2, <6>3, <6>4, Zenon
        <5>2. CASE q # p
          <6>1. (from < q /\ q <= from + (k + 1)) = (from < q /\ q <= from + k)
            <7>1. q <= from + (k + 1) => q <= from + k
              <8>1. q # from + (k + 1) /\ q \in Nat /\ from \in Nat /\ k \in Nat
                BY <5>2
              <8> QED
                BY ONLY <8>1
            <7>2. q <= from + k => q <= from + (k + 1)
              OBVIOUS
            <7> QED
              BY <7>1, <7>2, Zenon
          <6>2. C(k + 1)[q] = C(k)[q]
            BY <6>1, Zenon DEF C, CountAfter
          <6>3. [C(k) EXCEPT ![p] = 0 + l][q] = C(k)[q]
            <7>1. q \in DOMAIN C(k)
              BY DEF C, CountAfter
            <7> HIDE DEF l, p
            <7> QED
              BY <5>2, <7>1
          <6> QED
            BY <6>2, <6>3, Zenon
        <5> QED
          BY <5>1, <5>2
      <4>3. DOMAIN C(k + 1) = 1 .. files /\ DOMAIN C(k) = 1 .. files
            /\ C(k + 1) = [q \in 1 .. files |-> C(k + 1)[q]]
        BY DEF C, CountAfter
      <4>4. [C(k) EXCEPT ![p] = 0 + l] = [q \in 1 .. files |-> [C(k) EXCEPT ![p] = 0 + l][q]]
        <5> HIDE DEF l, p
        <5> QED
          BY <4>3
      <4> HIDE DEF l, p
      <4> QED
        BY <4>2, <4>3, <4>4
    <3> HIDE DEF p, l
    <3> QED
      BY <3>2, <3>3, <3>4, <3>5, Zenon
  <2>5. A(1)
    <3>1. 0 \in Nat /\ 0 + 1 = 1 /\ 1 <= n /\ 1 \in 1 .. n
      BY <2>1
    <3>2. g[1] = seqs[1]
      BY <2>3, <3>1
    <3>3. HasLines(lines \o seqs[0 + 1], C(0 + 1), files)
      <4>1. HasLines(lines, C(0), files)
        BY <1>4
      <4> QED
        BY <2>4, <3>1, <4>1
    <3>4. g[1] \in Seq(P)
      BY <1>3, <3>1, <3>2, Zenon
    <3> QED
      BY <3>1, <3>2, <3>3, <3>4, Zenon
  <2>6. ASSUME NEW k \in Nat, 1 <= k, k + 1 <= n, A(k)
        PROVE  A(k + 1)
    <3> DEFINE s == seqs[k + 1]
    <3>1. k + 1 \in 1 .. n /\ k + 1 # 1 /\ (k + 1) - 1 = k
      BY <2>1, <2>6
    <3>2. g[k + 1] = g[k] \o s
      BY <2>3, <3>1
    <3>3. s \in Seq(P) /\ g[k] \in Seq(P)
      BY <1>3, <2>6, <3>1
    <3>4. HasLines((lines \o g[k]) \o s, C(k + 1), files)
      BY <2>4, <2>6
    <3> HIDE DEF s, P
    <3>5. JoinTells(P, lines, g[k], s)
      BY <1>1, <3>3, Joined
    <3>6. (lines \o g[k]) \o s = lines \o (g[k] \o s)
      BY <3>5, Zenon DEF JoinTells
    <3>7. g[k] \o s \in Seq(P)
      BY <3>3
    <3> QED
      BY <3>2, <3>4, <3>6, <3>7, Zenon
  <2> HIDE DEF A
  <2>7. Odd = {}
    <3> SUFFICES ASSUME Odd # {}
                 PROVE  FALSE
      OBVIOUS
    <3>1. PICK k \in Odd : \A j \in Odd : k <= j
      BY LeastNatural
    <3>2. k \in Nat /\ 1 <= k /\ k <= n /\ ~ A(k)
      BY <3>1
    <3>3. k # 1
      BY <2>5, <3>2
    <3>4. k - 1 \in Nat /\ k - 1 \notin Odd /\ 1 <= k - 1 /\ k - 1 <= n /\ (k - 1) + 1 = k
      BY <2>1, <3>1, <3>2, <3>3
    <3>5. A(k - 1)
      BY <3>4
    <3> QED
      BY <2>6, <3>2, <3>4, <3>5
  <2>8. A(n)
    BY <2>1, <2>7
  <2>9. HasLines(lines \o g[n], C(n), files)
    BY <2>8 DEF A
  <2> QED
    BY <1>2, <2>2, <2>9, Zenon DEF C, n
<1> QED
  BY <1>5, <1>6

-----------------------------------------------------------------------------
(* Where a reader of a batch is.                                           *)

(* UptoIn, of a place and of the files whose own pages go on.              *)
UptoOf(files, at, left, path) ==
    LET open == {file \in left : file.path = path}
    IN  IF path > at THEN 0
        ELSE IF open = {} THEN Len(files[path])
        ELSE (CHOOSE file \in open : TRUE).next

(* A file is there once.                                                   *)
Lone(left) == \A f, g \in left : f.path = g.path => f = g

(* Of a file that the batch has yet to come to, nothing is read; of one    *)
(* that goes on, up to where it does; of every other, all.                 *)
UptoTells(files, at, left) ==
    /\ \A p \in Nat : p > at => UptoOf(files, at, left, p) = 0
    /\ \A f \in left : f.path <= at => UptoOf(files, at, left, f.path) = f.next
    /\ \A p \in Nat : p <= at /\ (\A f \in left : f.path # p)
                        => UptoOf(files, at, left, p) = Len(files[p])

(* UptoIn finds that place when each file goes on in one place.            *)
LEMMA UptoTold ==
    ASSUME NEW files, NEW at \in Nat, NEW left, left \subseteq [path : Nat, next : Nat], Lone(left)
    PROVE  UptoTells(files, at, left)
<1>1. \A p \in Nat : p > at => UptoOf(files, at, left, p) = 0
  BY DEF UptoOf
<1>2. ASSUME NEW f \in left, f.path <= at
      PROVE  UptoOf(files, at, left, f.path) = f.next
  <2> DEFINE open == {file \in left : file.path = f.path}
             g == CHOOSE file \in open : TRUE
  <2>1. open = {f}
    BY DEF Lone
  <2>2. g \in open
    BY <2>1
  <2>3. g = f
    BY <2>1, <2>2
  <2>4. ~ (f.path > at) /\ open # {}
    BY <1>2, <2>1
  <2>5. UptoOf(files, at, left, f.path) = g.next
    <3> HIDE DEF g
    <3> QED
      BY <2>4, Zenon DEF UptoOf, g
  <2> QED
    BY <2>3, <2>5, Zenon
<1>3. ASSUME NEW p \in Nat, p <= at, \A f \in left : f.path # p
      PROVE  UptoOf(files, at, left, p) = Len(files[p])
  <2>1. ~ (p > at) /\ {file \in left : file.path = p} = {}
    BY <1>3
  <2> QED
    BY <2>1, Zenon DEF UptoOf
<1> QED
  BY <1>1, <1>2, <1>3 DEF UptoTells

(* A reader of a batch has of every file the lines up to where he is.      *)
Counted == [p \in 1 .. Len(src.files) |-> UptoIn(p)]
LineInv ==
    Batch => /\ HasLines(got, Counted, Len(src.files))
             /\ Lone(rest) /\ \A file \in rest : file.path <= cursor

(* What a file is and where it goes on is all there is to say of it.       *)
LEMMA SameFile ==
    ASSUME NEW f \in [path : Nat, next : Nat], NEW g \in [path : Nat, next : Nat],
           f.path = g.path, f.next = g.next
    PROVE  f = g
OBVIOUS

(* Before the first page he has none.                                      *)
LEMMA LinesBegin ==
    ASSUME Init
    PROVE  LineInv
<1>1. src \in Sources /\ cursor = 0 /\ got = <<>> /\ rest = {}
  BY DEF Init
<1>2. SUFFICES ASSUME Batch
               PROVE  HasLines(got, Counted, Len(src.files)) /\ Lone(rest)
                      /\ \A file \in rest : file.path <= cursor
  BY DEF LineInv
<1>3. Len(src.files) \in Nat
  BY <1>1, BatchSource
<1>4. Counted = [p \in 1 .. Len(src.files) |-> 0]
  <2>1. \A p \in 1 .. Len(src.files) : p > cursor
    BY <1>1, <1>3
  <2>2. \A p \in 1 .. Len(src.files) : UptoIn(p) = 0
    BY <2>1, Zenon DEF UptoIn
  <2> QED
    BY <2>2 DEF Counted
<1> DEFINE n == Len(src.files)
           c == [p \in 1 .. n |-> 0]
<1>5. HasLines(<<>>, c, n)
  <2>1. c \in [1 .. n -> Nat] /\ \A p \in 1 .. n : \A i \in 1 .. c[p] : FALSE
    OBVIOUS
  <2>2. <<>> \in Seq(Nat \X Nat) /\ Len(<<>>) = 0 /\ DOMAIN <<>> = {} /\ \A k \in 1 .. 0 : FALSE
    OBVIOUS
  <2>3. InOrder(<<>>)
    BY <2>2 DEF InOrder
  <2> HIDE DEF c
  <2> QED
    BY <2>1, <2>2, <2>3 DEF HasLines
<1> QED
  BY <1>1, <1>4, <1>5 DEF Lone

(* The next page of a batch.                                               *)
LEMMA LinesOfPage ==
    ASSUME src \in Sources, Batch, BatchInv, LineInv, AskBatch
    PROVE  HasLines(got', Counted', Len(src.files)) /\ Lone(rest') /\ \A file \in rest' : file.path <= cursor'
<1> DEFINE p == Files(src, cursor)
           items == p.items
           n == Len(src.files)
           Unread == {[path |-> r.path, next |-> r.next] : r \in {x \in Range(items) : x.more}}
           count == Counted
<1>1. /\ cursor \in 0 .. n /\ rest \subseteq InFile /\ HasLines(got, count, n) /\ Lone(rest)
      /\ \A file \in rest : file.path <= cursor
  BY DEF BatchInv, LineInv
<1>2. n \in Nat /\ cursor \in Nat
  BY <1>1, BatchSource
<1>3. BatchTells(src, cursor, p) /\ page'.next = p.next
  BY BatchAsked
<1>4. page' = [p EXCEPT !.items = LinesOf(@)] /\ rest' = rest \cup Unread /\ cursor' = page'.next
      /\ got' = got \o page'.items /\ src' = src
  BY DEF AskBatch
<1>5. page'.items = LinesOf(items)
  <2>1. \E x, next, more, note : p = [items |-> x, next |-> next, more |-> more, note |-> note]
    BY DEF Files, PageOf
  <2> HIDE DEF p
  <2> QED
    BY <1>4, <2>1
<1>6. /\ items \in Seq(ResultKind) /\ cursor' = cursor + Len(items) /\ cursor + Len(items) <= n
      /\ \A i \in 1 .. Len(items) : items[i].path = cursor + i /\ ResultTells(src, items[i])
  BY <1>3, <1>4 DEF BatchTells
<1> HIDE DEF p, items, n
<1>7. Len(items) \in Nat /\ cursor' \in Nat
  BY <1>2, <1>6
<1> DEFINE size == Len(items)
<1>8. \A i \in 1 .. size : cursor + i \in 1 .. n /\ cursor + i > cursor /\ cursor + i <= cursor'
  BY <1>2, <1>6, <1>7
<1>9. rest \subseteq [path : Nat, next : Nat]
  BY <1>1 DEF InFile
<1>10. UptoTells(src.files, cursor, rest)
  BY <1>1, <1>2, <1>9, UptoTold
<1>11. \A q \in 1 .. n : count[q] = UptoOf(src.files, cursor, rest, q)
  BY DEF Counted, UptoIn, UptoOf, n
<1>12. \A i \in 1 .. size : count[cursor + i] = 0
  <2> TAKE i \in 1 .. size
  <2>1. cursor + i \in 1 .. n /\ cursor + i > cursor /\ cursor + i \in Nat
    BY <1>8
  <2> QED
    BY <1>10, <1>11, <2>1 DEF UptoTells
<1> HIDE DEF count
<1>13. HasLines(got \o LinesOf(items), CountAfter(count, items, cursor, n, size), n)
  BY <1>1, <1>2, <1>6, <1>12, PageAdded
(* The files that go on.                                                   *)
<1>14. \A f \in Unread : \E i \in 1 .. size :
          items[i].more /\ f.path = cursor + i /\ f.next = items[i].lines /\ f \in [path : Nat, next : Nat]
  <2> SUFFICES ASSUME NEW r \in Range(items), r.more
               PROVE  \E i \in 1 .. size : LET f == [path |-> r.path, next |-> r.next]
                        IN items[i].more /\ f.path = cursor + i /\ f.next = items[i].lines
                           /\ f \in [path : Nat, next : Nat]
    OBVIOUS
  <2>1. PICK i \in 1 .. size : r = items[i]
    BY <1>6 DEF Range
  <2>2. r.path = cursor + i /\ r.next = r.lines /\ r.path \in Nat /\ r.next \in Nat
    <3>1. r \in ResultKind /\ ResultTells(src, r) /\ r.path = cursor + i
      BY <1>6, <2>1
    <3> QED
      BY <3>1 DEF ResultTells, ResultKind
  <2> QED
    BY <2>1, <2>2
<1>15. \A i \in 1 .. size : items[i].more => [path |-> cursor + i, next |-> items[i].lines] \in Unread
  <2> SUFFICES ASSUME NEW i \in 1 .. size, items[i].more
               PROVE  [path |-> cursor + i, next |-> items[i].lines] \in Unread
    OBVIOUS
  <2>1. items[i].path = cursor + i /\ items[i].next = items[i].lines
    BY <1>6 DEF ResultTells
  <2>2. items[i] \in Range(items)
    BY <1>6 DEF Range
  <2> QED
    BY <2>1, <2>2
<1> HIDE DEF Unread
<1>16. Unread \subseteq [path : Nat, next : Nat] /\ \A f \in Unread : f.path > cursor /\ f.path <= cursor'
  BY <1>8, <1>14
<1>17. \A f, g \in Unread : f.path = g.path => f = g
  <2> SUFFICES ASSUME NEW f \in Unread, NEW g \in Unread, f.path = g.path
               PROVE  f = g
    OBVIOUS
  <2>1. PICK i \in 1 .. size : f.path = cursor + i /\ f.next = items[i].lines /\ f \in [path : Nat, next : Nat]
    BY <1>14
  <2>2. PICK j \in 1 .. size : g.path = cursor + j /\ g.next = items[j].lines /\ g \in [path : Nat, next : Nat]
    BY <1>14
  <2>3. i = j
    <3>1. cursor + i = cursor + j
      BY <2>1, <2>2, Zenon
    <3>2. i \in Int /\ j \in Int
      OBVIOUS
    <3> QED
      BY ONLY <1>2, <3>1, <3>2
  <2>4. f.next = g.next
    BY <2>1, <2>2, <2>3
  <2> QED
    BY <2>1, <2>2, <2>4, SameFile
<1>18. Lone(rest') /\ rest' \subseteq [path : Nat, next : Nat]
  <2>1. \A f \in rest, g \in Unread : f.path \in Nat /\ g.path \in Nat /\ f.path # g.path
    BY <1>1, <1>2, <1>9, <1>16
  <2> QED
    BY <1>1, <1>4, <1>9, <1>16, <1>17, <2>1 DEF Lone
<1>19. \A file \in rest' : file.path <= cursor'
  <2>1. \A file \in rest : file.path \in Nat /\ file.path <= cursor
    BY <1>1, <1>9
  <2>2. cursor <= cursor'
    BY <1>2, <1>6, <1>7
  <2>3. \A file \in rest : file.path <= cursor'
    BY <1>2, <1>7, <2>1, <2>2
  <2> QED
    BY <1>4, <1>16, <2>3
<1>20. UptoTells(src.files, cursor', rest')
  BY <1>7, <1>18, UptoTold
<1> DEFINE after == CountAfter(count, items, cursor, n, size)
<1>21. ASSUME NEW q \in 1 .. n
       PROVE  UptoOf(src.files, cursor', rest', q) = after[q]
  <2>1. after[q] = IF cursor < q /\ q <= cursor + size THEN items[q - cursor].lines ELSE count[q]
    BY DEF CountAfter
  <2>2. q \in Nat /\ count[q] = UptoOf(src.files, cursor, rest, q)
    BY <1>11 DEF count
  <2> HIDE DEF after
  <2>3. CASE q <= cursor
    <3>1. after[q] = count[q] /\ q <= cursor'
      BY <1>2, <1>6, <1>7, <2>1, <2>3
    <3>2. CASE \E f \in rest : f.path = q
      <4>1. PICK f \in rest : f.path = q
        BY <3>2
      <4>2. UptoOf(src.files, cursor, rest, q) = f.next
        BY <1>10, <2>3, <4>1 DEF UptoTells
      <4>3. UptoOf(src.files, cursor', rest', q) = f.next
        BY <1>4, <1>20, <3>1, <4>1 DEF UptoTells
      <4> QED
        BY <2>2, <3>1, <4>2, <4>3, Zenon
    <3>3. CASE ~ \E f \in rest : f.path = q
      <4>1. UptoOf(src.files, cursor, rest, q) = Len(src.files[q])
        BY <1>10, <2>2, <2>3, <3>3 DEF UptoTells
      <4>2. \A f \in Unread : f.path # q
        BY <1>2, <1>16, <2>3
      <4>3. \A f \in rest' : f.path # q
        BY <1>4, <3>3, <4>2
      <4>4. UptoOf(src.files, cursor', rest', q) = Len(src.files[q])
        BY <1>20, <2>2, <3>1, <4>3 DEF UptoTells
      <4> QED
        BY <2>2, <3>1, <4>1, <4>4, Zenon
    <3> QED
      BY <3>2, <3>3
  <2>4. CASE cursor < q /\ q <= cursor'
    <3> DEFINE i == q - cursor
    <3>1. i \in 1 .. size /\ cursor + i = q
      BY <1>2, <1>6, <1>7, <2>2, <2>4
    <3>2. after[q] = items[i].lines
      BY <1>6, <2>1, <2>4
    <3> HIDE DEF i
    <3>3. CASE items[i].more
      <4> DEFINE f == [path |-> cursor + i, next |-> items[i].lines]
      <4>1. f \in rest' /\ f.path = q /\ f.next = items[i].lines
        BY <1>4, <1>15, <3>1, <3>3
      <4> HIDE DEF f
      <4>2. UptoOf(src.files, cursor', rest', q) = f.next
        BY <1>20, <2>4, <4>1 DEF UptoTells
      <4> QED
        BY <3>2, <4>1, <4>2, Zenon
    <3>4. CASE ~ items[i].more
      <4>1. items[i].lines = Len(src.files[q])
        BY <1>6, <3>1, <3>4 DEF ResultTells
      <4>2. \A f \in Unread : f.path # q
        <5> SUFFICES ASSUME NEW f \in Unread, f.path = q
                     PROVE  FALSE
          OBVIOUS
        <5>1. PICK j \in 1 .. size : items[j].more /\ f.path = cursor + j
          BY <1>14
        <5>2. j = i
          BY <1>2, <3>1, <5>1
        <5> QED
          BY <3>4, <5>1, <5>2
      <4>3. \A f \in rest : f.path # q
        BY <1>1, <1>2, <1>9, <2>4
      <4>4. UptoOf(src.files, cursor', rest', q) = Len(src.files[q])
        BY <1>4, <1>20, <2>2, <2>4, <4>2, <4>3 DEF UptoTells
      <4> QED
        BY <3>2, <4>1, <4>4, Zenon
    <3> QED
      BY <3>3, <3>4
  <2>5. CASE q > cursor'
    <3>1. after[q] = count[q] /\ q > cursor
      BY <1>2, <1>6, <1>7, <2>1, <2>5
    <3>2. UptoOf(src.files, cursor, rest, q) = 0 /\ UptoOf(src.files, cursor', rest', q) = 0
      BY <1>10, <1>20, <2>2, <2>5, <3>1 DEF UptoTells
    <3> QED
      BY <2>2, <3>1, <3>2, Zenon
  <2>6. q <= cursor \/ (cursor < q /\ q <= cursor') \/ q > cursor'
    BY <1>2, <1>7, <2>2
  <2> QED
    BY <2>3, <2>4, <2>5, <2>6
<1>22. Counted' = after
  <2>1. Counted' = [q \in 1 .. n |-> UptoOf(src.files, cursor', rest', q)]
    BY <1>4 DEF Counted, UptoIn, UptoOf, n
  <2>2. after = [q \in 1 .. n |-> after[q]]
    BY DEF CountAfter
  <2> HIDE DEF after
  <2> QED
    BY <1>21, <2>1, <2>2
<1> QED
  BY <1>4, <1>5, <1>13, <1>18, <1>19, <1>22, Zenon DEF n

-----------------------------------------------------------------------------
(* The next page of a file of a batch.                                     *)
LEMMA LinesOfRest ==
    ASSUME src \in Sources, Batch, BatchInv, LineInv,
           NEW file \in rest, NEW limit \in Limits, AskRest(file, limit)
    PROVE  HasLines(got', Counted', Len(src.files)) /\ Lone(rest') /\ \A f \in rest' : f.path <= cursor'
<1> DEFINE n == Len(src.files)
           q == file.path
           at == file.next
           size == Len(src.files[q])
           on == [file EXCEPT !.next = page'.next]
           count == Counted
<1>1. /\ cursor \in 0 .. n /\ rest \subseteq InFile /\ HasLines(got, count, n) /\ Lone(rest)
      /\ \A f \in rest : f.path <= cursor
  BY DEF BatchInv, LineInv
<1>2. n \in Nat /\ cursor \in Nat
  BY <1>1, BatchSource
<1>3. rest \subseteq [path : Nat, next : Nat] /\ file \in [path : Nat, next : Nat] /\ q \in 1 .. n /\ q <= cursor
  BY <1>1 DEF InFile
<1>4. /\ page' = RestOf(file, limit) /\ got' = got \o page'.items /\ cursor' = cursor /\ src' = src
      /\ rest' = (rest \ {file}) \cup (IF page'.more THEN {on} ELSE {})
  BY DEF AskRest
<1>5. RestTells(file, size, page')
  BY <1>1, <1>4, RestTold
<1>6. PICK k \in Nat : /\ page'.items = Block(q, at, k) /\ page'.next = at + k
                       /\ (~ page'.more => page'.next = size)
  BY <1>5 DEF RestTells
<1>7. at \in Nat /\ page'.next \in Nat
  BY <1>3, <1>6
<1> HIDE DEF size
<1>8. on \in [path : Nat, next : Nat] /\ on.path = q /\ on.next = at + k
  <2> DEFINE m == at + k
  <2>1. on = [file EXCEPT !.next = m]
    BY <1>6
  <2>2. m \in Nat
    BY <1>7
  <2> HIDE DEF m, on
  <2>3. on \in [path : Nat, next : Nat] /\ on.path = file.path /\ on.next = m
    BY <1>3, <2>1, <2>2
  <2> QED
    BY <2>3 DEF m
<1> HIDE DEF on
<1>9. \A f \in rest : f.path = q => f = file
  BY <1>1 DEF Lone
<1>10. Lone(rest') /\ rest' \subseteq [path : Nat, next : Nat] /\ \A f \in rest' : f.path <= cursor'
  <2>1. \A f \in rest' : (f \in rest /\ f.path # q) \/ f = on
    BY <1>4, <1>9
  <2> QED
    BY <1>1, <1>3, <1>4, <1>8, <2>1 DEF Lone
<1>11. UptoTells(src.files, cursor, rest) /\ UptoTells(src.files, cursor, rest')
  BY <1>1, <1>2, <1>3, <1>10, UptoTold
<1>12. \A p \in 1 .. n : count[p] = UptoOf(src.files, cursor, rest, p)
  BY DEF Counted, UptoIn, UptoOf
<1>13. count[q] = at
  BY <1>3, <1>11, <1>12 DEF UptoTells
<1> HIDE DEF count
<1> DEFINE after == [count EXCEPT ![q] = at + k]
<1>14. HasLines(got \o Block(q, at, k), after, n)
  <2>1. HasLines(got \o Block(q, count[q], k), [count EXCEPT ![q] = count[q] + k], n)
    <3> HIDE DEF q, n
    <3> QED
      BY <1>1, <1>2, <1>3, BlockAdded
  <2> QED
    BY <1>13, <2>1
<1>15. DOMAIN count = 1 .. n
  BY DEF count, Counted
<1> HIDE DEF at
<1>16. ASSUME NEW p \in 1 .. n
       PROVE  UptoOf(src.files, cursor, rest', p) = after[p]
  <2>1. p \in Nat
    BY <1>2
  <2>2. CASE p = q
    <3>1. after[p] = at + k
      BY <1>15, <2>2
    <3>2. CASE page'.more
      <4>1. on \in rest'
        BY <1>4, <3>2
      <4>2. UptoOf(src.files, cursor, rest', on.path) = on.next
        BY <1>3, <1>8, <1>11, <4>1 DEF UptoTells
      <4> QED
        BY <1>8, <2>2, <3>1, <4>2, Zenon
    <3>3. CASE ~ page'.more
      <4>1. \A f \in rest' : f.path # q
        BY <1>4, <1>9, <3>3
      <4>2. UptoOf(src.files, cursor, rest', p) = Len(src.files[p])
        BY <1>3, <1>11, <2>1, <2>2, <4>1 DEF UptoTells
      <4>3. Len(src.files[p]) = at + k
        BY <1>6, <2>2, <3>3 DEF size, at
      <4> QED
        BY <3>1, <4>2, <4>3, Zenon
    <3> QED
      BY <3>2, <3>3
  <2>3. CASE p # q
    <3>1. after[p] = UptoOf(src.files, cursor, rest, p)
      BY <1>12, <1>15, <2>3
    <3> HIDE DEF after
    <3>2. CASE p > cursor
      <4>1. UptoOf(src.files, cursor, rest, p) = 0 /\ UptoOf(src.files, cursor, rest', p) = 0
        BY <1>11, <2>1, <3>2 DEF UptoTells
      <4> QED
        BY <3>1, <4>1, Zenon
    <3>3. ASSUME p <= cursor, NEW f \in rest, f.path = p
          PROVE  UptoOf(src.files, cursor, rest', p) = after[p]
      <4>1. f \in rest'
        BY <1>4, <2>3, <3>3
      <4>2. UptoOf(src.files, cursor, rest, f.path) = f.next /\ UptoOf(src.files, cursor, rest', f.path) = f.next
        BY <1>11, <3>3, <4>1 DEF UptoTells
      <4> QED
        BY <3>1, <3>3, <4>2, Zenon
    <3>4. CASE p <= cursor /\ \A f \in rest : f.path # p
      <4>1. \A f \in rest' : f.path # p
        BY <1>4, <1>8, <2>3, <3>4
      <4>2. UptoOf(src.files, cursor, rest, p) = Len(src.files[p])
            /\ UptoOf(src.files, cursor, rest', p) = Len(src.files[p])
        BY <1>11, <2>1, <3>4, <4>1 DEF UptoTells
      <4> QED
        BY <3>1, <4>2, Zenon
    <3>5. p > cursor \/ p <= cursor
      BY <1>2, <2>1
    <3> QED
      BY <3>2, <3>3, <3>4, <3>5
  <2> QED
    BY <2>2, <2>3
<1>17. Counted' = after
  <2>1. Counted' = [p \in 1 .. n |-> UptoOf(src.files, cursor, rest', p)]
    BY <1>4 DEF Counted, UptoIn, UptoOf
  <2>2. after = [p \in 1 .. n |-> after[p]]
    BY <1>15
  <2> HIDE DEF after
  <2> QED
    BY <1>16, <2>1, <2>2
<1> QED
  BY <1>4, <1>6, <1>10, <1>14, <1>17 DEF at

(* Every step keeps what is said of the lines.                             *)
LEMMA LinesKept ==
    ASSUME IInv, BatchInv, LineInv, [Next]_vars
    PROVE  LineInv'
<1>1. src' = src /\ src \in Sources
  BY StepKeepsSource DEF IInv
<1>2. CASE ~ Batch
  BY <1>1, <1>2 DEF Batch, LineInv
<1>3. CASE Batch
  <2>1. SUFFICES HasLines(got', Counted', Len(src.files)) /\ Lone(rest')
                 /\ \A file \in rest' : file.path <= cursor'
    BY <1>1 DEF LineInv
  <2>2. CASE UNCHANGED vars
    <3>1. HasLines(got, Counted, Len(src.files)) /\ Lone(rest) /\ \A file \in rest : file.path <= cursor
      BY <1>3 DEF LineInv
    <3>2. got' = got /\ rest' = rest /\ cursor' = cursor /\ src' = src
      BY <2>2 DEF vars
    <3>3. Counted' = Counted
      BY <3>2 DEF Counted, UptoIn
    <3> QED
      BY <3>1, <3>2, <3>3, Zenon
  <2>3. CASE AskBatch
    BY <1>1, <1>3, <2>3, LinesOfPage
  <2>4. ASSUME NEW file \in rest, NEW limit \in Limits, AskRest(file, limit)
        PROVE  HasLines(got', Counted', Len(src.files)) /\ Lone(rest')
               /\ \A f \in rest' : f.path <= cursor'
    BY <1>1, <1>3, <2>4, LinesOfRest
  <2> QED
    BY <1>3, <2>2, <2>3, <2>4, StepsOfBatch
<1> QED
  BY <1>2, <1>3

(* It holds of every behaviour.                                            *)
LEMMA LinesAlways == Spec => []LineInv
<1>1. Init => LineInv
  BY LinesBegin
<1>2. IInv /\ BatchInv /\ LineInv /\ [Next]_vars => LineInv'
  BY LinesKept
<1> QED
  BY <1>1, <1>2, AlwaysGood, BatchAlways, PTL DEF Spec

(* So nothing of a batch is passed over or repeated.                       *)
LEMMA BatchBegun ==
    ASSUME IInv, Batch, LineInv
    PROVE  NothingLost
<1> DEFINE n == Len(src.files)
<1>1. HasLines(got, Counted, n)
  BY DEF LineInv
<1>2. /\ got \in Seq(Nat \X Nat) /\ InOrder(got)
      /\ \A k \in 1 .. Len(got) : got[k][1] \in 1 .. n /\ got[k][2] \in 1 .. Counted[got[k][1]]
      /\ \A p \in 1 .. n : \A i \in 1 .. Counted[p] : \E k \in 1 .. Len(got) : got[k] = <<p, i>>
  BY <1>1 DEF HasLines
<1>3. \A p \in 1 .. n : Counted[p] = UptoIn(p)
  BY DEF Counted
<1>4. ASSUME NEW p \in 1 .. n
      PROVE  {line \in Range(got) : line[1] = p} = {<<p, i>> : i \in 1 .. UptoIn(p)}
  <2> DEFINE u == UptoIn(p)
  <2>1. Counted[p] = u
    BY <1>3
  <2> HIDE DEF u
  <2>2. ASSUME NEW line \in Range(got), line[1] = p
        PROVE  line \in {<<p, i>> : i \in 1 .. u}
    <3>1. PICK k \in 1 .. Len(got) : line = got[k]
      BY <1>2 DEF Range
    <3>2. line \in Nat \X Nat
      BY <1>2, <3>1
    <3>3. line[2] \in 1 .. u
      BY <1>2, <2>1, <2>2, <3>1
    <3>4. line = <<p, line[2]>>
      BY <2>2, <3>2
    <3> QED
      BY <3>3, <3>4
  <2>3. ASSUME NEW i \in 1 .. u
        PROVE  <<p, i>> \in {line \in Range(got) : line[1] = p}
    <3>1. PICK k \in 1 .. Len(got) : got[k] = <<p, i>>
      BY <1>2, <2>1
    <3>2. got[k] \in Range(got)
      BY <1>2 DEF Range
    <3> QED
      BY <3>1, <3>2
  <2>4. {line \in Range(got) : line[1] = p} = {<<p, i>> : i \in 1 .. u}
    BY <2>2, <2>3
  <2> QED
    BY <2>4 DEF u
<1>5. src.kind = "files"
  BY DEF Batch
<1> QED
  BY <1>2, <1>4, <1>5 DEF NothingLost

(* A page begins where the last one ended, so that nothing is passed over  *)
(* or repeated (PagesJoin): the offsets that Collected, Lines, Jobs, Diff, *)
(* Files and LogPage give are those of what they carry, also for a file of *)
(* a batch that was shortened and for a character whose second byte is yet *)
(* to come.                                                                *)
THEOREM PagesAreJoined == Spec => [](NoSearch => PagesJoin)
<1>1. IInv /\ BatchInv /\ LineInv => (NoSearch => PagesJoin)
  <2> SUFFICES ASSUME IInv, BatchInv, LineInv, NoSearch
               PROVE  PagesJoin
    OBVIOUS
  <2>1. CASE ReadOn
    BY <2>1, Typed, Begun DEF PagesJoin
  <2>2. CASE Batch
    BY <2>2, BatchTyped, BatchBegun DEF PagesJoin
  <2> QED
    BY <2>1, <2>2, TwoReaders
<1>2. Spec => []IInv /\ []BatchInv /\ []LineInv
  BY AlwaysGood, BatchAlways, LinesAlways
<1> QED
  BY <1>1, <1>2, PTL
================================================================================
