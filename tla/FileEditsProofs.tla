---------------------------- MODULE FileEditsProofs ----------------------------
(***************************************************************************)
(* What the tools that change files answer and leave on the disk, for      *)
(* every set of files, of server processes and of requests, and however    *)
(* many writes fail and processes die: an answer is true of the disk,      *)
(* batches of replacements follow each other as if they ran one at a time, *)
(* and a patch that names its files once leaves what its operations make   *)
(* one after the other.                                                    *)
(***************************************************************************)
EXTENDS FileEdits, FiniteSetTheorems, TLAPS

-----------------------------------------------------------------------------
(* The order in which a batch goes through its files.                      *)

(* Every set of numbers has a least one.  (The library's theorems of       *)
(* induction are stated for operators; this consequence of its theorem on  *)
(* minimal elements serves in their place.)                                *)
LEMMA LeastNatural ==
    ASSUME NEW T \in SUBSET Nat, T # {}
    PROVE  \E m \in T : \A k \in T : m <= k
<1> DEFINE R == {p \in Nat \X Nat : p[1] < p[2]}
<1>1. IsWellFoundedOn(R, Nat)
  BY NatLessThanWellFounded DEF OpToRel
<1>2. \A x, y \in Nat : y < x => << y, x >> \in R
  OBVIOUS
<1> HIDE DEF R
<1>3. PICK x \in T : \A y \in T : ~ (<< y, x >> \in R)
  BY <1>1, WFMin
<1>4. ASSUME NEW k \in T
      PROVE  x <= k
  <2>1. x \in Nat /\ k \in Nat
    OBVIOUS
  <2>2. ~ (k < x)
    BY <1>2, <1>3, <2>1
  <2> QED
    BY ONLY <2>1, <2>2
<1> QED
  BY <1>4

Increasing(S) == {s \in [1..Cardinality(S) -> S] : \A i, j \in 1..Cardinality(S) : i < j => s[i] < s[j]}

(* A set with its least element put before the others in order is in order. *)
LEMMA LeastComesFirst ==
    ASSUME NEW S \in SUBSET Nat, IsFiniteSet(S), NEW m \in S, \A k \in S : m <= k,
           NEW s \in Increasing(S \ {m})
    PROVE  Increasing(S) # {}
<1>1. Cardinality(S) \in Nat \ {0} /\ Cardinality(S \ {m}) = Cardinality(S) - 1
  BY FS_CardinalityType, FS_EmptySet, FS_RemoveElement
<1> DEFINE n == Cardinality(S)
           t == [i \in 1..n |-> IF i = 1 THEN m ELSE s[i - 1]]
<1>2. s \in [1..(n - 1) -> S \ {m}] /\ \A i, j \in 1..(n - 1) : i < j => s[i] < s[j]
  BY <1>1 DEF Increasing
<1>3. n \in Nat \ {0}
  BY <1>1
<1> HIDE DEF n
<1>4. \A i \in 1..n : i # 1 => i - 1 \in 1..(n - 1)
  BY <1>3
<1>5. t \in [1..n -> S]
  BY <1>2, <1>4
<1>6. ASSUME NEW i \in 1..n, NEW j \in 1..n, i < j
      PROVE  t[i] < t[j]
  <2>1. j # 1 /\ t[j] = s[j - 1] /\ s[j - 1] \in S \ {m}
    BY <1>2, <1>3, <1>4, <1>6
  <2>2. CASE i = 1
    <3>1. t[i] = m /\ m <= s[j - 1] /\ m # s[j - 1] /\ m \in Nat /\ s[j - 1] \in Nat
      BY <2>1, <2>2
    <3> QED
      BY ONLY <3>1, <2>1
  <2>3. CASE i # 1
    <3>1. t[i] = s[i - 1] /\ i - 1 \in 1..(n - 1) /\ j - 1 \in 1..(n - 1) /\ i - 1 < j - 1
      BY <1>3, <1>4, <1>6, <2>1, <2>3
    <3> QED
      BY <1>2, <2>1, <3>1
  <2> QED
    BY <2>2, <2>3
<1>7. t \in Increasing(S)
  BY <1>5, <1>6 DEF Increasing, n
<1> QED
  BY <1>7

(* Every finite set of numbers can be put in order. *)
LEMMA FiniteSetsHaveOrder ==
    ASSUME NEW S \in SUBSET Nat, IsFiniteSet(S)
    PROVE  Increasing(S) # {}
<1> DEFINE Unordered(n) == \E U \in SUBSET Nat : IsFiniteSet(U) /\ Cardinality(U) = n /\ Increasing(U) = {}
           Sizes == {n \in Nat : Unordered(n)}
<1> SUFFICES ASSUME Increasing(S) = {}
             PROVE  FALSE
  OBVIOUS
<1>1. Sizes # {}
  BY FS_CardinalityType
<1>2. PICK n \in Sizes : \A k \in Sizes : n <= k
  BY <1>1, LeastNatural
<1>3. PICK U \in SUBSET Nat : IsFiniteSet(U) /\ Cardinality(U) = n /\ Increasing(U) = {}
  BY <1>2
<1>4. U # {}
  <2>1. ASSUME U = {}
        PROVE  [i \in {} |-> i] \in Increasing(U)
    <3>1. Cardinality(U) = 0 /\ 1..0 = {}
      BY <2>1, FS_EmptySet
    <3> QED
      BY <3>1 DEF Increasing
  <2> QED
    BY <1>3, <2>1
<1>5. PICK m \in U : \A k \in U : m <= k
  BY <1>4, LeastNatural
<1>6. IsFiniteSet(U \ {m}) /\ Cardinality(U \ {m}) = n - 1 /\ n \in Nat /\ n - 1 \in Nat
  <2>1. IsFiniteSet(U \ {m}) /\ Cardinality(U \ {m}) \in Nat /\ Cardinality(U \ {m}) = Cardinality(U) - 1
    BY <1>3, <1>5, FS_RemoveElement, FS_CardinalityType
  <2> QED
    BY <1>2, <1>3, <2>1
<1>7. Increasing(U \ {m}) # {}
  <2>1. n - 1 \notin Sizes
    BY <1>2, <1>6
  <2> QED
    BY <1>3, <1>6, <2>1
<1> QED
  BY <1>3, <1>5, <1>7, LeastComesFirst

(* sorted() of the paths of a batch: all of them, each once.               *)
LEMMA PathsAreOrdered ==
    ASSUME NEW ops, BatchFiles(ops) \subseteq Files
    PROVE  /\ Cardinality(BatchFiles(ops)) \in Nat
           /\ OrderedPaths(ops) \in [1..Cardinality(BatchFiles(ops)) -> BatchFiles(ops)]
           /\ Len(OrderedPaths(ops)) = Cardinality(BatchFiles(ops))
           /\ \A i, j \in 1..Len(OrderedPaths(ops)) : i # j => OrderedPaths(ops)[i] # OrderedPaths(ops)[j]
<1> DEFINE S == BatchFiles(ops)
           n == Cardinality(S)
           s == OrderedPaths(ops)
<1>1. S \in SUBSET Nat /\ IsFiniteSet(S) /\ n \in Nat
  BY FilesAreNumbers, FS_Subset, FS_CardinalityType
<1>2. \E t \in [1..n -> S] : \A i, j \in DOMAIN t : i < j => t[i] < t[j]
  <2>1. PICK t \in Increasing(S) : TRUE
    BY <1>1, FiniteSetsHaveOrder
  <2>2. t \in [1..n -> S] /\ \A i, j \in DOMAIN t : i < j => t[i] < t[j]
    BY <2>1 DEF Increasing
  <2> QED
    BY <2>2
<1>3. s \in [1..n -> S] /\ \A i, j \in DOMAIN s : i < j => s[i] < s[j]
  BY <1>2 DEF OrderedPaths
<1> HIDE DEF S, n, s
<1>4. Len(s) = n
  BY <1>1, <1>3
<1>5. ASSUME NEW i \in 1..n, NEW j \in 1..n, i # j
      PROVE  s[i] # s[j]
  <2>0. s[i] \in S /\ s[j] \in S
    BY <1>3
  <2>1. s[i] \in Nat /\ s[j] \in Nat
    BY <1>1, <2>0
  <2>3. i < j \/ j < i
    BY <1>1, <1>5
  <2>2. s[i] < s[j] \/ s[j] < s[i]
    BY <1>3, <2>3
  <2> QED
    BY ONLY <2>1, <2>2
<1> QED
  BY <1>1, <1>3, <1>4, <1>5 DEF S, n, s

(* A request to replace something names files. *)
LEMMA BatchesHaveFiles ==
    ASSUME NEW request \in Calls, request.tool = "replace", ~ Unusable(request.ops)
    PROVE  Len(OrderedPaths(request.ops)) \in Nat \ {0}
<1>1. request.ops \in Seq(Range(request.ops)) /\ BatchFiles(request.ops) \subseteq Files
  BY CallsAreRequests
<1>2. 1 \in DOMAIN request.ops
  BY <1>1 DEF Unusable
<1>3. BatchFiles(request.ops) # {}
  BY <1>2 DEF BatchFiles
<1>4. Cardinality(BatchFiles(request.ops)) \in Nat \ {0}
  BY <1>1, <1>3, FilesAreNumbers, FS_Subset, FS_CardinalityType, FS_EmptySet
<1> QED
  BY <1>1, <1>4, PathsAreOrdered

-----------------------------------------------------------------------------
(* What planning returns.                                                  *)

Refusals == {"file_not_found", "revision_conflict", "encoding_error", "max_replacements_exceeded",
             "patch_context", "target_exists", "path_exists", "path_not_found",
             "invalid_arguments", "invalid_patch"}

LEMMA PlannedPathSays ==
    ASSUME NEW c
    PROVE  \/ PlannedPath(c).ok = FALSE /\ PlannedPath(c).code \in Refusals
           \/ /\ PlannedPath(c).ok = TRUE /\ PlannedPath(c).file = Path(c)
              /\ PlannedPath(c).before = disk[Path(c)]
BY DEF PlannedPath, PlanReplace, Refusal, Refusals

LEMMA SequencesAreOfTheirItems ==
    ASSUME NEW T, NEW t \in Seq(T)
    PROVE  t \in Seq(Range(t))
<1>1. DOMAIN t = 1..Len(t) /\ Len(t) \in Nat
  OBVIOUS
<1>2. \A i \in 1..Len(t) : t[i] \in Range(t)
  BY <1>1 DEF Range
<1>3. t \in [1..Len(t) -> Range(t)]
  BY <1>1, <1>2
<1> QED
  BY <1>1, <1>3

(* A plan grows by one change at its end. *)
LEMMA PlansGrow ==
    ASSUME NEW s, s \in Seq(Range(s)), NEW p
    PROVE  LET t == Append(s, p)
           IN  /\ t \in Seq(Range(t)) /\ Len(t) = Len(s) + 1 /\ DOMAIN t = 1..(Len(s) + 1)
               /\ \A i \in 1..Len(s) : t[i] = s[i]
               /\ t[Len(s) + 1] = p
<1> DEFINE T == Range(s) \cup {p}
           t == Append(s, p)
<1>1. s \in Seq(T)
  OBVIOUS
<1>2. t \in Seq(T) /\ Len(t) = Len(s) + 1 /\ \A i \in 1..Len(s) : t[i] = s[i]
  BY <1>1
<1>3. t[Len(s) + 1] = p /\ Len(s) \in Nat
  BY <1>1
<1>4. DOMAIN t = 1..Len(t)
  BY <1>2
<1>5. t \in Seq(Range(t))
  BY <1>2, SequencesAreOfTheirItems
<1> QED
  BY <1>2, <1>3, <1>4, <1>5
-----------------------------------------------------------------------------
(* The state of a call.                                                    *)

Count(c) == Len(OrderedPaths(call[c].ops))

AfterPlanning == {"checking", "writing", "verifying", "restoring", "confirming"}
OfChanges == {"applying", "filling", "unlinking"}
Over == {"returning", "done", "dead"}

PlacesTyped ==
  /\ disk = [f \in Files |-> disk[f]] /\ base = [c \in Callers |-> base[c]]
  /\ orphaned \in [Files -> SUBSET Callers] /\ lock \in [Files -> Callers \cup {None}]

CallsTyped ==
  /\ pc \in [Callers -> Places] /\ pos \in [Callers -> Nat \ {0}]
  /\ call \in [Callers -> Calls \cup {None}] /\ plan = [c \in Callers |-> plan[c]]
  /\ answer = [c \in Callers |-> answer[c]] /\ failed \in [Callers -> BOOLEAN]

HistoryTyped ==
  /\ wrote \in [Callers -> SUBSET Files] /\ late \in [Callers -> SUBSET Files]
  /\ lost \in [Callers -> SUBSET Files]
  /\ faults \in 0..MaxFaults /\ calm \in BOOLEAN

Shapes == PlacesTyped /\ CallsTyped /\ HistoryTyped

(* Who holds a lock is in a batch. *)
LocksAreOfBatches ==
  \A f \in Files : lock[f] # None => IsBatch(lock[f]) /\ pc[lock[f]] \notin {"idle", "done", "dead"}

(* Where a call stands, its position and its plan go together. *)
Steady(c) ==
  /\ pc[c] = "idle" => call[c] = None /\ plan[c] = << >> /\ pos[c] = 1
  /\ pc[c] # "idle" => call[c] \in Calls
  /\ pc[c] \in {"idle", "locking", "planning", "checking"} => wrote[c] = {} /\ lost[c] = {}
  /\ pc[c] \notin Over => answer[c] = None
  /\ pc[c] \in AfterPlanning \cup {"locking"} => IsBatch(c)
  /\ pc[c] \in OfChanges => ~ IsBatch(c)
  /\ failed[c] => pc[c] \in {"restoring", "confirming"} \cup Over
  /\ answer[c] \in Refusals \ {None} => wrote[c] = {}
  /\ answer[c] \in Refusals \cup {None, "success", "rolled_back", "rollback_failed", "os_error"}

PlanFits(c) ==
  /\ plan[c] \in Seq(Range(plan[c]))
  /\ pc[c] = "locking" => plan[c] = << >>
  /\ pc[c] = "planning" => Len(plan[c]) = pos[c] - 1
  /\ pc[c] \in OfChanges => pos[c] <= Len(plan[c])
  /\ IsBatch(c) =>
       /\ pc[c] \in AfterPlanning \cup {"locking", "planning"} => pos[c] <= Count(c)
       /\ pc[c] \in AfterPlanning => Len(plan[c]) = Count(c)
       /\ pc[c] \in AfterPlanning \ {"checking"} => ~ call[c].dry
       /\ Len(plan[c]) <= Count(c)
       /\ \A i \in 1..Len(plan[c]) : plan[c][i].file = OrderedPaths(call[c].ops)[i]
  /\ ~ IsBatch(c) =>
       /\ pc[c] = "planning" => call[c].tool = "patch" /\ pos[c] <= Len(call[c].ops)
       /\ lost[c] = {}
       /\ \A i \in 1..Len(plan[c]) : plan[c][i].file \in Files /\ plan[c][i].from \in Files

(* What the files of a batch hold, as far as nobody else has changed them. *)
Fresh(c, i) == plan[c][i].file \notin late[c]
HasOld(c, i) == Fresh(c, i) => disk[plan[c][i].file] = plan[c][i].before
HasNew(c, i) == Fresh(c, i) => disk[plan[c][i].file] = plan[c][i].text

Answered(c) ==
  \A i \in 1..Len(plan[c]) :
    /\ answer[c] = "success" /\ call[c].dry => HasOld(c, i)
    /\ answer[c] = "success" /\ ~ call[c].dry => HasNew(c, i)
    /\ answer[c] = "rolled_back" => HasOld(c, i)
    /\ answer[c] \notin {"success", "rolled_back", "rollback_failed"} /\ Fresh(c, i) =>
         plan[c][i].file \notin wrote[c]

Contents(c) ==
  /\ pc[c] = "checking" => \A i \in 1..(pos[c] - 1) : HasOld(c, i)
  /\ pc[c] \in {"writing", "verifying", "restoring", "confirming"} =>
       \A i \in 1..(pos[c] - 1) : HasNew(c, i)
  /\ pc[c] = "writing" => HasOld(c, pos[c])
  /\ pc[c] = "verifying" => HasNew(c, pos[c])
  /\ pc[c] = "restoring" => HasOld(c, pos[c]) \/ HasNew(c, pos[c])
  /\ pc[c] = "confirming" => HasOld(c, pos[c])
  /\ pc[c] \in {"writing", "verifying", "restoring", "confirming"} /\ ~ failed[c] =>
       \A i \in (pos[c] + 1)..Len(plan[c]) : HasOld(c, i)
  /\ IsBatch(c) => lost[c] \subseteq late[c]
  /\ pc[c] = "returning" /\ IsBatch(c) => Answered(c)

EInv ==
  Shapes /\ LocksAreOfBatches /\ \A c \in Callers : Steady(c) /\ PlanFits(c) /\ Contents(c)

-----------------------------------------------------------------------------
(* A step of one process.                                                  *)

Step(c) == \/ \E request \in Calls : Call(c, request)
           \/ BatchStep(c) \/ ChangeStep(c)
           \/ WriteFails(c) \/ RestoreFails(c) \/ ApplyFails(c) \/ Dies(c)

(* It leaves the calls of the others alone, does not change a file without *)
(* their history telling them, and takes a lock only from nobody.          *)
LeavesCalls(c) ==
  \A d \in Callers \ {c} :
    /\ pc'[d] = pc[d] /\ call'[d] = call[d] /\ pos'[d] = pos[d] /\ plan'[d] = plan[d]
    /\ answer'[d] = answer[d] /\ failed'[d] = failed[d]

LeavesHistory(c) ==
  \A d \in Callers \ {c} :
    /\ wrote'[d] = wrote[d] /\ lost'[d] = lost[d] /\ late[d] \subseteq late'[d]
    /\ \A f \in Files \ late'[d] : disk'[f] = disk[f]

(* What is known of a batch: its files are files, each is planned once.    *)
LEMMA BatchFacts ==
    ASSUME EInv, NEW c \in Callers, IsBatch(c)
    PROVE  /\ Count(c) \in Nat /\ Len(plan[c]) \in Nat /\ DOMAIN plan[c] = 1..Len(plan[c])
           /\ \A i \in 1..Count(c) : OrderedPaths(call[c].ops)[i] \in Files
           /\ \A i \in 1..Len(plan[c]) : plan[c][i].file \in Files
           /\ \A i, j \in 1..Len(plan[c]) : i # j => plan[c][i].file # plan[c][j].file
<1>1. call[c] \in Calls /\ BatchFiles(call[c].ops) \subseteq Files
  BY CallsAreRequests DEF EInv, Steady, IsBatch
<1>2. /\ Count(c) \in Nat
      /\ \A i \in 1..Count(c) : OrderedPaths(call[c].ops)[i] \in Files
      /\ \A i, j \in 1..Count(c) : i # j => OrderedPaths(call[c].ops)[i] # OrderedPaths(call[c].ops)[j]
  BY <1>1, PathsAreOrdered DEF Count
<1>3. Len(plan[c]) \in Nat /\ DOMAIN plan[c] = 1..Len(plan[c])
  BY DEF EInv, PlanFits
<1>4. \A i \in 1..Len(plan[c]) : i \in 1..Count(c) /\ plan[c][i].file = OrderedPaths(call[c].ops)[i]
  BY <1>2, <1>3 DEF EInv, PlanFits
<1> QED
  BY <1>2, <1>3, <1>4

(* The file a call is at is a file. *)
LEMMA AtFiles ==
    ASSUME EInv, NEW c \in Callers
    PROVE  /\ pc[c] \in AfterPlanning \cup {"locking"} => IsBatch(c)
           /\ pc[c] \in AfterPlanning \cup {"locking", "planning"} /\ IsBatch(c) => Path(c) \in Files
           /\ pc[c] \in OfChanges => Item(c).file \in Files /\ Item(c).from \in Files
<1>1. pos[c] \in Nat \ {0} /\ plan[c] \in Seq(Range(plan[c]))
  BY DEF EInv, Shapes, CallsTyped, PlanFits
<1>2. ASSUME pc[c] \in AfterPlanning \cup {"locking", "planning"}, IsBatch(c)
      PROVE  Path(c) \in Files
  <2>1. Count(c) \in Nat /\ pos[c] <= Count(c)
    BY <1>2, BatchFacts DEF EInv, PlanFits
  <2> QED
    BY <1>1, <1>2, <2>1, BatchFacts DEF Path
<1>3. ASSUME pc[c] \in OfChanges
      PROVE  Item(c).file \in Files /\ Item(c).from \in Files
  <2>1. Len(plan[c]) \in Nat /\ pos[c] <= Len(plan[c]) /\ ~ IsBatch(c)
    BY <1>1, <1>3 DEF EInv, PlanFits, Steady
  <2> QED
    BY <1>1, <2>1 DEF EInv, PlanFits, Item
<1> QED
  BY <1>2, <1>3 DEF EInv, Steady

(* A set of positions has a last one. *)
LEMMA LastPosition ==
    ASSUME NEW n \in Nat, NEW T \in SUBSET (1..n), T # {}
    PROVE  \E m \in T : \A k \in T : k <= m
<1> DEFINE D == {j \in Nat : \E k \in T : j = n - k}
<1>1. PICK k \in T : TRUE
  OBVIOUS
<1>2. k \in 1..n /\ n - k \in Nat
  OBVIOUS
<1>3. D # {} /\ D \in SUBSET Nat
  BY <1>2
<1>4. PICK j \in D : \A i \in D : j <= i
  BY <1>3, LeastNatural
<1>5. PICK m \in T : j = n - m
  BY <1>4
<1>6. ASSUME NEW i \in T
      PROVE  i <= m
  <2>1. i \in 1..n /\ m \in 1..n /\ n - i \in D
    BY <1>6
  <2>2. j <= n - i
    BY <1>4, <2>1
  <2> QED
    BY <1>5, <2>1, <2>2
<1> QED
  BY <1>6

(* The rollback goes on to the file before that was to be changed, or ends. *)
RestoringNext(c, bad) ==
  \/ \E i \in 1..(pos[c] - 1) :
       /\ plan[c][i].before # plan[c][i].text
       /\ \A j \in (i + 1)..(pos[c] - 1) : plan[c][j].before = plan[c][j].text
       /\ pos' = [pos EXCEPT ![c] = i] /\ Goto(c, "restoring") /\ answer' = answer
  \/ /\ \A i \in 1..(pos[c] - 1) : plan[c][i].before = plan[c][i].text
     /\ pos' = pos /\ Answer(c, IF bad THEN "rollback_failed" ELSE "rolled_back")

LEMMA RollbackGoesBack ==
    ASSUME NEW c \in Callers, NEW bad, pos \in [Callers -> Nat \ {0}], AfterRestoring(c, bad)
    PROVE  RestoringNext(c, bad)
<1> DEFINE T == {i \in 1..(pos[c] - 1) : plan[c][i].before # plan[c][i].text}
<1>1. pos[c] - 1 \in Nat
  OBVIOUS
<1>2. CASE T = {}
  BY <1>2 DEF AfterRestoring, RestoringNext
<1>3. CASE T # {}
  <2>1. PICK m \in T : \A k \in T : k <= m
    BY <1>1, <1>3, LastPosition
  <2>2. \A j \in (m + 1)..(pos[c] - 1) : plan[c][j].before = plan[c][j].text
    <3>1. ASSUME NEW j \in (m + 1)..(pos[c] - 1)
          PROVE  plan[c][j].before = plan[c][j].text
      <4>1. m \in 1..(pos[c] - 1) /\ j \in 1..(pos[c] - 1) /\ ~ (j <= m)
        BY <1>1, <3>1
      <4> QED
        BY <2>1, <4>1
    <3> QED
      BY <3>1
  <2> DEFINE Good(i) == /\ plan[c][i].before # plan[c][i].text
                        /\ \A j \in (i + 1)..(pos[c] - 1) : plan[c][j].before = plan[c][j].text
             i0 == CHOOSE i \in 1..(pos[c] - 1) : Good(i)
  <2>3. i0 \in 1..(pos[c] - 1) /\ Good(i0)
    BY <2>1, <2>2
  <2>4. /\ pos' = [pos EXCEPT ![c] = i0]
        /\ Goto(c, "restoring") /\ answer' = answer
    BY <1>3 DEF AfterRestoring
  <2> HIDE DEF i0
  <2> QED
    BY <2>3, <2>4 DEF RestoringNext
<1> QED
  BY <1>2, <1>3

(* A change of file f is in the place of the old text and in the history.  *)
LEMMA NotedTyped ==
    ASSUME HistoryTyped, NEW c \in Callers, NEW f \in Files, Noted(c, f)
    PROVE  wrote' \in [Callers -> SUBSET Files] /\ late' \in [Callers -> SUBSET Files]
BY DEF HistoryTyped, Noted

LEMMA ReplacedTyped ==
    ASSUME PlacesTyped, NEW c \in Callers, NEW f \in Files, NEW text, ReplaceFile(c, f, text)
    PROVE  disk' = [g \in Files |-> disk'[g]] /\ orphaned' \in [Files -> SUBSET Callers] /\ Noted(c, f)
BY DEF PlacesTyped, ReplaceFile, Filling

LEMMA RestoringTyped ==
    ASSUME CallsTyped, NEW c \in Callers, NEW bad, RestoringNext(c, bad)
    PROVE  /\ pc' \in [Callers -> Places] /\ pos' \in [Callers -> Nat \ {0}]
           /\ answer' = [d \in Callers |-> answer'[d]]
<1>1. pos[c] \in Nat /\ \A i \in 1..(pos[c] - 1) : i \in Nat \ {0}
  BY DEF CallsTyped
<1> QED
  BY <1>1 DEF CallsTyped, RestoringNext, Answer, Goto, Places

(* Files, locks and the disks patches were planned on. *)
LEMMA StepsTypePlaces ==
    ASSUME EInv, NEW c \in Callers, Step(c)
    PROVE  PlacesTyped'
<1>0. PlacesTyped /\ pc[c] \in Places
  BY DEF EInv, Shapes, CallsTyped
<1> USE DEF places, history
<1>1. ASSUME NEW request \in Calls, Call(c, request)
      PROVE  PlacesTyped'
  BY <1>0, <1>1 DEF Call, PlacesTyped, Goto
<1>2. CASE LockPath(c)
  BY <1>0, <1>2 DEF LockPath, PlacesTyped, Goto
<1>3. CASE PlanPath(c)
  BY <1>0, <1>3 DEF PlanPath, PlacesTyped, Goto
<1>4. CASE RecheckPath(c)
  BY <1>0, <1>4 DEF RecheckPath, PlacesTyped, Goto
<1>5. CASE SkipPath(c)
  BY <1>0, <1>5 DEF SkipPath, PlacesTyped, Goto
<1>6. CASE WritePath(c)
  <2>1. Path(c) \in Files
    BY AtFiles, <1>6 DEF WritePath, AfterPlanning
  <2>2. \E text : ReplaceFile(c, Path(c), text)
    BY <1>6 DEF WritePath
  <2> QED
    BY <2>1, <2>2, <1>0, <1>6, ReplacedTyped DEF WritePath, PlacesTyped
<1>7. CASE VerifyPath(c)
  BY <1>0, <1>7 DEF VerifyPath, PlacesTyped, Goto
<1>8. CASE RestorePath(c)
  <2>1. Path(c) \in Files
    BY AtFiles, <1>8 DEF RestorePath, AfterPlanning
  <2>2. \E text : ReplaceFile(c, Path(c), text)
    BY <1>8 DEF RestorePath
  <2> QED
    BY <2>1, <2>2, <1>0, <1>8, ReplacedTyped DEF RestorePath, PlacesTyped
<1>9. CASE ConfirmRestored(c)
  BY <1>0, <1>9 DEF ConfirmRestored, PlacesTyped, Goto
<1>10. CASE ReturnBatch(c)
  BY <1>0, <1>10 DEF ReturnBatch, PlacesTyped, Goto
<1>11. CASE PlanOperation(c)
  BY <1>0, <1>11 DEF PlanOperation, PlacesTyped, Goto
<1>12. CASE ApplyDelete(c)
  <2>1. Item(c).file \in Files
    BY AtFiles, <1>12 DEF ApplyDelete, OfChanges
  <2>2. (\E text : ReplaceFile(c, Item(c).file, text)) \/ UNCHANGED << disk, orphaned >>
    BY <1>12 DEF ApplyDelete, Unlink, ReplaceFile
  <2> QED
    BY <2>1, <2>2, <1>0, <1>12, ReplacedTyped DEF ApplyDelete, PlacesTyped
<1>13. CASE OpenForWriting(c)
  BY <1>0, <1>13 DEF OpenForWriting, PlacesTyped, Goto
<1>14. CASE FillFile(c)
  BY <1>0, <1>14 DEF FillFile, PlacesTyped, Goto
<1>15. CASE UnlinkOld(c)
  <2>1. Item(c).from \in Files
    BY AtFiles, <1>15 DEF UnlinkOld, OfChanges
  <2>2. (\E text : ReplaceFile(c, Item(c).from, text)) \/ UNCHANGED << disk, orphaned >>
    BY <1>15 DEF UnlinkOld, Unlink, ReplaceFile
  <2> QED
    BY <2>1, <2>2, <1>0, <1>15, ReplacedTyped DEF UnlinkOld, PlacesTyped
<1>16. CASE ReturnChange(c)
  BY <1>0, <1>16 DEF ReturnChange, PlacesTyped, Goto
<1>17. CASE WriteFails(c)
  <2>1. Path(c) \in Files
    BY AtFiles, <1>17 DEF WriteFails, AfterPlanning
  <2>2. (\E text : ReplaceFile(c, Path(c), text)) \/ UNCHANGED << disk, orphaned >>
    BY <1>17 DEF WriteFails
  <2> QED
    BY <2>1, <2>2, <1>0, <1>17, ReplacedTyped DEF WriteFails, PlacesTyped
<1>18. CASE RestoreFails(c)
  BY <1>0, <1>18 DEF RestoreFails, PlacesTyped, Goto
<1>19. CASE ApplyFails(c)
  BY <1>0, <1>19 DEF ApplyFails, PlacesTyped, Goto
<1>20. CASE Dies(c)
  BY <1>0, <1>20 DEF Dies, PlacesTyped, Goto
<1> QED
  BY <1>1, <1>2, <1>3, <1>4, <1>5, <1>6, <1>7, <1>8, <1>9, <1>10, <1>11, <1>12, <1>13, <1>14, <1>15,
     <1>16, <1>17, <1>18, <1>19, <1>20 DEF Step, BatchStep, ChangeStep

(* Calls, their places and plans. *)
LEMMA StepsTypeCalls ==
    ASSUME EInv, NEW c \in Callers, Step(c)
    PROVE  CallsTyped'
<1>0. CallsTyped
  BY DEF EInv, Shapes
<1> USE DEF CallsTyped, Places, Goto, Answer, Advance, NextItem, Unlink
<1>1. ASSUME NEW request \in Calls, Call(c, request)
      PROVE  CallsTyped'
  BY <1>0, <1>1 DEF Call
<1>2. CASE LockPath(c)
  BY <1>0, <1>2 DEF LockPath
<1>3. CASE PlanPath(c)
  <2>1. pc' \in [Callers -> Places]
    BY <1>0, <1>3 DEF PlanPath
  <2>2. pos' \in [Callers -> Nat \ {0}]
    BY <1>0, <1>3 DEF PlanPath
  <2>3. answer' = [d \in Callers |-> answer'[d]]
    BY <1>0, <1>3 DEF PlanPath
  <2>4. plan' = [d \in Callers |-> plan'[d]] /\ UNCHANGED << call, failed >>
    BY <1>0, <1>3 DEF PlanPath
  <2> QED
    BY <1>0, <2>1, <2>2, <2>3, <2>4
<1>4. CASE RecheckPath(c)
  BY <1>0, <1>4 DEF RecheckPath
<1>5. CASE SkipPath(c)
  BY <1>0, <1>5 DEF SkipPath
<1>6. CASE WritePath(c)
  BY <1>0, <1>6 DEF WritePath
<1>7. CASE VerifyPath(c)
  BY <1>0, <1>7 DEF VerifyPath
<1>8. CASE RestorePath(c)
  BY <1>0, <1>8 DEF RestorePath
<1>9. CASE ConfirmRestored(c)
  <2> DEFINE bad == failed[c] \/ disk[Path(c)] # plan[c][pos[c]].before
  <2>1. AfterRestoring(c, bad) /\ failed' = [failed EXCEPT ![c] = bad] /\ UNCHANGED << call, plan >>
    BY <1>9 DEF ConfirmRestored
  <2>2. bad \in BOOLEAN
    BY <1>0 DEF CallsTyped
  <2> HIDE DEF bad
  <2>3. RestoringNext(c, bad)
    BY <1>0, <2>1, RollbackGoesBack DEF CallsTyped
  <2> QED
    BY <1>0, <2>1, <2>2, <2>3, RestoringTyped DEF CallsTyped
<1>10. CASE ReturnBatch(c)
  BY <1>0, <1>10 DEF ReturnBatch
<1>11. CASE PlanOperation(c)
  <2>1. pc' \in [Callers -> Places]
    BY <1>0, <1>11 DEF PlanOperation
  <2>2. pos' \in [Callers -> Nat \ {0}]
    BY <1>0, <1>11 DEF PlanOperation
  <2>3. answer' = [d \in Callers |-> answer'[d]]
    BY <1>0, <1>11 DEF PlanOperation
  <2>4. plan' = [d \in Callers |-> plan'[d]] /\ UNCHANGED << call, failed >>
    BY <1>0, <1>11 DEF PlanOperation
  <2> QED
    BY <1>0, <2>1, <2>2, <2>3, <2>4
<1>12. CASE ApplyDelete(c)
  <2>1. pc' \in [Callers -> Places]
    BY <1>0, <1>12 DEF ApplyDelete
  <2>2. pos' \in [Callers -> Nat \ {0}]
    BY <1>0, <1>12 DEF ApplyDelete
  <2>3. answer' = [d \in Callers |-> answer'[d]]
    BY <1>0, <1>12 DEF ApplyDelete
  <2>4. plan' = [d \in Callers |-> plan'[d]] /\ UNCHANGED << call, failed >>
    BY <1>0, <1>12 DEF ApplyDelete
  <2> QED
    BY <1>0, <2>1, <2>2, <2>3, <2>4
<1>13. CASE OpenForWriting(c)
  BY <1>0, <1>13 DEF OpenForWriting
<1>14. CASE FillFile(c)
  <2>1. pc' \in [Callers -> Places]
    BY <1>0, <1>14 DEF FillFile
  <2>2. pos' \in [Callers -> Nat \ {0}]
    BY <1>0, <1>14 DEF FillFile
  <2>3. answer' = [d \in Callers |-> answer'[d]]
    BY <1>0, <1>14 DEF FillFile
  <2>4. plan' = [d \in Callers |-> plan'[d]] /\ UNCHANGED << call, failed >>
    BY <1>0, <1>14 DEF FillFile
  <2> QED
    BY <1>0, <2>1, <2>2, <2>3, <2>4
<1>15. CASE UnlinkOld(c)
  <2>1. pc' \in [Callers -> Places]
    BY <1>0, <1>15 DEF UnlinkOld
  <2>2. pos' \in [Callers -> Nat \ {0}]
    BY <1>0, <1>15 DEF UnlinkOld
  <2>3. answer' = [d \in Callers |-> answer'[d]]
    BY <1>0, <1>15 DEF UnlinkOld
  <2>4. plan' = [d \in Callers |-> plan'[d]] /\ UNCHANGED << call, failed >>
    BY <1>0, <1>15 DEF UnlinkOld
  <2> QED
    BY <1>0, <2>1, <2>2, <2>3, <2>4
<1>16. CASE ReturnChange(c)
  BY <1>0, <1>16 DEF ReturnChange
<1>17. CASE WriteFails(c)
  BY <1>0, <1>17 DEF WriteFails
<1>18. CASE RestoreFails(c)
  <2> DEFINE bad == TRUE
  <2>1. AfterRestoring(c, bad) /\ failed' = [failed EXCEPT ![c] = bad] /\ UNCHANGED << call, plan >>
    BY <1>18 DEF RestoreFails
  <2>2. bad \in BOOLEAN
    BY <1>0 DEF CallsTyped
  <2> HIDE DEF bad
  <2>3. RestoringNext(c, bad)
    BY <1>0, <2>1, RollbackGoesBack DEF CallsTyped
  <2> QED
    BY <1>0, <2>1, <2>2, <2>3, RestoringTyped DEF CallsTyped
<1>19. CASE ApplyFails(c)
  BY <1>0, <1>19 DEF ApplyFails
<1>20. CASE Dies(c)
  BY <1>0, <1>20 DEF Dies
<1> QED
  BY <1>1, <1>2, <1>3, <1>4, <1>5, <1>6, <1>7, <1>8, <1>9, <1>10, <1>11, <1>12, <1>13, <1>14, <1>15,
     <1>16, <1>17, <1>18, <1>19, <1>20 DEF Step, BatchStep, ChangeStep

(* What is remembered of the calls. *)
LEMMA StepsTypeHistory ==
    ASSUME EInv, NEW c \in Callers, Step(c)
    PROVE  HistoryTyped'
<1>0. HistoryTyped /\ pc[c] \in Places
  BY DEF EInv, Shapes, CallsTyped
<1>00. MaxFaults \in Nat
  BY FaultsAreCounted
<1> USE DEF history
<1>1. ASSUME NEW request \in Calls, Call(c, request)
      PROVE  HistoryTyped'
  BY <1>0, <1>00, <1>1 DEF Call, HistoryTyped
<1>2. CASE LockPath(c)
  BY <1>0, <1>00, <1>2 DEF LockPath, HistoryTyped, Fault
<1>3. CASE PlanPath(c)
  BY <1>0, <1>00, <1>3 DEF PlanPath, HistoryTyped, Fault
<1>4. CASE RecheckPath(c)
  BY <1>0, <1>00, <1>4 DEF RecheckPath, HistoryTyped, Fault
<1>5. CASE SkipPath(c)
  BY <1>0, <1>00, <1>5 DEF SkipPath, HistoryTyped, Fault
<1>6. CASE WritePath(c)
  <2>1. Path(c) \in Files
    BY AtFiles, <1>6 DEF WritePath, AfterPlanning
  <2>2. Noted(c, Path(c))
    BY <1>6 DEF WritePath, ReplaceFile, Unlink
  <2>3. wrote' \in [Callers -> SUBSET Files] /\ late' \in [Callers -> SUBSET Files]
    BY <1>0, <2>1, <2>2, NotedTyped DEF HistoryTyped
  <2>4. lost' \in [Callers -> SUBSET Files]
    BY <1>0, <2>1, <1>6 DEF WritePath, HistoryTyped
  <2>5. faults' \in 0..MaxFaults /\ calm' \in BOOLEAN
    BY <1>0, <1>00, <1>6 DEF WritePath, HistoryTyped, Fault, Unlink
  <2> QED
    BY <2>3, <2>4, <2>5 DEF HistoryTyped
<1>7. CASE VerifyPath(c)
  BY <1>0, <1>00, <1>7 DEF VerifyPath, HistoryTyped, Fault
<1>8. CASE RestorePath(c)
  <2>1. Path(c) \in Files
    BY AtFiles, <1>8 DEF RestorePath, AfterPlanning
  <2>2. Noted(c, Path(c))
    BY <1>8 DEF RestorePath, ReplaceFile, Unlink
  <2>3. wrote' \in [Callers -> SUBSET Files] /\ late' \in [Callers -> SUBSET Files]
    BY <1>0, <2>1, <2>2, NotedTyped DEF HistoryTyped
  <2>4. lost' \in [Callers -> SUBSET Files]
    BY <1>0, <2>1, <1>8 DEF RestorePath, HistoryTyped
  <2>5. faults' \in 0..MaxFaults /\ calm' \in BOOLEAN
    BY <1>0, <1>00, <1>8 DEF RestorePath, HistoryTyped, Fault, Unlink
  <2> QED
    BY <2>3, <2>4, <2>5 DEF HistoryTyped
<1>9. CASE ConfirmRestored(c)
  BY <1>0, <1>00, <1>9 DEF ConfirmRestored, HistoryTyped, Fault
<1>10. CASE ReturnBatch(c)
  BY <1>0, <1>00, <1>10 DEF ReturnBatch, HistoryTyped, Fault
<1>11. CASE PlanOperation(c)
  BY <1>0, <1>00, <1>11 DEF PlanOperation, HistoryTyped, Fault
<1>12. CASE ApplyDelete(c)
  <2>1. Item(c).file \in Files
    BY AtFiles, <1>12 DEF ApplyDelete, OfChanges
  <2>2. Noted(c, Item(c).file) \/ UNCHANGED << wrote, late >>
    BY <1>12 DEF ApplyDelete, ReplaceFile, Unlink
  <2>3. wrote' \in [Callers -> SUBSET Files] /\ late' \in [Callers -> SUBSET Files]
    BY <1>0, <2>1, <2>2, NotedTyped DEF HistoryTyped
  <2>4. lost' \in [Callers -> SUBSET Files]
    BY <1>0, <2>1, <1>12 DEF ApplyDelete, HistoryTyped
  <2>5. faults' \in 0..MaxFaults /\ calm' \in BOOLEAN
    BY <1>0, <1>00, <1>12 DEF ApplyDelete, HistoryTyped, Fault, Unlink
  <2> QED
    BY <2>3, <2>4, <2>5 DEF HistoryTyped
<1>13. CASE OpenForWriting(c)
  <2>1. Item(c).file \in Files
    BY AtFiles, <1>13 DEF OpenForWriting, OfChanges
  <2>2. Noted(c, Item(c).file)
    BY <1>13 DEF OpenForWriting, ReplaceFile, Unlink
  <2>3. wrote' \in [Callers -> SUBSET Files] /\ late' \in [Callers -> SUBSET Files]
    BY <1>0, <2>1, <2>2, NotedTyped DEF HistoryTyped
  <2>4. lost' \in [Callers -> SUBSET Files]
    BY <1>0, <2>1, <1>13 DEF OpenForWriting, HistoryTyped
  <2>5. faults' \in 0..MaxFaults /\ calm' \in BOOLEAN
    BY <1>0, <1>00, <1>13 DEF OpenForWriting, HistoryTyped, Fault, Unlink
  <2> QED
    BY <2>3, <2>4, <2>5 DEF HistoryTyped
<1>14. CASE FillFile(c)
  <2>1. Item(c).file \in Files
    BY AtFiles, <1>14 DEF FillFile, OfChanges
  <2>2. Noted(c, Item(c).file) \/ UNCHANGED << wrote, late >>
    BY <1>14 DEF FillFile, ReplaceFile, Unlink
  <2>3. wrote' \in [Callers -> SUBSET Files] /\ late' \in [Callers -> SUBSET Files]
    BY <1>0, <2>1, <2>2, NotedTyped DEF HistoryTyped
  <2>4. lost' \in [Callers -> SUBSET Files]
    BY <1>0, <2>1, <1>14 DEF FillFile, HistoryTyped
  <2>5. faults' \in 0..MaxFaults /\ calm' \in BOOLEAN
    BY <1>0, <1>00, <1>14 DEF FillFile, HistoryTyped, Fault, Unlink
  <2> QED
    BY <2>3, <2>4, <2>5 DEF HistoryTyped
<1>15. CASE UnlinkOld(c)
  <2>1. Item(c).from \in Files
    BY AtFiles, <1>15 DEF UnlinkOld, OfChanges
  <2>2. Noted(c, Item(c).from) \/ UNCHANGED << wrote, late >>
    BY <1>15 DEF UnlinkOld, ReplaceFile, Unlink
  <2>3. wrote' \in [Callers -> SUBSET Files] /\ late' \in [Callers -> SUBSET Files]
    BY <1>0, <2>1, <2>2, NotedTyped DEF HistoryTyped
  <2>4. lost' \in [Callers -> SUBSET Files]
    BY <1>0, <2>1, <1>15 DEF UnlinkOld, HistoryTyped
  <2>5. faults' \in 0..MaxFaults /\ calm' \in BOOLEAN
    BY <1>0, <1>00, <1>15 DEF UnlinkOld, HistoryTyped, Fault, Unlink
  <2> QED
    BY <2>3, <2>4, <2>5 DEF HistoryTyped
<1>16. CASE ReturnChange(c)
  BY <1>0, <1>00, <1>16 DEF ReturnChange, HistoryTyped, Fault
<1>17. CASE WriteFails(c)
  <2>1. Path(c) \in Files
    BY AtFiles, <1>17 DEF WriteFails, AfterPlanning
  <2>2. Noted(c, Path(c)) \/ UNCHANGED << wrote, late >>
    BY <1>17 DEF WriteFails, ReplaceFile, Unlink
  <2>3. wrote' \in [Callers -> SUBSET Files] /\ late' \in [Callers -> SUBSET Files]
    BY <1>0, <2>1, <2>2, NotedTyped DEF HistoryTyped
  <2>4. lost' \in [Callers -> SUBSET Files]
    BY <1>0, <2>1, <1>17 DEF WriteFails, HistoryTyped
  <2>5. faults' \in 0..MaxFaults /\ calm' \in BOOLEAN
    BY <1>0, <1>00, <1>17 DEF WriteFails, HistoryTyped, Fault, Unlink
  <2> QED
    BY <2>3, <2>4, <2>5 DEF HistoryTyped
<1>18. CASE RestoreFails(c)
  <2>1. Fault /\ calm' = FALSE /\ UNCHANGED << wrote, late, lost >>
    BY <1>18 DEF RestoreFails
  <2>2. calm' \in BOOLEAN
    BY <2>1
  <2> QED
    BY <1>0, <1>00, <2>1, <2>2 DEF HistoryTyped, Fault
<1>19. CASE ApplyFails(c)
  BY <1>0, <1>00, <1>19 DEF ApplyFails, HistoryTyped, Fault
<1>20. CASE Dies(c)
  BY <1>0, <1>00, <1>20 DEF Dies, HistoryTyped, Fault
<1> QED
  BY <1>1, <1>2, <1>3, <1>4, <1>5, <1>6, <1>7, <1>8, <1>9, <1>10, <1>11, <1>12, <1>13, <1>14, <1>15,
     <1>16, <1>17, <1>18, <1>19, <1>20 DEF Step, BatchStep, ChangeStep

LEMMA StepsAreTyped ==
    ASSUME EInv, NEW c \in Callers, Step(c)
    PROVE  Shapes'
BY StepsTypePlaces, StepsTypeCalls, StepsTypeHistory DEF Shapes

(* The calls of the others. *)
LEMMA OthersKeepCalls ==
    ASSUME EInv, NEW c \in Callers, Step(c)
    PROVE  LeavesCalls(c)
<1>0. CallsTyped
  BY DEF EInv, Shapes
<1> USE DEF LeavesCalls, CallsTyped, Goto, Answer, Advance, NextItem, Unlink
<1>1. ASSUME NEW request \in Calls, Call(c, request)
      PROVE  LeavesCalls(c)
  BY <1>0, <1>1 DEF Call
<1>2. CASE LockPath(c)
  BY <1>0, <1>2 DEF LockPath
<1>3. CASE PlanPath(c)
  <2>1. \A d \in Callers \ {c} : pc'[d] = pc[d] /\ answer'[d] = answer[d]
    BY <1>0, <1>3 DEF PlanPath
  <2>2. \A d \in Callers \ {c} : pos'[d] = pos[d] /\ plan'[d] = plan[d]
    BY <1>0, <1>3 DEF PlanPath
  <2>3. \A d \in Callers \ {c} : call'[d] = call[d] /\ failed'[d] = failed[d]
    BY <1>0, <1>3 DEF PlanPath
  <2> QED
    BY <2>1, <2>2, <2>3 DEF LeavesCalls
<1>4. CASE RecheckPath(c)
  BY <1>0, <1>4 DEF RecheckPath
<1>5. CASE SkipPath(c)
  BY <1>0, <1>5 DEF SkipPath
<1>6. CASE WritePath(c)
  BY <1>0, <1>6 DEF WritePath
<1>7. CASE VerifyPath(c)
  BY <1>0, <1>7 DEF VerifyPath
<1>8. CASE RestorePath(c)
  BY <1>0, <1>8 DEF RestorePath
<1>9. CASE ConfirmRestored(c)
  <2>1. PICK bad : /\ AfterRestoring(c, bad) /\ \E b : failed' = [failed EXCEPT ![c] = b]
                  /\ UNCHANGED << call, plan >>
    BY <1>9 DEF ConfirmRestored
  <2>2. RestoringNext(c, bad)
    BY <1>0, <2>1, RollbackGoesBack DEF CallsTyped
  <2> QED
    BY <1>0, <2>1, <2>2 DEF LeavesCalls, RestoringNext, CallsTyped
<1>10. CASE ReturnBatch(c)
  BY <1>0, <1>10 DEF ReturnBatch
<1>11. CASE PlanOperation(c)
  <2>1. \A d \in Callers \ {c} : pc'[d] = pc[d] /\ answer'[d] = answer[d]
    BY <1>0, <1>11 DEF PlanOperation
  <2>2. \A d \in Callers \ {c} : pos'[d] = pos[d] /\ plan'[d] = plan[d]
    BY <1>0, <1>11 DEF PlanOperation
  <2>3. \A d \in Callers \ {c} : call'[d] = call[d] /\ failed'[d] = failed[d]
    BY <1>0, <1>11 DEF PlanOperation
  <2> QED
    BY <2>1, <2>2, <2>3 DEF LeavesCalls
<1>12. CASE ApplyDelete(c)
  <2>1. \A d \in Callers \ {c} : pc'[d] = pc[d] /\ answer'[d] = answer[d]
    BY <1>0, <1>12 DEF ApplyDelete
  <2>2. \A d \in Callers \ {c} : pos'[d] = pos[d] /\ plan'[d] = plan[d]
    BY <1>0, <1>12 DEF ApplyDelete
  <2>3. \A d \in Callers \ {c} : call'[d] = call[d] /\ failed'[d] = failed[d]
    BY <1>0, <1>12 DEF ApplyDelete
  <2> QED
    BY <2>1, <2>2, <2>3 DEF LeavesCalls
<1>13. CASE OpenForWriting(c)
  BY <1>0, <1>13 DEF OpenForWriting
<1>14. CASE FillFile(c)
  <2>1. \A d \in Callers \ {c} : pc'[d] = pc[d] /\ answer'[d] = answer[d]
    BY <1>0, <1>14 DEF FillFile
  <2>2. \A d \in Callers \ {c} : pos'[d] = pos[d] /\ plan'[d] = plan[d]
    BY <1>0, <1>14 DEF FillFile
  <2>3. \A d \in Callers \ {c} : call'[d] = call[d] /\ failed'[d] = failed[d]
    BY <1>0, <1>14 DEF FillFile
  <2> QED
    BY <2>1, <2>2, <2>3 DEF LeavesCalls
<1>15. CASE UnlinkOld(c)
  <2>1. \A d \in Callers \ {c} : pc'[d] = pc[d] /\ answer'[d] = answer[d]
    BY <1>0, <1>15 DEF UnlinkOld
  <2>2. \A d \in Callers \ {c} : pos'[d] = pos[d] /\ plan'[d] = plan[d]
    BY <1>0, <1>15 DEF UnlinkOld
  <2>3. \A d \in Callers \ {c} : call'[d] = call[d] /\ failed'[d] = failed[d]
    BY <1>0, <1>15 DEF UnlinkOld
  <2> QED
    BY <2>1, <2>2, <2>3 DEF LeavesCalls
<1>16. CASE ReturnChange(c)
  BY <1>0, <1>16 DEF ReturnChange
<1>17. CASE WriteFails(c)
  BY <1>0, <1>17 DEF WriteFails
<1>18. CASE RestoreFails(c)
  <2>1. PICK bad : /\ AfterRestoring(c, bad) /\ \E b : failed' = [failed EXCEPT ![c] = b]
                  /\ UNCHANGED << call, plan >>
    BY <1>18 DEF RestoreFails
  <2>2. RestoringNext(c, bad)
    BY <1>0, <2>1, RollbackGoesBack DEF CallsTyped
  <2> QED
    BY <1>0, <2>1, <2>2 DEF LeavesCalls, RestoringNext, CallsTyped
<1>19. CASE ApplyFails(c)
  BY <1>0, <1>19 DEF ApplyFails
<1>20. CASE Dies(c)
  BY <1>0, <1>20 DEF Dies
<1> QED
  BY <1>1, <1>2, <1>3, <1>4, <1>5, <1>6, <1>7, <1>8, <1>9, <1>10, <1>11, <1>12, <1>13, <1>14, <1>15,
     <1>16, <1>17, <1>18, <1>19, <1>20 DEF Step, BatchStep, ChangeStep

(* Their histories. *)
LEMMA OthersAreTold ==
    ASSUME EInv, NEW c \in Callers, Step(c)
    PROVE  LeavesHistory(c)
<1>0. HistoryTyped /\ PlacesTyped
  BY DEF EInv, Shapes
<1> USE DEF history, places
<1>1. ASSUME NEW request \in Calls, Call(c, request)
      PROVE  LeavesHistory(c)
  BY <1>0, <1>1 DEF Call, LeavesHistory, HistoryTyped
<1>2. CASE LockPath(c)
  BY <1>0, <1>2 DEF LockPath, LeavesHistory, HistoryTyped
<1>3. CASE PlanPath(c)
  BY <1>0, <1>3 DEF PlanPath, LeavesHistory, HistoryTyped
<1>4. CASE RecheckPath(c)
  BY <1>0, <1>4 DEF RecheckPath, LeavesHistory, HistoryTyped
<1>5. CASE SkipPath(c)
  BY <1>0, <1>5 DEF SkipPath, LeavesHistory, HistoryTyped
<1>6. CASE WritePath(c)
  <2>1. Noted(c, Path(c))
    BY <1>6 DEF WritePath, ReplaceFile, Unlink
  <2>2. \A d \in Callers \ {c} : wrote'[d] = wrote[d] /\ late[d] \subseteq late'[d]
    BY <1>0, <2>1 DEF HistoryTyped, Noted
  <2>3. \A d \in Callers \ {c} : \A f \in Files \ late'[d] : disk'[f] = disk[f]
    BY <1>0, <2>1, <1>6 DEF HistoryTyped, PlacesTyped, Noted, WritePath, ReplaceFile, Unlink
  <2>4. \A d \in Callers \ {c} : lost'[d] = lost[d]
    BY <1>0, <1>6 DEF HistoryTyped, WritePath
  <2> QED
    BY <2>2, <2>3, <2>4 DEF LeavesHistory
<1>7. CASE VerifyPath(c)
  BY <1>0, <1>7 DEF VerifyPath, LeavesHistory, HistoryTyped
<1>8. CASE RestorePath(c)
  <2>1. Noted(c, Path(c))
    BY <1>8 DEF RestorePath, ReplaceFile, Unlink
  <2>2. \A d \in Callers \ {c} : wrote'[d] = wrote[d] /\ late[d] \subseteq late'[d]
    BY <1>0, <2>1 DEF HistoryTyped, Noted
  <2>3. \A d \in Callers \ {c} : \A f \in Files \ late'[d] : disk'[f] = disk[f]
    BY <1>0, <2>1, <1>8 DEF HistoryTyped, PlacesTyped, Noted, RestorePath, ReplaceFile, Unlink
  <2>4. \A d \in Callers \ {c} : lost'[d] = lost[d]
    BY <1>0, <1>8 DEF HistoryTyped, RestorePath
  <2> QED
    BY <2>2, <2>3, <2>4 DEF LeavesHistory
<1>9. CASE ConfirmRestored(c)
  BY <1>0, <1>9 DEF ConfirmRestored, LeavesHistory, HistoryTyped
<1>10. CASE ReturnBatch(c)
  BY <1>0, <1>10 DEF ReturnBatch, LeavesHistory, HistoryTyped
<1>11. CASE PlanOperation(c)
  BY <1>0, <1>11 DEF PlanOperation, LeavesHistory, HistoryTyped
<1>12. CASE ApplyDelete(c)
  <2>1. Noted(c, Item(c).file) \/ UNCHANGED << disk, wrote, late >>
    BY <1>12 DEF ApplyDelete, ReplaceFile, Unlink
  <2>2. \A d \in Callers \ {c} : wrote'[d] = wrote[d] /\ late[d] \subseteq late'[d]
    BY <1>0, <2>1 DEF HistoryTyped, Noted
  <2>3. \A d \in Callers \ {c} : \A f \in Files \ late'[d] : disk'[f] = disk[f]
    BY <1>0, <2>1, <1>12 DEF HistoryTyped, PlacesTyped, Noted, ApplyDelete, ReplaceFile, Unlink
  <2>4. \A d \in Callers \ {c} : lost'[d] = lost[d]
    BY <1>0, <1>12 DEF HistoryTyped, ApplyDelete
  <2> QED
    BY <2>2, <2>3, <2>4 DEF LeavesHistory
<1>13. CASE OpenForWriting(c)
  <2>1. Noted(c, Item(c).file)
    BY <1>13 DEF OpenForWriting, ReplaceFile, Unlink
  <2>2. \A d \in Callers \ {c} : wrote'[d] = wrote[d] /\ late[d] \subseteq late'[d]
    BY <1>0, <2>1 DEF HistoryTyped, Noted
  <2>3. \A d \in Callers \ {c} : \A f \in Files \ late'[d] : disk'[f] = disk[f]
    BY <1>0, <2>1, <1>13 DEF HistoryTyped, PlacesTyped, Noted, OpenForWriting, ReplaceFile, Unlink
  <2>4. \A d \in Callers \ {c} : lost'[d] = lost[d]
    BY <1>0, <1>13 DEF HistoryTyped, OpenForWriting
  <2> QED
    BY <2>2, <2>3, <2>4 DEF LeavesHistory
<1>14. CASE FillFile(c)
  <2>1. Noted(c, Item(c).file) \/ UNCHANGED << disk, wrote, late >>
    BY <1>14 DEF FillFile, ReplaceFile, Unlink
  <2>2. \A d \in Callers \ {c} : wrote'[d] = wrote[d] /\ late[d] \subseteq late'[d]
    BY <1>0, <2>1 DEF HistoryTyped, Noted
  <2>3. \A d \in Callers \ {c} : \A f \in Files \ late'[d] : disk'[f] = disk[f]
    BY <1>0, <2>1, <1>14 DEF HistoryTyped, PlacesTyped, Noted, FillFile, ReplaceFile, Unlink
  <2>4. \A d \in Callers \ {c} : lost'[d] = lost[d]
    BY <1>0, <1>14 DEF HistoryTyped, FillFile
  <2> QED
    BY <2>2, <2>3, <2>4 DEF LeavesHistory
<1>15. CASE UnlinkOld(c)
  <2>1. Noted(c, Item(c).from) \/ UNCHANGED << disk, wrote, late >>
    BY <1>15 DEF UnlinkOld, ReplaceFile, Unlink
  <2>2. \A d \in Callers \ {c} : wrote'[d] = wrote[d] /\ late[d] \subseteq late'[d]
    BY <1>0, <2>1 DEF HistoryTyped, Noted
  <2>3. \A d \in Callers \ {c} : \A f \in Files \ late'[d] : disk'[f] = disk[f]
    BY <1>0, <2>1, <1>15 DEF HistoryTyped, PlacesTyped, Noted, UnlinkOld, ReplaceFile, Unlink
  <2>4. \A d \in Callers \ {c} : lost'[d] = lost[d]
    BY <1>0, <1>15 DEF HistoryTyped, UnlinkOld
  <2> QED
    BY <2>2, <2>3, <2>4 DEF LeavesHistory
<1>16. CASE ReturnChange(c)
  BY <1>0, <1>16 DEF ReturnChange, LeavesHistory, HistoryTyped
<1>17. CASE WriteFails(c)
  <2>1. Noted(c, Path(c)) \/ UNCHANGED << disk, wrote, late >>
    BY <1>17 DEF WriteFails, ReplaceFile, Unlink
  <2>2. \A d \in Callers \ {c} : wrote'[d] = wrote[d] /\ late[d] \subseteq late'[d]
    BY <1>0, <2>1 DEF HistoryTyped, Noted
  <2>3. \A d \in Callers \ {c} : \A f \in Files \ late'[d] : disk'[f] = disk[f]
    BY <1>0, <2>1, <1>17 DEF HistoryTyped, PlacesTyped, Noted, WriteFails, ReplaceFile, Unlink
  <2>4. \A d \in Callers \ {c} : lost'[d] = lost[d]
    BY <1>0, <1>17 DEF HistoryTyped, WriteFails
  <2> QED
    BY <2>2, <2>3, <2>4 DEF LeavesHistory
<1>18. CASE RestoreFails(c)
  BY <1>0, <1>18 DEF RestoreFails, LeavesHistory, HistoryTyped
<1>19. CASE ApplyFails(c)
  BY <1>0, <1>19 DEF ApplyFails, LeavesHistory, HistoryTyped
<1>20. CASE Dies(c)
  BY <1>0, <1>20 DEF Dies, LeavesHistory, HistoryTyped
<1> QED
  BY <1>1, <1>2, <1>3, <1>4, <1>5, <1>6, <1>7, <1>8, <1>9, <1>10, <1>11, <1>12, <1>13, <1>14, <1>15,
     <1>16, <1>17, <1>18, <1>19, <1>20 DEF Step, BatchStep, ChangeStep

(* The operation a patch is at is one of its operations; its files are files. *)
LEMMA PlannedOperationSays ==
    ASSUME EInv, NEW c \in Callers, pc[c] = "planning", ~ IsBatch(c)
    PROVE  /\ Len(call[c].ops) \in Nat /\ pos[c] \in 1..Len(call[c].ops)
           /\ \/ PlannedOperation(c).ok = FALSE /\ PlannedOperation(c).code \in Refusals
              \/ /\ PlannedOperation(c).ok = TRUE
                 /\ PlannedOperation(c).file \in Files /\ PlannedOperation(c).from \in Files
<1>1. call[c] \in Calls /\ call[c].tool = "patch" /\ pos[c] <= Len(call[c].ops) /\ pos[c] \in Nat \ {0}
  BY DEF EInv, Shapes, CallsTyped, Steady, PlanFits
<1> DEFINE op == call[c].ops[pos[c]]
           Right(p) == \/ p.ok = FALSE /\ p.code \in Refusals
                       \/ p.ok = TRUE /\ p.file \in Files /\ p.from \in Files
<1>2. call[c].ops \in Seq(Range(call[c].ops))
  BY <1>1, CallsAreRequests
<1>3. Len(call[c].ops) \in Nat /\ DOMAIN call[c].ops = 1..Len(call[c].ops) /\ pos[c] \in 1..Len(call[c].ops)
  BY <1>1, <1>2
<1>4. op.kind \in {"add", "delete", "update"} /\ OpFiles(op) \subseteq Files
  BY <1>1, <1>3, CallsAreRequests
<1>5. PlannedOperation(c) = PlanOp(disk, op)
  BY DEF PlannedOperation
<1> HIDE DEF op
<1>6. CASE op.kind = "update"
  <2>1. PlanOp(disk, op) = PlanUpdate(disk, op) /\ op.file \in Files /\ op.to \in Files
    BY <1>4, <1>6 DEF PlanOp, OpFiles
  <2>2. Right(PlanUpdate(disk, op))
    BY <2>1 DEF PlanUpdate, Refusal, Change, Refusals
  <2> QED
    BY <1>3, <1>5, <2>1, <2>2
<1>7. CASE op.kind = "add"
  <2>1. PlanOp(disk, op) = PlanAdd(disk, op) /\ op.file \in Files
    BY <1>4, <1>7 DEF PlanOp, OpFiles
  <2>2. Right(PlanAdd(disk, op))
    BY <2>1 DEF PlanAdd, Refusal, Change, Refusals
  <2> QED
    BY <1>3, <1>5, <2>1, <2>2
<1>8. CASE op.kind = "delete"
  <2>1. PlanOp(disk, op) = PlanDelete(disk, op) /\ op.file \in Files
    BY <1>4, <1>8 DEF PlanOp, OpFiles
  <2>2. Right(PlanDelete(disk, op))
    BY <2>1 DEF PlanDelete, Refusal, Change, Refusals
  <2> QED
    BY <1>3, <1>5, <2>1, <2>2
<1> QED
  BY <1>4, <1>6, <1>7, <1>8

(* Who holds a lock is in a batch: those that leave give theirs back. *)
LEMMA LocksStayWithBatches ==
    ASSUME EInv, NEW c \in Callers, Step(c)
    PROVE  LocksAreOfBatches'
<1>0. CallsTyped /\ PlacesTyped /\ LocksAreOfBatches /\ Steady(c) /\ c # None
  BY NoneIsNobody DEF EInv, Shapes
<1>00. \A d \in Callers \ {c} : pc'[d] = pc[d] /\ call'[d] = call[d]
  BY OthersKeepCalls DEF LeavesCalls
<1> USE DEF LocksAreOfBatches, IsBatch, CallsTyped, PlacesTyped, Goto, Answer, Advance, NextItem,
            Unlink, places, ReplaceFile, Steady, AfterPlanning, OfChanges, Over
<1>1. ASSUME NEW request \in Calls, Call(c, request)
      PROVE  LocksAreOfBatches'
  BY <1>0, <1>00, <1>1 DEF Call
<1>2. CASE LockPath(c)
  BY <1>0, <1>00, <1>2 DEF LockPath
<1>3. CASE PlanPath(c)
  BY <1>0, <1>00, <1>3 DEF PlanPath
<1>4. CASE RecheckPath(c)
  BY <1>0, <1>00, <1>4 DEF RecheckPath
<1>5. CASE SkipPath(c)
  BY <1>0, <1>00, <1>5 DEF SkipPath
<1>6. CASE WritePath(c)
  BY <1>0, <1>00, <1>6 DEF WritePath
<1>7. CASE VerifyPath(c)
  BY <1>0, <1>00, <1>7 DEF VerifyPath
<1>8. CASE RestorePath(c)
  BY <1>0, <1>00, <1>8 DEF RestorePath
<1>9. CASE ConfirmRestored(c)
  <2>1. PICK bad : AfterRestoring(c, bad) /\ pc[c] \in {"restoring", "confirming"} /\ UNCHANGED << call, lock >>
    BY <1>9 DEF ConfirmRestored
  <2>2. RestoringNext(c, bad)
    BY <1>0, <2>1, RollbackGoesBack DEF CallsTyped
  <2>3. pc'[c] \in {"restoring", "returning"}
    BY <1>0, <2>1, <2>2 DEF RestoringNext, CallsTyped
  <2> QED
    BY <1>0, <1>00, <2>1, <2>3
<1>10. CASE ReturnBatch(c)
  BY <1>0, <1>00, <1>10 DEF ReturnBatch
<1>11. CASE PlanOperation(c)
  BY <1>0, <1>00, <1>11 DEF PlanOperation
<1>12. CASE ApplyDelete(c)
  BY <1>0, <1>00, <1>12 DEF ApplyDelete
<1>13. CASE OpenForWriting(c)
  BY <1>0, <1>00, <1>13 DEF OpenForWriting
<1>14. CASE FillFile(c)
  BY <1>0, <1>00, <1>14 DEF FillFile
<1>15. CASE UnlinkOld(c)
  BY <1>0, <1>00, <1>15 DEF UnlinkOld
<1>16. CASE ReturnChange(c)
  BY <1>0, <1>00, <1>16 DEF ReturnChange
<1>17. CASE WriteFails(c)
  BY <1>0, <1>00, <1>17 DEF WriteFails
<1>18. CASE RestoreFails(c)
  <2>1. PICK bad : AfterRestoring(c, bad) /\ pc[c] \in {"restoring", "confirming"} /\ UNCHANGED << call, lock >>
    BY <1>18 DEF RestoreFails
  <2>2. RestoringNext(c, bad)
    BY <1>0, <2>1, RollbackGoesBack DEF CallsTyped
  <2>3. pc'[c] \in {"restoring", "returning"}
    BY <1>0, <2>1, <2>2 DEF RestoringNext, CallsTyped
  <2> QED
    BY <1>0, <1>00, <2>1, <2>3
<1>19. CASE ApplyFails(c)
  BY <1>0, <1>00, <1>19 DEF ApplyFails
<1>20. CASE Dies(c)
  BY <1>0, <1>00, <1>20 DEF Dies
<1> QED
  BY <1>1, <1>2, <1>3, <1>4, <1>5, <1>6, <1>7, <1>8, <1>9, <1>10, <1>11, <1>12, <1>13, <1>14, <1>15,
     <1>16, <1>17, <1>18, <1>19, <1>20 DEF Step, BatchStep, ChangeStep

(* The place of the call that takes the step. *)
LEMMA OwnCallSteady ==
    ASSUME EInv, NEW c \in Callers, Step(c)
    PROVE  Steady(c)'
<1>0. CallsTyped /\ HistoryTyped /\ Steady(c)
  BY DEF EInv, Shapes
<1>00. None \notin Calls
  BY NoneIsNobody
<1> USE DEF Goto, Answer, Advance, NextItem, Unlink, ReplaceFile, AfterPlanning, OfChanges, Over,
            Steady, IsBatch, CallsTyped, HistoryTyped, history, Refusals, Noted
<1>1. ASSUME NEW request \in Calls, Call(c, request)
      PROVE  Steady(c)'
  BY <1>0, <1>00, <1>1 DEF Call
<1>2. CASE LockPath(c)
  BY <1>0, <1>00, <1>2 DEF LockPath
<1>3. CASE PlanPath(c)
  <2> DEFINE p == PlannedPath(c)
  <2>1. p.ok = TRUE \/ p.code \in Refusals
    BY PlannedPathSays
  <2>2. \/ Answer(c, p.code) /\ p.ok # TRUE
        \/ (UNCHANGED pc \/ Goto(c, "checking")) /\ answer' = answer
    BY <1>3 DEF PlanPath
  <2> HIDE DEF p
  <2> QED
    BY <1>0, <1>00, <2>1, <2>2, <1>3 DEF PlanPath
<1>4. CASE RecheckPath(c)
  BY <1>0, <1>00, <1>4 DEF RecheckPath
<1>5. CASE SkipPath(c)
  BY <1>0, <1>00, <1>5 DEF SkipPath
<1>6. CASE WritePath(c)
  BY <1>0, <1>00, <1>6 DEF WritePath
<1>7. CASE VerifyPath(c)
  BY <1>0, <1>00, <1>7 DEF VerifyPath
<1>8. CASE RestorePath(c)
  BY <1>0, <1>00, <1>8 DEF RestorePath
<1>9. CASE ConfirmRestored(c)
  <2>1. PICK bad : /\ AfterRestoring(c, bad) /\ \E b : failed' = [failed EXCEPT ![c] = b]
                  /\ pc[c] \in {"restoring", "confirming"} /\ UNCHANGED << call, wrote, lost >>
    BY <1>9 DEF ConfirmRestored
  <2>2. RestoringNext(c, bad)
    BY <1>0, <2>1, RollbackGoesBack DEF CallsTyped
  <2>3. \/ pc'[c] = "restoring" /\ answer'[c] = answer[c]
        \/ pc'[c] = "returning" /\ answer'[c] \in {"rollback_failed", "rolled_back"}
    BY <1>0, <2>2 DEF RestoringNext, CallsTyped
  <2> QED
    BY <1>0, <1>00, <2>1, <2>3
<1>10. CASE ReturnBatch(c)
  BY <1>0, <1>00, <1>10 DEF ReturnBatch
<1>11. CASE PlanOperation(c)
  <2> DEFINE p == PlannedOperation(c)
  <2>1. p.ok = TRUE \/ p.code \in Refusals
    BY PlannedOperationSays, <1>11 DEF PlanOperation
  <2>2. \/ Answer(c, p.code) /\ p.ok # TRUE
        \/ (UNCHANGED pc \/ Goto(c, "applying")) /\ answer' = answer
        \/ Answer(c, "success")
    BY <1>11 DEF PlanOperation
  <2> HIDE DEF p
  <2> QED
    BY <1>0, <1>00, <2>1, <2>2, <1>11 DEF PlanOperation
<1>12. CASE ApplyDelete(c)
  BY <1>0, <1>00, <1>12 DEF ApplyDelete
<1>13. CASE OpenForWriting(c)
  BY <1>0, <1>00, <1>13 DEF OpenForWriting
<1>14. CASE FillFile(c)
  BY <1>0, <1>00, <1>14 DEF FillFile
<1>15. CASE UnlinkOld(c)
  BY <1>0, <1>00, <1>15 DEF UnlinkOld
<1>16. CASE ReturnChange(c)
  BY <1>0, <1>00, <1>16 DEF ReturnChange
<1>17. CASE WriteFails(c)
  BY <1>0, <1>00, <1>17 DEF WriteFails
<1>18. CASE RestoreFails(c)
  <2>1. PICK bad : /\ AfterRestoring(c, bad) /\ \E b : failed' = [failed EXCEPT ![c] = b]
                  /\ pc[c] \in {"restoring", "confirming"} /\ UNCHANGED << call, wrote, lost >>
    BY <1>18 DEF RestoreFails
  <2>2. RestoringNext(c, bad)
    BY <1>0, <2>1, RollbackGoesBack DEF CallsTyped
  <2>3. \/ pc'[c] = "restoring" /\ answer'[c] = answer[c]
        \/ pc'[c] = "returning" /\ answer'[c] \in {"rollback_failed", "rolled_back"}
    BY <1>0, <2>2 DEF RestoringNext, CallsTyped
  <2> QED
    BY <1>0, <1>00, <2>1, <2>3
<1>19. CASE ApplyFails(c)
  BY <1>0, <1>00, <1>19 DEF ApplyFails
<1>20. CASE Dies(c)
  BY <1>0, <1>00, <1>20 DEF Dies
<1> QED
  BY <1>1, <1>2, <1>3, <1>4, <1>5, <1>6, <1>7, <1>8, <1>9, <1>10, <1>11, <1>12, <1>13, <1>14, <1>15,
     <1>16, <1>17, <1>18, <1>19, <1>20 DEF Step, BatchStep, ChangeStep

(* The others stay as they were. *)
LEMMA OthersStay ==
    ASSUME EInv, NEW c \in Callers, Step(c), NEW d \in Callers \ {c}
    PROVE  Steady(d)' /\ PlanFits(d)' /\ Contents(d)'
<1>1. /\ pc'[d] = pc[d] /\ call'[d] = call[d] /\ pos'[d] = pos[d] /\ plan'[d] = plan[d]
      /\ answer'[d] = answer[d] /\ failed'[d] = failed[d]
  BY OthersKeepCalls DEF LeavesCalls
<1>2. /\ wrote'[d] = wrote[d] /\ lost'[d] = lost[d] /\ late[d] \subseteq late'[d]
      /\ \A f \in Files \ late'[d] : disk'[f] = disk[f]
  BY OthersAreTold DEF LeavesHistory
<1>3. Steady(d) /\ PlanFits(d) /\ Contents(d)
  BY DEF EInv
<1>4. (IsBatch(d)' <=> IsBatch(d)) /\ Count(d)' = Count(d)
  BY <1>1 DEF IsBatch, Count
<1>5. Steady(d)'
  BY <1>1, <1>2, <1>3, <1>4 DEF Steady
<1>6. PlanFits(d)'
  BY <1>1, <1>2, <1>3, <1>4 DEF PlanFits
<1>7. CASE IsBatch(d)
  <2>1. \A i \in 1..Len(plan[d]) : plan[d][i].file \in Files
    BY <1>7, BatchFacts
  <2>2. \A i \in 1..Len(plan[d]) :
          /\ Fresh(d, i)' => Fresh(d, i) /\ disk'[plan[d][i].file] = disk[plan[d][i].file]
          /\ HasOld(d, i) => (HasOld(d, i))'
          /\ HasNew(d, i) => (HasNew(d, i))'
    BY <1>1, <1>2, <2>1 DEF Fresh, HasOld, HasNew
  <2>3. pc[d] \in AfterPlanning =>
          /\ pos[d] \in 1..Len(plan[d]) /\ \A i \in 1..(pos[d] - 1) : i \in 1..Len(plan[d])
          /\ \A i \in (pos[d] + 1)..Len(plan[d]) : i \in 1..Len(plan[d])
    <3>1. pos[d] \in Nat \ {0} /\ Len(plan[d]) \in Nat /\ Count(d) \in Nat
      BY <1>7, BatchFacts DEF EInv, Shapes, CallsTyped
    <3> QED
      BY <1>3, <1>7, <3>1 DEF PlanFits
  <2>4. (pc[d] = "returning" /\ Answered(d)) => Answered(d)'
    BY <1>1, <1>2, <2>2 DEF Answered
  <2> QED
    BY <1>1, <1>2, <1>3, <1>4, <1>5, <1>6, <1>7, <2>2, <2>3, <2>4 DEF Contents, AfterPlanning
<1>8. CASE ~ IsBatch(d)
  BY <1>1, <1>3, <1>4, <1>5, <1>6, <1>8 DEF Contents, Steady, AfterPlanning
<1> QED
  BY <1>7, <1>8

(* The plan of the call that takes the step. *)
LEMMA OwnPlanFits ==
    ASSUME EInv, NEW c \in Callers, Step(c)
    PROVE  PlanFits(c)'
<1>0. CallsTyped /\ Steady(c) /\ PlanFits(c)
  BY DEF EInv, Shapes
<1>00. (IsBatch(c) => Count(c) \in Nat) /\ Len(plan[c]) \in Nat
  BY BatchFacts DEF EInv, PlanFits
<1> USE DEF CallsTyped, Steady, PlanFits, Count, IsBatch, Path, LastPath, Advance, Goto, Answer,
            NextItem, Unlink, AfterPlanning, OfChanges, Over
<1>1. ASSUME NEW request \in Calls, Call(c, request)
      PROVE  PlanFits(c)'
  <2>1. pc[c] = "idle" /\ plan[c] = << >> /\ pos[c] = 1 /\ pos' = pos /\ lost' = lost /\ call'[c] = request
    BY <1>0, <1>1 DEF Call
  <2>2. request \in Calls /\ request # None /\ lost'[c] = {} /\ Len(<< >>) = 0
    BY <2>1, <1>0, NoneIsNobody
  <2>3. (IsBatch(c)' <=> request.tool = "replace") /\ Count(c)' = Len(OrderedPaths(request.ops))
    BY <2>1, <2>2
  <2> HIDE DEF IsBatch, Count
  <2>4. CASE request.tool = "replace" /\ Unusable(request.ops)
    <3>1. plan'[c] = << >> /\ pc'[c] = "returning"
      BY <1>0, <1>1, <2>1, <2>4 DEF Call
    <3>2. Count(c)' \in Nat
      BY <2>3, <2>4, CallsAreRequests, PathsAreOrdered
    <3> QED
      BY <2>1, <2>2, <2>3, <2>4, <3>1, <3>2
  <2>5. CASE request.tool = "replace" /\ ~ Unusable(request.ops)
    <3>1. plan'[c] = << >> /\ pc'[c] = "locking"
      BY <1>0, <1>1, <2>1, <2>5 DEF Call
    <3>2. Count(c)' \in Nat \ {0}
      BY <2>3, <2>5, BatchesHaveFiles
    <3> QED
      BY <2>1, <2>2, <2>3, <2>5, <3>1, <3>2
  <2>6. CASE request.tool = "patch"
    <3>1. plan'[c] = << >>
      BY <1>0, <1>1, <2>1, <2>6 DEF Call
    <3>2. \/ pc'[c] = "returning"
          \/ pc'[c] = "planning" /\ request.ops # << >>
      BY <1>0, <1>1, <2>1, <2>6 DEF Call
    <3>3. request.ops \in Seq(Range(request.ops))
      BY <2>6, CallsAreRequests
    <3>4. request.ops # << >> => 1 <= Len(request.ops)
      BY <3>3
    <3> QED
      BY <2>1, <2>2, <2>3, <2>6, <3>1, <3>2, <3>4
  <2>7. CASE request.tool = "write"
    <3>1. request.file \in Files
      BY <2>7, CallsAreRequests
    <3>2. plan'[c] = << Change("write", request.file, request.file, request.text) >>
      BY <1>0, <1>1, <2>7 DEF Call
    <3>3. pc'[c] \in {"returning", "applying"}
      BY <1>0, <1>1, <2>7 DEF Call
    <3> DEFINE change == Change("write", request.file, request.file, request.text)
    <3>4. change.file \in Files /\ change.from \in Files
      BY <3>1 DEF Change
    <3> HIDE DEF change
    <3>5. plan'[c] = << change >>
      BY <3>2 DEF change
    <3>6. plan'[c] \in Seq(Range(plan'[c])) /\ Len(plan'[c]) = 1 /\ plan'[c][1] = change
      <4>1. << change >> \in Seq({change})
        OBVIOUS
      <4>2. << change >> \in Seq(Range(<< change >>))
        BY <4>1, SequencesAreOfTheirItems
      <4> QED
        BY <3>5, <4>2
    <3> QED
      BY <2>1, <2>2, <2>3, <2>7, <3>3, <3>4, <3>6
  <2> QED
    BY <2>2, <2>4, <2>5, <2>6, <2>7, CallsAreRequests
<1>2. CASE LockPath(c)
  BY <1>0, <1>00, <1>2 DEF LockPath
<1>3. CASE PlanPath(c)
  <2> DEFINE p == PlannedPath(c)
  <2>1. CASE p.ok = TRUE
    <3>1. plan'[c] = Append(plan[c], p) /\ call' = call
      BY <1>0, <2>1, <1>3 DEF PlanPath
    <3>2. \/ pos[c] = Count(c) /\ pos'[c] = 1 /\ pc'[c] = "checking"
          \/ pos[c] # Count(c) /\ pos'[c] = pos[c] + 1 /\ pc'[c] = "planning"
      BY <1>0, <2>1, <1>3 DEF PlanPath
    <3>3. p.file = OrderedPaths(call[c].ops)[pos[c]]
      BY <2>1, PlannedPathSays
    <3> HIDE DEF p
    <3>4. /\ plan'[c] \in Seq(Range(plan'[c])) /\ Len(plan'[c]) = Len(plan[c]) + 1
          /\ \A i \in 1..Len(plan[c]) : plan'[c][i] = plan[c][i]
          /\ plan'[c][Len(plan[c]) + 1] = p
      BY <1>0, <3>1, PlansGrow
    <3>5. IsBatch(c) /\ pc[c] = "planning"
      BY <1>3 DEF PlanPath
    <3>6. IsBatch(c)' /\ Count(c)' = Count(c)
      BY <3>1, <3>5
    <3>7. pos[c] \in Nat \ {0} /\ Count(c) \in Nat /\ Len(plan[c]) = pos[c] - 1 /\ pos[c] <= Count(c)
      BY <1>0, <1>00, <3>5
    <3>8. \A i \in 1..(Len(plan[c]) + 1) : plan'[c][i].file = OrderedPaths(call'[c].ops)[i]
      BY <1>0, <3>1, <3>3, <3>4, <3>5, <3>7
    <3> HIDE DEF IsBatch, Count
    <3> QED
      BY <3>2, <3>4, <3>6, <3>7, <3>8
  <2>2. CASE p.ok # TRUE
    <3>1. UNCHANGED << call, plan, pos, lost >> /\ pc'[c] = "returning" /\ IsBatch(c)
      BY <1>0, <2>2, <1>3 DEF PlanPath, history
    <3> QED
      BY <1>0, <1>00, <3>1
  <2> QED
    BY <2>1, <2>2
<1>4. CASE RecheckPath(c)
  BY <1>0, <1>00, <1>4 DEF RecheckPath
<1>5. CASE SkipPath(c)
  BY <1>0, <1>00, <1>5 DEF SkipPath
<1>6. CASE WritePath(c)
  BY <1>0, <1>00, <1>6 DEF WritePath
<1>7. CASE VerifyPath(c)
  BY <1>0, <1>00, <1>7 DEF VerifyPath
<1>8. CASE RestorePath(c)
  BY <1>0, <1>00, <1>8 DEF RestorePath
<1>9. CASE ConfirmRestored(c)
  <2>1. PICK bad : /\ AfterRestoring(c, bad) /\ UNCHANGED << call, plan >>
                  /\ pc[c] \in {"restoring", "confirming"}
    BY <1>9 DEF ConfirmRestored
  <2>2. RestoringNext(c, bad)
    BY <1>0, <2>1, RollbackGoesBack
  <2>3. IsBatch(c) /\ pos[c] \in Nat
    BY <1>0, <2>1
  <2>4. \/ pc'[c] = "restoring" /\ pos'[c] \in 1..(pos[c] - 1)
        \/ pc'[c] = "returning"
    BY <1>0, <2>2 DEF RestoringNext
  <2>5. pos'[c] \in Nat /\ pos'[c] <= pos[c]
    BY <1>0, <2>2, <2>3 DEF RestoringNext
  <2>6. IsBatch(c)' /\ Count(c)' = Count(c) /\ ~ IsBatch(c)' = FALSE
    BY <2>1, <2>3
  <2> QED
    BY <1>0, <1>00, <2>1, <2>3, <2>4, <2>5, <2>6
<1>10. CASE ReturnBatch(c)
  BY <1>0, <1>00, <1>10 DEF ReturnBatch
<1>11. CASE PlanOperation(c)
  <2> DEFINE p == PlannedOperation(c)
  <2>1. pc[c] = "planning" /\ ~ IsBatch(c) /\ call' = call /\ lost' = lost
    BY <1>11 DEF PlanOperation, history
  <2>2. pos[c] \in 1..Len(call[c].ops) /\ Len(call[c].ops) \in Nat
    BY <2>1, PlannedOperationSays
  <2>3. ~ IsBatch(c)'
    BY <2>1
  <2>4. CASE p.ok = TRUE
    <3>1. plan'[c] = Append(plan[c], p)
      BY <1>0, <2>4, <1>11 DEF PlanOperation
    <3>2. \/ pos[c] < Len(call[c].ops) /\ pos'[c] = pos[c] + 1 /\ pc'[c] = "planning"
          \/ pos'[c] = 1 /\ pc'[c] \in {"returning", "applying"}
      BY <1>0, <2>1, <2>4, <1>11 DEF PlanOperation
    <3>3. p.file \in Files /\ p.from \in Files
      BY <2>1, <2>4, PlannedOperationSays
    <3> HIDE DEF p
    <3>4. /\ plan'[c] \in Seq(Range(plan'[c])) /\ Len(plan'[c]) = Len(plan[c]) + 1
          /\ \A i \in 1..Len(plan[c]) : plan'[c][i] = plan[c][i]
          /\ plan'[c][Len(plan[c]) + 1] = p
      BY <1>0, <3>1, PlansGrow
    <3>5. \A i \in 1..(Len(plan[c]) + 1) : plan'[c][i].file \in Files /\ plan'[c][i].from \in Files
      <4>1. \A i \in 1..Len(plan[c]) : plan[c][i].file \in Files /\ plan[c][i].from \in Files
        BY <1>0, <2>1
      <4>2. \A i \in 1..(Len(plan[c]) + 1) : i \in 1..Len(plan[c]) \/ i = Len(plan[c]) + 1
        BY <1>00
      <4> QED
        BY <3>3, <3>4, <4>1, <4>2
    <3>6. Len(plan[c]) = pos[c] - 1
      BY <1>0, <2>1
    <3> HIDE DEF IsBatch, Count
    <3> QED
      BY <1>0, <1>00, <2>1, <2>2, <2>3, <3>2, <3>4, <3>5, <3>6
  <2>5. CASE p.ok # TRUE
    <3>1. UNCHANGED << plan, pos >> /\ pc'[c] = "returning"
      BY <1>0, <2>5, <1>11 DEF PlanOperation
    <3> QED
      BY <1>0, <1>00, <2>1, <2>3, <3>1
  <2> QED
    BY <2>4, <2>5
<1>12. CASE ApplyDelete(c)
  BY <1>0, <1>00, <1>12 DEF ApplyDelete
<1>13. CASE OpenForWriting(c)
  BY <1>0, <1>00, <1>13 DEF OpenForWriting
<1>14. CASE FillFile(c)
  BY <1>0, <1>00, <1>14 DEF FillFile
<1>15. CASE UnlinkOld(c)
  BY <1>0, <1>00, <1>15 DEF UnlinkOld
<1>16. CASE ReturnChange(c)
  <2>1. UNCHANGED << call, plan, pos, lost >> /\ pc'[c] = "done"
    BY <1>0, <1>16 DEF ReturnChange, history
  <2> QED
    BY <1>0, <1>00, <2>1
<1>17. CASE WriteFails(c)
  BY <1>0, <1>00, <1>17 DEF WriteFails
<1>18. CASE RestoreFails(c)
  <2>1. PICK bad : /\ AfterRestoring(c, bad) /\ UNCHANGED << call, plan >>
                  /\ pc[c] \in {"restoring", "confirming"}
    BY <1>18 DEF RestoreFails
  <2>2. RestoringNext(c, bad)
    BY <1>0, <2>1, RollbackGoesBack
  <2>3. IsBatch(c) /\ pos[c] \in Nat
    BY <1>0, <2>1
  <2>4. \/ pc'[c] = "restoring" /\ pos'[c] \in 1..(pos[c] - 1)
        \/ pc'[c] = "returning"
    BY <1>0, <2>2 DEF RestoringNext
  <2>5. pos'[c] \in Nat /\ pos'[c] <= pos[c]
    BY <1>0, <2>2, <2>3 DEF RestoringNext
  <2>6. IsBatch(c)' /\ Count(c)' = Count(c) /\ ~ IsBatch(c)' = FALSE
    BY <2>1, <2>3
  <2> QED
    BY <1>0, <1>00, <2>1, <2>3, <2>4, <2>5, <2>6
<1>19. CASE ApplyFails(c)
  <2>1. UNCHANGED << call, plan, pos, lost >> /\ pc'[c] = "returning"
    BY <1>0, <1>19 DEF ApplyFails, history
  <2> QED
    BY <1>0, <1>00, <2>1
<1>20. CASE Dies(c)
  BY <1>0, <1>00, <1>20 DEF Dies
<1> QED
  BY <1>1, <1>2, <1>3, <1>4, <1>5, <1>6, <1>7, <1>8, <1>9, <1>10, <1>11, <1>12, <1>13, <1>14, <1>15,
     <1>16, <1>17, <1>18, <1>19, <1>20 DEF Step, BatchStep, ChangeStep

(* Where a batch is in its plan. *)
LEMMA AtItem ==
    ASSUME EInv, NEW c \in Callers, pc[c] \in AfterPlanning
    PROVE  /\ Len(plan[c]) \in Nat /\ pos[c] \in 1..Len(plan[c]) /\ IsBatch(c)
           /\ Path(c) = plan[c][pos[c]].file /\ Path(c) \in Files
           /\ \A i \in 1..Len(plan[c]) : i # pos[c] => plan[c][i].file # Path(c)
           /\ (LastPath(c) <=> pos[c] = Len(plan[c]))
           /\ pc[c] # "checking" => ~ call[c].dry
<1>1. IsBatch(c) /\ pos[c] \in Nat \ {0}
  BY DEF EInv, Shapes, CallsTyped, Steady
<1>2. Len(plan[c]) = Count(c) /\ pos[c] <= Count(c) /\ Count(c) \in Nat
  BY <1>1, BatchFacts DEF EInv, PlanFits
<1>3. pos[c] \in 1..Len(plan[c])
  BY <1>1, <1>2
<1>4. Path(c) = plan[c][pos[c]].file
  BY <1>1, <1>3 DEF EInv, PlanFits, Path
<1>5. pc[c] # "checking" => ~ call[c].dry
  BY <1>1 DEF EInv, PlanFits
<1> QED
  BY <1>1, <1>2, <1>3, <1>4, <1>5, BatchFacts DEF LastPath, Count

(* A text put in the place of the file a batch is at leaves its others. *)
LEMMA WritesKeepOthers ==
    ASSUME EInv, NEW c \in Callers, pc[c] \in AfterPlanning, NEW text,
           ReplaceFile(c, Path(c), text), plan' = plan
    PROVE  /\ disk'[Path(c)] = text
           /\ \A i \in 1..Len(plan[c]) : i # pos[c] =>
                ((HasOld(c, i))' <=> HasOld(c, i)) /\ ((HasNew(c, i))' <=> HasNew(c, i))
           /\ late'[c] = late[c]
<1>1. disk' = [disk EXCEPT ![Path(c)] = text] /\ late'[c] = late[c]
  BY DEF EInv, Shapes, HistoryTyped, ReplaceFile, Noted
<1>2. disk = [f \in Files |-> disk[f]]
  BY DEF EInv, Shapes, PlacesTyped
<1>3. disk'[Path(c)] = text /\ \A f \in Files : f # Path(c) => disk'[f] = disk[f]
  BY <1>1, <1>2, AtItem
<1>4. \A i \in 1..Len(plan[c]) : plan[c][i].file \in Files /\ (i # pos[c] => plan[c][i].file # Path(c))
  BY AtItem, BatchFacts
<1> QED
  BY <1>1, <1>3, <1>4 DEF HasOld, HasNew, Fresh

(* What the files of the batch that takes the step hold. *)
LEMMA OwnContents ==
    ASSUME EInv, NEW c \in Callers, Step(c)
    PROVE  Contents(c)'
<1>0. CallsTyped /\ PlacesTyped /\ HistoryTyped /\ Steady(c) /\ PlanFits(c) /\ Contents(c)
  BY DEF EInv, Shapes
<1>1. ASSUME NEW request \in Calls, Call(c, request)
      PROVE  Contents(c)'
  <2>1. pc'[c] \in {"locking", "planning", "applying", "returning"} /\ lost' = lost /\ pc[c] = "idle"
    BY <1>0, <1>1 DEF Call, Goto, Answer, CallsTyped
  <2>2. lost'[c] = {} /\ plan[c] = << >> /\ call'[c] = request
    BY <1>0, <1>1, <2>1 DEF Steady, Call, CallsTyped
  <2>3. IsBatch(c)' => plan'[c] = << >> /\ Len(plan'[c]) = 0
    BY <1>0, <1>1, <2>2 DEF IsBatch, Call
  <2>4. IsBatch(c)' => Answered(c)'
    BY <2>3 DEF Answered
  <2> QED
    BY <2>1, <2>2, <2>4 DEF Contents
<1>2. CASE LockPath(c)
  <2>1. pc'[c] \in {"locking", "planning"} /\ UNCHANGED << call, lost >> /\ (IsBatch(c) => late' = late)
    BY <1>0, <1>2 DEF LockPath, Goto, Answer, Advance, CallsTyped, history, Unlink, NextItem
  <2> QED
    BY <1>0, <2>1 DEF Contents, IsBatch
<1>3. CASE PlanPath(c)
  <2>1. pc[c] = "planning" /\ IsBatch(c) /\ UNCHANGED << call, disk, wrote, late, lost >>
    BY <1>3 DEF PlanPath, history, places
  <2>2. \/ pc'[c] = "planning"
        \/ pc'[c] = "checking" /\ pos'[c] = 1
        \/ pc'[c] = "returning" /\ answer'[c] \in Refusals
    <3> DEFINE p == PlannedPath(c)
    <3>1. p.ok = TRUE \/ p.code \in Refusals
      BY PlannedPathSays
    <3>2. \/ Answer(c, p.code) /\ p.ok # TRUE
          \/ (pc' = pc \/ (Goto(c, "checking") /\ pos' = [pos EXCEPT ![c] = 1]))
      BY <1>3 DEF PlanPath, Advance
    <3> HIDE DEF p
    <3> QED
      BY <1>0, <2>1, <3>1, <3>2 DEF Answer, Goto, CallsTyped
  <2>3. wrote'[c] = {} /\ lost'[c] = {} /\ (IsBatch(c)' <=> IsBatch(c))
    BY <1>0, <2>1 DEF Steady, IsBatch
  <2>4. pc'[c] = "returning" => Answered(c)'
    BY <2>2, <2>3 DEF Answered, Refusals
  <2> QED
    BY <2>2, <2>3, <2>4 DEF Contents
<1>4. CASE RecheckPath(c)
  <2>1. /\ pc[c] = "checking" /\ IsBatch(c) /\ pc[c] \in AfterPlanning
        /\ UNCHANGED << call, plan, disk, failed, wrote, lost >>
    BY <1>0, <1>4 DEF RecheckPath, places, Steady, AfterPlanning
  <2>2. wrote'[c] = {} /\ lost'[c] = {} /\ (IsBatch(c)' <=> IsBatch(c)) /\ ~ failed'[c]
    BY <1>0, <2>1 DEF Steady, IsBatch, Over
  <2> DEFINE n == Len(plan[c])
             k == pos[c]
  <2>3. /\ n \in Nat /\ k \in 1..n /\ Path(c) = plan[c][k].file /\ Path(c) \in Files
        /\ \A i \in 1..n : i # k => plan[c][i].file # Path(c)
        /\ (LastPath(c) <=> k = n)
    BY <2>1, AtItem
  <2>4. CASE disk[Path(c)] # plan[c][pos[c]].before
    <3>1. pc'[c] = "returning" /\ answer'[c] = "revision_conflict"
      BY <1>0, <2>4, <1>4 DEF RecheckPath, Answer, Goto, CallsTyped
    <3>2. Answered(c)'
      BY <2>2, <3>1 DEF Answered
    <3> QED
      BY <2>2, <3>1, <3>2 DEF Contents
  <2>5. CASE disk[Path(c)] = plan[c][pos[c]].before
    <3>1. late'[c] = late[c] \ {Path(c)}
      BY <1>0, <2>5, <1>4 DEF RecheckPath, HistoryTyped
    <3>2. \A i \in 1..(k - 1) : HasOld(c, i)
      BY <1>0, <2>1 DEF Contents
    <3>3. \A i \in 1..k : i # k => i \in 1..(k - 1) /\ i \in 1..n
      BY <2>3
    <3>4. \A i \in 1..k : (HasOld(c, i))'
      BY <2>1, <2>3, <2>5, <3>1, <3>2, <3>3 DEF HasOld, Fresh
    <3>5. CASE k # n
      <4>1. pc'[c] = "checking" /\ pos'[c] = k + 1
        BY <1>0, <2>1, <2>3, <2>5, <3>5, <1>4 DEF RecheckPath, Advance, CallsTyped
      <4>2. \A i \in 1..(pos'[c] - 1) : i \in 1..k
        BY <2>3, <4>1
      <4> QED
        BY <2>2, <3>4, <4>1, <4>2 DEF Contents
    <3>6. CASE k = n /\ call[c].dry
      <4>1. pc'[c] = "returning" /\ answer'[c] = "success"
        BY <1>0, <2>3, <2>5, <3>6, <1>4 DEF RecheckPath, Answer, Goto, CallsTyped
      <4>2. Answered(c)'
        BY <2>1, <3>4, <3>6, <4>1 DEF Answered
      <4> QED
        BY <2>2, <4>1, <4>2 DEF Contents
    <3>7. CASE k = n /\ ~ call[c].dry
      <4>1. pc'[c] = "writing" /\ pos'[c] = 1
        BY <1>0, <2>3, <2>5, <3>7, <1>4 DEF RecheckPath, Advance, Goto, CallsTyped
      <4>2. 1 \in 1..k /\ Len(plan'[c]) = k /\ \A i \in (pos'[c] + 1)..Len(plan'[c]) : i \in 1..k
        BY <2>1, <2>3, <3>7, <4>1
      <4>3. \A i \in 1..(pos'[c] - 1) : FALSE
        BY <4>1
      <4> QED
        BY <2>2, <3>4, <4>1, <4>2, <4>3 DEF Contents
    <3> QED
      BY <3>5, <3>6, <3>7
  <2> QED
    BY <2>4, <2>5
<1>5. CASE SkipPath(c)
  <2>1. pc[c] = "writing" /\ IsBatch(c) /\ pc[c] \in AfterPlanning /\ UNCHANGED << disk, call, plan, failed, wrote, late, lost >>
    BY <1>0, <1>5 DEF SkipPath, history, places, Steady, AfterPlanning
  <2> DEFINE n == Len(plan[c])
             k == pos[c]
  <2>2. /\ n \in Nat /\ k \in 1..n /\ Path(c) = plan[c][k].file /\ Path(c) \in Files
        /\ (LastPath(c) <=> k = n) /\ ~ call[c].dry
    BY <2>1, AtItem
  <2>3. (IsBatch(c)' <=> IsBatch(c)) /\ ~ failed[c]
    BY <1>0, <2>1 DEF Steady, IsBatch, Over
  <2>4. (\A i \in 1..(k - 1) : HasNew(c, i)) /\ (~ failed[c] => \A i \in (k + 1)..n : HasOld(c, i))
        /\ lost[c] \subseteq late[c]
    BY <1>0, <2>1 DEF Contents
  <2>5. \A i \in 1..n : ((HasOld(c, i))' <=> HasOld(c, i)) /\ ((HasNew(c, i))' <=> HasNew(c, i))
    BY <2>1 DEF HasOld, HasNew, Fresh
  <2>6. HasNew(c, k)
    BY <1>0, <2>1, <1>5 DEF Contents, SkipPath, Unchanged, HasOld, HasNew
  <2>7. CASE k = n
    <3>1. pc'[c] = "returning" /\ answer'[c] = "success"
      BY <1>0, <2>2, <1>5, <2>7 DEF SkipPath, Answer, Goto, CallsTyped
    <3>2. \A i \in 1..n : i \in 1..(k - 1) \/ i = k
      BY <2>2, <2>7
    <3>3. Answered(c)'
      BY <2>1, <2>2, <2>4, <2>5, <2>6, <3>1, <3>2 DEF Answered
    <3> QED
      BY <2>1, <2>3, <2>4, <3>1, <3>3 DEF Contents
  <2>8. CASE k # n
    <3>1. pc'[c] = "writing" /\ pos'[c] = k + 1
      BY <1>0, <2>1, <2>2, <2>8, <1>5 DEF SkipPath, Advance, CallsTyped
    <3>2. /\ \A i \in 1..(pos'[c] - 1) : i \in 1..n /\ (i \in 1..(k - 1) \/ i = k)
          /\ pos'[c] \in (k + 1)..n /\ \A i \in (pos'[c] + 1)..n : i \in (k + 1)..n
          /\ \A i \in (k + 1)..n : i \in 1..n
      BY <2>2, <2>8, <3>1
    <3>3. \A i \in (k + 1)..n : (HasOld(c, i))'
      BY <2>3, <2>4, <2>5, <3>2
    <3>4. \A i \in 1..(pos'[c] - 1) : (HasNew(c, i))'
      BY <2>4, <2>5, <2>6, <3>2
    <3>5. (HasOld(c, pos[c]))'
      BY <3>2, <3>3 DEF HasOld, Fresh
    <3> QED
      BY <2>1, <2>3, <2>4, <3>1, <3>2, <3>3, <3>4, <3>5 DEF Contents
  <2> QED
    BY <2>7, <2>8
<1>6. CASE WritePath(c)
  <2>1. pc[c] = "writing" /\ IsBatch(c) /\ pc[c] \in AfterPlanning /\ UNCHANGED << call, pos, plan, failed >>
    BY <1>0, <1>6 DEF WritePath, history, places, Steady, AfterPlanning
  <2> DEFINE n == Len(plan[c])
             k == pos[c]
  <2>2. /\ n \in Nat /\ k \in 1..n /\ Path(c) = plan[c][k].file /\ Path(c) \in Files
        /\ (LastPath(c) <=> k = n) /\ ~ call[c].dry
    BY <2>1, AtItem
  <2>3. (IsBatch(c)' <=> IsBatch(c)) /\ ~ failed[c]
    BY <1>0, <2>1 DEF Steady, IsBatch, Over
  <2>4. (\A i \in 1..(k - 1) : HasNew(c, i)) /\ (~ failed[c] => \A i \in (k + 1)..n : HasOld(c, i))
        /\ lost[c] \subseteq late[c]
    BY <1>0, <2>1 DEF Contents
  <2>5. /\ disk'[Path(c)] = plan[c][k].text /\ late'[c] = late[c]
        /\ \A i \in 1..n : i # k =>
             ((HasOld(c, i))' <=> HasOld(c, i)) /\ ((HasNew(c, i))' <=> HasNew(c, i))
    BY <2>1, <1>6, WritesKeepOthers DEF WritePath
  <2>6. (HasNew(c, pos[c]))'
    BY <2>1, <2>2, <2>5 DEF HasNew
  <2>7. lost'[c] \subseteq late'[c]
    <3>1. lost'[c] = lost[c] \/ (lost'[c] = lost[c] \cup {Path(c)} /\ Path(c) \in late[c])
      BY <1>0, <2>1, <2>2, <1>6 DEF Contents, WritePath, HasOld, HasNew, Fresh, HistoryTyped
    <3> QED
      BY <2>4, <2>5, <3>1
  <2>8. pc'[c] = "verifying"
    BY <1>0, <1>6 DEF WritePath, Goto, CallsTyped
  <2>9. /\ \A i \in 1..(k - 1) : i \in 1..n /\ i # k
        /\ \A i \in (k + 1)..n : i \in 1..n /\ i # k
    BY <2>2
  <2>10. (\A i \in 1..(k - 1) : (HasNew(c, i))') /\ (\A i \in (k + 1)..n : (HasOld(c, i))')
    BY <2>3, <2>4, <2>5, <2>9
  <2> QED
    BY <2>1, <2>6, <2>7, <2>8, <2>10 DEF Contents
<1>7. CASE VerifyPath(c)
  <2>1. pc[c] = "verifying" /\ IsBatch(c) /\ pc[c] \in AfterPlanning /\ UNCHANGED << disk, call, plan, failed, wrote, late, lost >>
    BY <1>0, <1>7 DEF VerifyPath, history, places, Steady, AfterPlanning
  <2> DEFINE n == Len(plan[c])
             k == pos[c]
  <2>2. /\ n \in Nat /\ k \in 1..n /\ Path(c) = plan[c][k].file /\ Path(c) \in Files
        /\ (LastPath(c) <=> k = n) /\ ~ call[c].dry
    BY <2>1, AtItem
  <2>3. (IsBatch(c)' <=> IsBatch(c)) /\ ~ failed[c]
    BY <1>0, <2>1 DEF Steady, IsBatch, Over
  <2>4. (\A i \in 1..(k - 1) : HasNew(c, i)) /\ (~ failed[c] => \A i \in (k + 1)..n : HasOld(c, i))
        /\ lost[c] \subseteq late[c]
    BY <1>0, <2>1 DEF Contents
  <2>5. \A i \in 1..n : ((HasOld(c, i))' <=> HasOld(c, i)) /\ ((HasNew(c, i))' <=> HasNew(c, i))
    BY <2>1 DEF HasOld, HasNew, Fresh
  <2>6. HasNew(c, k)
    BY <1>0, <2>1 DEF Contents
  <2>9. CASE disk[Path(c)] # plan[c][pos[c]].text
    <3>1. pc'[c] = "restoring" /\ pos'[c] = k
      BY <1>0, <2>9, <1>7 DEF VerifyPath, Goto, CallsTyped
    <3>2. (\A i \in 1..(k - 1) : i \in 1..n) /\ (\A i \in (k + 1)..n : i \in 1..n)
      BY <2>2
    <3>3. (\A i \in 1..(k - 1) : (HasNew(c, i))') /\ (\A i \in (k + 1)..n : (HasOld(c, i))')
      BY <2>3, <2>4, <2>5, <3>2
    <3>4. (HasNew(c, pos[c]))'
      BY <2>1, <2>2, <2>6, <3>1 DEF HasNew, Fresh
    <3> QED
      BY <2>1, <2>3, <2>4, <3>1, <3>3, <3>4 DEF Contents
  <2>7. CASE disk[Path(c)] = plan[c][pos[c]].text /\ k = n
    <3>1. pc'[c] = "returning" /\ answer'[c] = "success"
      BY <1>0, <2>2, <1>7, <2>7 DEF VerifyPath, Answer, Goto, CallsTyped
    <3>2. \A i \in 1..n : i \in 1..(k - 1) \/ i = k
      BY <2>2, <2>7
    <3>3. Answered(c)'
      BY <2>1, <2>2, <2>4, <2>5, <2>6, <3>1, <3>2 DEF Answered
    <3> QED
      BY <2>1, <2>3, <2>4, <3>1, <3>3 DEF Contents
  <2>8. CASE disk[Path(c)] = plan[c][pos[c]].text /\ k # n
    <3>1. pc'[c] = "writing" /\ pos'[c] = k + 1
      BY <1>0, <2>1, <2>2, <2>8, <1>7 DEF VerifyPath, Goto, CallsTyped
    <3>2. /\ \A i \in 1..(pos'[c] - 1) : i \in 1..n /\ (i \in 1..(k - 1) \/ i = k)
          /\ pos'[c] \in (k + 1)..n /\ \A i \in (pos'[c] + 1)..n : i \in (k + 1)..n
          /\ \A i \in (k + 1)..n : i \in 1..n
      BY <2>2, <2>8, <3>1
    <3>3. \A i \in (k + 1)..n : (HasOld(c, i))'
      BY <2>3, <2>4, <2>5, <3>2
    <3>4. \A i \in 1..(pos'[c] - 1) : (HasNew(c, i))'
      BY <2>4, <2>5, <2>6, <3>2
    <3>5. (HasOld(c, pos[c]))'
      BY <3>2, <3>3 DEF HasOld, Fresh
    <3> QED
      BY <2>1, <2>3, <2>4, <3>1, <3>2, <3>3, <3>4, <3>5 DEF Contents
  <2> QED
    BY <2>7, <2>8, <2>9
<1>8. CASE RestorePath(c)
  <2>1. pc[c] = "restoring" /\ IsBatch(c) /\ pc[c] \in AfterPlanning /\ UNCHANGED << call, pos, plan, failed >>
    BY <1>0, <1>8 DEF RestorePath, history, places, Steady, AfterPlanning
  <2> DEFINE n == Len(plan[c])
             k == pos[c]
  <2>2. /\ n \in Nat /\ k \in 1..n /\ Path(c) = plan[c][k].file /\ Path(c) \in Files
        /\ (LastPath(c) <=> k = n) /\ ~ call[c].dry
    BY <2>1, AtItem
  <2>3. (IsBatch(c)' <=> IsBatch(c))
    BY <1>0, <2>1 DEF Steady, IsBatch, Over
  <2>4. (\A i \in 1..(k - 1) : HasNew(c, i)) /\ (~ failed[c] => \A i \in (k + 1)..n : HasOld(c, i))
        /\ lost[c] \subseteq late[c]
    BY <1>0, <2>1 DEF Contents
  <2>5. /\ disk'[Path(c)] = plan[c][k].before /\ late'[c] = late[c]
        /\ \A i \in 1..n : i # k =>
             ((HasOld(c, i))' <=> HasOld(c, i)) /\ ((HasNew(c, i))' <=> HasNew(c, i))
    BY <2>1, <1>8, WritesKeepOthers DEF RestorePath
  <2>6. (HasOld(c, pos[c]))'
    BY <2>1, <2>2, <2>5 DEF HasOld
  <2>7. lost'[c] \subseteq late'[c]
    <3>1. lost'[c] = lost[c] \/ (lost'[c] = lost[c] \cup {Path(c)} /\ Path(c) \in late[c])
      BY <1>0, <2>1, <2>2, <1>8 DEF Contents, RestorePath, HasOld, HasNew, Fresh, HistoryTyped
    <3> QED
      BY <2>4, <2>5, <3>1
  <2>8. pc'[c] = "confirming"
    BY <1>0, <1>8 DEF RestorePath, Goto, CallsTyped
  <2>9. /\ \A i \in 1..(k - 1) : i \in 1..n /\ i # k
        /\ \A i \in (k + 1)..n : i \in 1..n /\ i # k
    BY <2>2
  <2>10. (\A i \in 1..(k - 1) : (HasNew(c, i))') /\ (~ failed[c] => \A i \in (k + 1)..n : (HasOld(c, i))')
    BY <2>4, <2>5, <2>9
  <2> QED
    BY <2>1, <2>6, <2>7, <2>8, <2>10 DEF Contents
<1>9. CASE ConfirmRestored(c)
  <2>1. pc[c] = "confirming" /\ IsBatch(c) /\ pc[c] \in AfterPlanning /\ UNCHANGED << disk, call, plan, wrote, late, lost >>
    BY <1>0, <1>9 DEF ConfirmRestored, history, places, Steady, AfterPlanning
  <2> DEFINE n == Len(plan[c])
             k == pos[c]
  <2>2. /\ n \in Nat /\ k \in 1..n /\ Path(c) = plan[c][k].file /\ Path(c) \in Files
        /\ (LastPath(c) <=> k = n) /\ ~ call[c].dry
    BY <2>1, AtItem
  <2>3. (IsBatch(c)' <=> IsBatch(c))
    BY <1>0, <2>1 DEF Steady, IsBatch, Over
  <2>4. (\A i \in 1..(k - 1) : HasNew(c, i)) /\ (~ failed[c] => \A i \in (k + 1)..n : HasOld(c, i))
        /\ lost[c] \subseteq late[c]
    BY <1>0, <2>1 DEF Contents
  <2>5. \A i \in 1..n : ((HasOld(c, i))' <=> HasOld(c, i)) /\ ((HasNew(c, i))' <=> HasNew(c, i))
    BY <2>1 DEF HasOld, HasNew, Fresh
  <2> DEFINE bad == failed[c] \/ disk[Path(c)] # plan[c][pos[c]].before
  <2>6. AfterRestoring(c, bad) /\ failed'[c] = bad
    BY <1>0, <1>9 DEF ConfirmRestored, CallsTyped
  <2>7. ~ bad => ~ failed[c] /\ HasOld(c, k)
    BY <2>1, <2>2 DEF HasOld
  <2> HIDE DEF bad
  <2>8. RestoringNext(c, bad)
    BY <1>0, <2>6, RollbackGoesBack DEF CallsTyped
  <2>9. \A i \in 1..(k - 1) : i \in 1..n /\ HasNew(c, i)
    BY <2>2, <2>4
  <2>10. ASSUME ~ bad, NEW m \in 0..(k - 1),
                \A j \in (m + 1)..(k - 1) : plan[c][j].before = plan[c][j].text
         PROVE  \A i \in (m + 1)..n : (HasOld(c, i))'
    <3>1. ASSUME NEW i \in (m + 1)..n
          PROVE  HasOld(c, i) /\ i \in 1..n
      <4>1. i \in 1..n /\ (i \in (m + 1)..(k - 1) \/ i = k \/ i \in (k + 1)..n)
        BY <2>2
      <4>2. CASE i \in (m + 1)..(k - 1)
        <5>1. i \in 1..(k - 1) /\ plan[c][i].before = plan[c][i].text
          BY <2>2, <2>10, <4>2
        <5> QED
          BY <2>9, <4>1, <5>1 DEF HasOld, HasNew
      <4> QED
        BY <2>4, <2>7, <2>10, <4>1, <4>2
    <3> QED
      BY <2>5, <3>1
  <2>11. CASE /\ \A i \in 1..(k - 1) : plan[c][i].before = plan[c][i].text
              /\ Answer(c, IF bad THEN "rollback_failed" ELSE "rolled_back")
    <3>1. pc'[c] = "returning" /\ answer'[c] = (IF bad THEN "rollback_failed" ELSE "rolled_back")
      BY <1>0, <2>11 DEF Answer, Goto, CallsTyped
    <3>2. ASSUME ~ bad
          PROVE  \A i \in 1..n : (HasOld(c, i))'
      <4>1. 0 \in 0..(k - 1) /\ 0 + 1 = 1
        BY <2>2
      <4> QED
        BY <2>10, <2>11, <3>2, <4>1
    <3>3. Answered(c)'
      BY <2>1, <3>1, <3>2 DEF Answered
    <3> QED
      BY <2>1, <2>3, <2>4, <3>1, <3>3 DEF Contents
  <2>12. ASSUME NEW m \in 1..(k - 1),
                \A j \in (m + 1)..(k - 1) : plan[c][j].before = plan[c][j].text,
                pos' = [pos EXCEPT ![c] = m], Goto(c, "restoring")
         PROVE  Contents(c)'
    <3>1. pc'[c] = "restoring" /\ pos'[c] = m
      BY <1>0, <2>12 DEF Goto, CallsTyped
    <3>2. m \in 0..(k - 1) /\ \A i \in 1..(m - 1) : i \in 1..(k - 1)
      BY <2>2
    <3>3. ~ bad => \A i \in (m + 1)..n : (HasOld(c, i))'
      BY <2>10, <2>12, <3>2
    <3>4. (HasNew(c, m))' /\ \A i \in 1..(m - 1) : (HasNew(c, i))'
      BY <2>5, <2>9, <3>2
    <3>5. (HasNew(c, pos[c]))'
      BY <3>1, <3>4 DEF HasNew, Fresh
    <3> QED
      BY <2>1, <2>3, <2>4, <2>6, <3>1, <3>3, <3>4, <3>5 DEF Contents
  <2> QED
    BY <2>8, <2>11, <2>12 DEF RestoringNext
<1>10. CASE ReturnBatch(c)
  <2>1. pc'[c] \in {"done"} /\ UNCHANGED << call, lost >> /\ (IsBatch(c) => late' = late)
    BY <1>0, <1>10 DEF ReturnBatch, Goto, Answer, Advance, CallsTyped, history, Unlink, NextItem
  <2> QED
    BY <1>0, <2>1 DEF Contents, IsBatch
<1>11. CASE PlanOperation(c)
  <2>1. ~ IsBatch(c) /\ UNCHANGED call
    BY <1>0, <1>11 DEF PlanOperation, Steady, OfChanges
  <2>2. pc'[c] \in {"planning", "applying", "filling", "unlinking", "returning"}
    BY <1>0, <1>11 DEF PlanOperation, Goto, Answer, CallsTyped, Unlink, NextItem
  <2> QED
    BY <2>1, <2>2 DEF Contents, IsBatch
<1>12. CASE ApplyDelete(c)
  <2>1. ~ IsBatch(c) /\ UNCHANGED call
    BY <1>0, <1>12 DEF ApplyDelete, Steady, OfChanges
  <2>2. pc'[c] \in {"planning", "applying", "filling", "unlinking", "returning"}
    BY <1>0, <1>12 DEF ApplyDelete, Goto, Answer, CallsTyped, Unlink, NextItem
  <2> QED
    BY <2>1, <2>2 DEF Contents, IsBatch
<1>13. CASE OpenForWriting(c)
  <2>1. ~ IsBatch(c) /\ UNCHANGED call
    BY <1>0, <1>13 DEF OpenForWriting, Steady, OfChanges
  <2>2. pc'[c] \in {"planning", "applying", "filling", "unlinking", "returning"}
    BY <1>0, <1>13 DEF OpenForWriting, Goto, Answer, CallsTyped, Unlink, NextItem
  <2> QED
    BY <2>1, <2>2 DEF Contents, IsBatch
<1>14. CASE FillFile(c)
  <2>1. ~ IsBatch(c) /\ UNCHANGED call
    BY <1>0, <1>14 DEF FillFile, Steady, OfChanges
  <2>2. pc'[c] \in {"planning", "applying", "filling", "unlinking", "returning"}
    BY <1>0, <1>14 DEF FillFile, Goto, Answer, CallsTyped, Unlink, NextItem
  <2> QED
    BY <2>1, <2>2 DEF Contents, IsBatch
<1>15. CASE UnlinkOld(c)
  <2>1. ~ IsBatch(c) /\ UNCHANGED call
    BY <1>0, <1>15 DEF UnlinkOld, Steady, OfChanges
  <2>2. pc'[c] \in {"planning", "applying", "filling", "unlinking", "returning"}
    BY <1>0, <1>15 DEF UnlinkOld, Goto, Answer, CallsTyped, Unlink, NextItem
  <2> QED
    BY <2>1, <2>2 DEF Contents, IsBatch
<1>16. CASE ReturnChange(c)
  <2>1. pc'[c] \in {"done"} /\ UNCHANGED << call, lost >> /\ (IsBatch(c) => late' = late)
    BY <1>0, <1>16 DEF ReturnChange, Goto, Answer, Advance, CallsTyped, history, Unlink, NextItem
  <2> QED
    BY <1>0, <2>1 DEF Contents, IsBatch
<1>17. CASE WriteFails(c)
  <2>1. pc[c] = "writing" /\ IsBatch(c) /\ pc[c] \in AfterPlanning /\ UNCHANGED << call, pos, plan, failed >>
    BY <1>0, <1>17 DEF WriteFails, history, places, Steady, AfterPlanning
  <2> DEFINE n == Len(plan[c])
             k == pos[c]
  <2>2. /\ n \in Nat /\ k \in 1..n /\ Path(c) = plan[c][k].file /\ Path(c) \in Files
        /\ (LastPath(c) <=> k = n) /\ ~ call[c].dry
    BY <2>1, AtItem
  <2>3. (IsBatch(c)' <=> IsBatch(c)) /\ ~ failed[c]
    BY <1>0, <2>1 DEF Steady, IsBatch, Over
  <2>4. (\A i \in 1..(k - 1) : HasNew(c, i)) /\ (~ failed[c] => \A i \in (k + 1)..n : HasOld(c, i))
        /\ lost[c] \subseteq late[c]
    BY <1>0, <2>1 DEF Contents
  <2>8. pc'[c] = "restoring"
    BY <1>0, <1>17 DEF WriteFails, Goto, CallsTyped
  <2>9. /\ \A i \in 1..(k - 1) : i \in 1..n /\ i # k
        /\ \A i \in (k + 1)..n : i \in 1..n /\ i # k
    BY <2>2
  <2>11. CASE /\ ReplaceFile(c, Path(c), plan[c][pos[c]].text)
              /\ lost' = [lost EXCEPT ![c] = IF disk[Path(c)] = plan[c][pos[c]].before THEN @ ELSE @ \cup {Path(c)}]
    <3>5. /\ disk'[Path(c)] = plan[c][k].text /\ late'[c] = late[c]
          /\ \A i \in 1..n : i # k =>
               ((HasOld(c, i))' <=> HasOld(c, i)) /\ ((HasNew(c, i))' <=> HasNew(c, i))
      BY <2>1, <2>11, WritesKeepOthers
    <3>6. (HasNew(c, pos[c]))'
      BY <2>1, <2>2, <3>5 DEF HasNew
    <3>7. lost'[c] \subseteq late'[c]
      <4>1. lost'[c] = lost[c] \/ (lost'[c] = lost[c] \cup {Path(c)} /\ Path(c) \in late[c])
        BY <1>0, <2>1, <2>2, <2>11 DEF Contents, HasOld, Fresh, HistoryTyped
      <4> QED
        BY <2>4, <3>5, <4>1
    <3>10. (\A i \in 1..(k - 1) : (HasNew(c, i))') /\ (\A i \in (k + 1)..n : (HasOld(c, i))')
      BY <2>3, <2>4, <3>5, <2>9
    <3> QED
      BY <2>1, <2>8, <3>6, <3>7, <3>10 DEF Contents
  <2>12. CASE UNCHANGED << disk, orphaned, wrote, late, lost >>
    <3>5. \A i \in 1..n : ((HasOld(c, i))' <=> HasOld(c, i)) /\ ((HasNew(c, i))' <=> HasNew(c, i))
      BY <2>1, <2>12 DEF HasOld, HasNew, Fresh
    <3>6. (HasOld(c, pos[c]))'
      BY <1>0, <2>1, <2>12 DEF Contents, HasOld, Fresh
    <3>10. (\A i \in 1..(k - 1) : (HasNew(c, i))') /\ (\A i \in (k + 1)..n : (HasOld(c, i))')
      BY <2>3, <2>4, <3>5, <2>9
    <3> QED
      BY <2>1, <2>4, <2>8, <2>12, <3>6, <3>10 DEF Contents
  <2> QED
    BY <2>11, <2>12, <1>17 DEF WriteFails
<1>18. CASE RestoreFails(c)
  <2>1. pc[c] = "restoring" /\ IsBatch(c) /\ pc[c] \in AfterPlanning /\ UNCHANGED << disk, call, plan, wrote, late, lost >>
    BY <1>0, <1>18 DEF RestoreFails, history, places, Steady, AfterPlanning
  <2> DEFINE n == Len(plan[c])
             k == pos[c]
  <2>2. /\ n \in Nat /\ k \in 1..n /\ Path(c) = plan[c][k].file /\ Path(c) \in Files
        /\ (LastPath(c) <=> k = n) /\ ~ call[c].dry
    BY <2>1, AtItem
  <2>3. (IsBatch(c)' <=> IsBatch(c))
    BY <1>0, <2>1 DEF Steady, IsBatch, Over
  <2>4. (\A i \in 1..(k - 1) : HasNew(c, i)) /\ (~ failed[c] => \A i \in (k + 1)..n : HasOld(c, i))
        /\ lost[c] \subseteq late[c]
    BY <1>0, <2>1 DEF Contents
  <2>5. \A i \in 1..n : ((HasOld(c, i))' <=> HasOld(c, i)) /\ ((HasNew(c, i))' <=> HasNew(c, i))
    BY <2>1 DEF HasOld, HasNew, Fresh
  <2> DEFINE bad == TRUE
  <2>6. AfterRestoring(c, bad) /\ failed'[c] = bad
    BY <1>0, <1>18 DEF RestoreFails, CallsTyped
  <2>7. bad
    OBVIOUS
  <2> HIDE DEF bad
  <2>8. RestoringNext(c, bad)
    BY <1>0, <2>6, RollbackGoesBack DEF CallsTyped
  <2>9. \A i \in 1..(k - 1) : i \in 1..n /\ HasNew(c, i)
    BY <2>2, <2>4
  <2>10. ASSUME ~ bad, NEW m \in 0..(k - 1),
                \A j \in (m + 1)..(k - 1) : plan[c][j].before = plan[c][j].text
         PROVE  \A i \in (m + 1)..n : (HasOld(c, i))'
    BY <2>7, <2>10
  <2>11. CASE /\ \A i \in 1..(k - 1) : plan[c][i].before = plan[c][i].text
              /\ Answer(c, IF bad THEN "rollback_failed" ELSE "rolled_back")
    <3>1. pc'[c] = "returning" /\ answer'[c] = (IF bad THEN "rollback_failed" ELSE "rolled_back")
      BY <1>0, <2>11 DEF Answer, Goto, CallsTyped
    <3>2. ASSUME ~ bad
          PROVE  \A i \in 1..n : (HasOld(c, i))'
      <4>1. 0 \in 0..(k - 1) /\ 0 + 1 = 1
        BY <2>2
      <4> QED
        BY <2>10, <2>11, <3>2, <4>1
    <3>3. Answered(c)'
      BY <2>1, <3>1, <3>2 DEF Answered
    <3> QED
      BY <2>1, <2>3, <2>4, <3>1, <3>3 DEF Contents
  <2>12. ASSUME NEW m \in 1..(k - 1),
                \A j \in (m + 1)..(k - 1) : plan[c][j].before = plan[c][j].text,
                pos' = [pos EXCEPT ![c] = m], Goto(c, "restoring")
         PROVE  Contents(c)'
    <3>1. pc'[c] = "restoring" /\ pos'[c] = m
      BY <1>0, <2>12 DEF Goto, CallsTyped
    <3>2. m \in 0..(k - 1) /\ \A i \in 1..(m - 1) : i \in 1..(k - 1)
      BY <2>2
    <3>3. ~ bad => \A i \in (m + 1)..n : (HasOld(c, i))'
      BY <2>10, <2>12, <3>2
    <3>4. (HasNew(c, m))' /\ \A i \in 1..(m - 1) : (HasNew(c, i))'
      BY <2>5, <2>9, <3>2
    <3>5. (HasNew(c, pos[c]))'
      BY <3>1, <3>4 DEF HasNew, Fresh
    <3> QED
      BY <2>1, <2>3, <2>4, <2>6, <3>1, <3>3, <3>4, <3>5 DEF Contents
  <2> QED
    BY <2>8, <2>11, <2>12 DEF RestoringNext
<1>19. CASE ApplyFails(c)
  <2>1. ~ IsBatch(c) /\ UNCHANGED call
    BY <1>0, <1>19 DEF ApplyFails, Steady, OfChanges
  <2>2. pc'[c] \in {"planning", "applying", "filling", "unlinking", "returning"}
    BY <1>0, <1>19 DEF ApplyFails, Goto, Answer, CallsTyped, Unlink, NextItem
  <2> QED
    BY <2>1, <2>2 DEF Contents, IsBatch
<1>20. CASE Dies(c)
  <2>1. pc'[c] \in {"dead"} /\ UNCHANGED << call, lost >> /\ (IsBatch(c) => late' = late)
    BY <1>0, <1>20 DEF Dies, Goto, Answer, Advance, CallsTyped, history, Unlink, NextItem
  <2> QED
    BY <1>0, <2>1 DEF Contents, IsBatch
<1> QED
  BY <1>1, <1>2, <1>3, <1>4, <1>5, <1>6, <1>7, <1>8, <1>9, <1>10, <1>11, <1>12, <1>13, <1>14, <1>15,
     <1>16, <1>17, <1>18, <1>19, <1>20 DEF Step, BatchStep, ChangeStep

-----------------------------------------------------------------------------
(* The theorems.                                                           *)

LEMMA StartIsSound == Init => EInv
<1> SUFFICES ASSUME Init
             PROVE  EInv
  OBVIOUS
<1> USE DEF Init
<1>1. Shapes
  <2>1. PlacesTyped
    <3>1. disk = [f \in Files |-> disk[f]]
      BY DiskIsOfFiles
    <3> QED
      BY <3>1 DEF PlacesTyped
  <2>2. CallsTyped
    BY DEF CallsTyped, Places
  <2>3. HistoryTyped
    BY FaultsAreCounted DEF HistoryTyped
  <2> QED
    BY <2>1, <2>2, <2>3 DEF Shapes
<1>2. LocksAreOfBatches
  BY DEF LocksAreOfBatches
<1>3. ASSUME NEW c \in Callers
      PROVE  Steady(c) /\ PlanFits(c) /\ Contents(c)
  <2>1. pc[c] = "idle" /\ call[c] = None /\ plan[c] = << >> /\ pos[c] = 1 /\ answer[c] = None
    BY <1>3
  <2>2. wrote[c] = {} /\ lost[c] = {} /\ ~ failed[c] /\ ~ IsBatch(c)
    BY <1>3 DEF IsBatch
  <2>3. << >> \in Seq(Range(<< >>)) /\ Len(<< >>) = 0
    OBVIOUS
  <2>4. Steady(c)
    BY <2>1, <2>2 DEF Steady, AfterPlanning, OfChanges, Over
  <2>5. PlanFits(c)
    BY <2>1, <2>2, <2>3 DEF PlanFits, OfChanges
  <2>6. Contents(c)
    BY <2>1, <2>2 DEF Contents
  <2> QED
    BY <2>4, <2>5, <2>6
<1> QED
  BY <1>1, <1>2, <1>3 DEF EInv

LEMMA StepsAreSound == EInv /\ [Next]_vars => EInv'
<1> SUFFICES ASSUME EInv, [Next]_vars
             PROVE  EInv'
  OBVIOUS
<1>1. CASE Next
  <2>1. PICK c \in Callers : Step(c)
    BY <1>1 DEF Next, Step
  <2>2. ASSUME NEW d \in Callers
        PROVE  Steady(d)' /\ PlanFits(d)' /\ Contents(d)'
    <3>1. CASE d = c
      BY <2>1, <3>1, OwnCallSteady, OwnPlanFits, OwnContents
    <3>2. CASE d # c
      BY <2>1, <3>2, OthersStay
    <3> QED
      BY <3>1, <3>2
  <2>3. Shapes' /\ LocksAreOfBatches'
    BY <2>1, StepsAreTyped, LocksStayWithBatches
  <2> QED
    BY <2>2, <2>3 DEF EInv
<1>2. CASE UNCHANGED vars
  <2> USE DEF vars
  <2>1. Shapes'
    BY <1>2 DEF EInv, Shapes, PlacesTyped, CallsTyped, HistoryTyped
  <2>2. LocksAreOfBatches'
    BY <1>2 DEF EInv, LocksAreOfBatches, IsBatch
  <2>3. ASSUME NEW c \in Callers
        PROVE  Steady(c)' /\ PlanFits(c)' /\ Contents(c)'
    <3>1. Steady(c)' /\ PlanFits(c)'
      BY <1>2 DEF EInv, Steady, PlanFits, IsBatch, Count
    <3>2. Contents(c)'
      BY <1>2 DEF EInv, Contents, IsBatch, HasOld, HasNew, Fresh, Answered
    <3> QED
      BY <3>1, <3>2
  <2> QED
    BY <2>1, <2>2, <2>3 DEF EInv
<1> QED
  BY <1>1, <1>2

LEMMA EditsSound == Spec => []EInv
BY StartIsSound, StepsAreSound, PTL DEF Spec

(* Positions stay within plans and only running batches hold locks: the    *)
(* loops of replace_files, its rollback and those of apply_patch index     *)
(* nothing beyond what they have planned.                                  *)
THEOREM EditsTyped == Spec => []TypeOK
<1>1. EInv => TypeOK
  <2> SUFFICES ASSUME EInv
               PROVE  TypeOK
    OBVIOUS
  <2>1. ASSUME NEW c \in Callers, pc[c] \in AfterPlanning \cup OfChanges
        PROVE  pos[c] \in DOMAIN plan[c]
    <3>1. plan[c] \in Seq(Range(plan[c])) /\ pos[c] \in Nat \ {0}
      BY DEF EInv, PlanFits, Shapes, CallsTyped
    <3>2. Len(plan[c]) \in Nat /\ DOMAIN plan[c] = 1..Len(plan[c])
      BY <3>1
    <3>3. pos[c] <= Len(plan[c])
      <4>1. CASE pc[c] \in AfterPlanning
        BY <3>2, <4>1, AtItem
      <4>2. CASE pc[c] \in OfChanges
        BY <4>2 DEF EInv, PlanFits
      <4> QED
        BY <2>1, <4>1, <4>2
    <3> QED
      BY <3>1, <3>2, <3>3
  <2>2. /\ \A f \in Files : lock[f] \in Callers \cup {None} /\ orphaned[f] \subseteq Callers
        /\ \A c \in Callers : pc[c] \in Places /\ pos[c] \in Nat \ {0} /\ failed[c] \in BOOLEAN
        /\ \A c \in Callers : wrote[c] \cup late[c] \cup lost[c] \subseteq Files
        /\ faults \in 0..MaxFaults /\ calm \in BOOLEAN
    BY DEF EInv, Shapes, PlacesTyped, CallsTyped, HistoryTyped
  <2> QED
    BY <2>1, <2>2 DEF EInv, TypeOK, LocksAreOfBatches, AfterPlanning, OfChanges
<1> QED
  BY <1>1, EditsSound, PTL

(* replace_files is all or nothing, and a refused call has changed nothing:  *)
(* whatever others write, however many writes fail and wherever processes    *)
(* die, the answer says what the files hold that nobody else has changed.    *)
THEOREM AnswersAreTrue == Spec => []AnswersTrue
<1>1. EInv => AnswersTrue
  <2> SUFFICES ASSUME EInv
               PROVE  AnswersTrue
    OBVIOUS
  <2>1. AllOrNothing
    <3> SUFFICES ASSUME NEW c \in Callers, pc[c] = "returning", IsBatch(c),
                        NEW i \in DOMAIN plan[c], plan[c][i].file \notin late[c]
                 PROVE  /\ answer[c] = "success" => disk[plan[c][i].file] =
                              IF call[c].dry THEN plan[c][i].before ELSE plan[c][i].text
                        /\ answer[c] = "rolled_back" => disk[plan[c][i].file] = plan[c][i].before
                        /\ answer[c] \notin {"success", "rolled_back", "rollback_failed"}
                             => plan[c][i].file \notin wrote[c]
      BY DEF AllOrNothing
    <3>1. Answered(c) /\ i \in 1..Len(plan[c])
      BY BatchFacts DEF EInv, Contents
    <3> QED
      BY <3>1 DEF Answered, Fresh, HasOld, HasNew
  <2>2. RefusedChangesNothing
    BY DEF EInv, Steady, RefusedChangesNothing
  <2> QED
    BY <2>1, <2>2 DEF AnswersTrue
<1> QED
  BY <1>1, EditsSound, PTL

(* The recheck of replace_files: a batch overwrites, unseen, only what      *)
(* others wrote after it looked last.                                       *)
THEOREM OverwritesAreLate == Spec => []OverwritesOnlyLateChanges
<1>1. EInv => OverwritesOnlyLateChanges
  <2> SUFFICES ASSUME EInv, NEW c \in Callers
               PROVE  lost[c] \subseteq late[c]
    BY DEF OverwritesOnlyLateChanges
  <2>1. CASE IsBatch(c)
    BY <2>1 DEF EInv, Contents
  <2>2. CASE ~ IsBatch(c)
    BY <2>2 DEF EInv, PlanFits
  <2> QED
    BY <2>1, <2>2
<1> QED
  BY <1>1, EditsSound, PTL

-----------------------------------------------------------------------------
(* The rules of a file one after the other.                                *)

(* The largest of some of the first numbers. *)
LEMMA LargestOf ==
    ASSUME NEW n \in Nat, NEW T \in SUBSET (1..n), T # {}
    PROVE  Max(T) \in T /\ \A k \in T : k <= Max(T)
<1>1. PICK m \in T : \A k \in T : k <= m
  BY LastPosition
<1>2. \A k \in T : m >= k
  BY <1>1
<1> QED
  BY <1>2 DEF Max

(* Applying rules is a chain of states, one for each rule. *)
LEMMA RulesOneByOne ==
    ASSUME NEW n \in Nat, NEW rules, DOMAIN rules = 1..n, NEW text, NEW used, NEW budget
    PROVE  \E s : /\ s[0] = [ok |-> TRUE, used |-> used, text |-> text]
                  /\ \A k \in 1..n : s[k] = ApplyRule(s[k - 1], rules[k], budget)
                  /\ ApplyRules(text, used, rules, budget) = s[n]
<1> DEFINE start == [ok |-> TRUE, used |-> used, text |-> text]
           Folds(g, m) == g = [s \in SUBSET (1..m) |->
               IF s = {} THEN start ELSE ApplyRule(g[s \ {Max(s)}], rules[Max(s)], budget)]
           Missing == {m \in Nat : m <= n /\ ~ \E g : Folds(g, m)}
<1>1. ASSUME NEW m \in Nat, NEW s \in SUBSET (1..(m + 1)), s # {}
      PROVE  s \ {Max(s)} \in SUBSET (1..m)
  <2>1. Max(s) \in s /\ \A k \in s : k <= Max(s)
    <3>1. m + 1 \in Nat
      OBVIOUS
    <3> QED
      BY <1>1, <3>1, LargestOf
  <2> SUFFICES ASSUME NEW k \in s \ {Max(s)}
               PROVE  k \in 1..m
    OBVIOUS
  <2>2. k \in 1..(m + 1) /\ Max(s) \in 1..(m + 1) /\ k <= Max(s) /\ k # Max(s)
    BY <2>1
  <2> QED
    BY ONLY <2>2, m \in Nat
<1>2. \E g : Folds(g, 0)
  <2> DEFINE g == [s \in SUBSET (1..0) |-> start]
  <2>1. \A s \in SUBSET (1..0) : s = {}
    OBVIOUS
  <2>2. Folds(g, 0)
    BY <2>1
  <2> QED
    BY <2>2
<1>3. ASSUME NEW m \in Nat, \E g : Folds(g, m)
      PROVE  \E h : Folds(h, m + 1)
  <2>1. PICK g : Folds(g, m)
    BY <1>3
  <2> DEFINE h == [s \in SUBSET (1..(m + 1)) |->
               IF s = {} THEN start ELSE ApplyRule(g[s \ {Max(s)}], rules[Max(s)], budget)]
  <2>2. \A s \in SUBSET (1..m) : s \in SUBSET (1..(m + 1))
    OBVIOUS
  <2>3. \A s \in SUBSET (1..m) : h[s] = g[s]
    BY <2>1, <2>2
  <2>4. \A s \in SUBSET (1..(m + 1)) : s # {} => h[s \ {Max(s)}] = g[s \ {Max(s)}]
    BY <1>1, <2>3
  <2>5. Folds(h, m + 1)
    BY <2>4
  <2> QED
    BY <2>5
<1>4. Missing = {}
  <2> SUFFICES ASSUME Missing # {}
               PROVE  FALSE
    OBVIOUS
  <2>1. PICK m \in Missing : \A k \in Missing : m <= k
    BY LeastNatural
  <2>2. m \in Nat /\ m <= n /\ ~ \E g : Folds(g, m)
    BY <2>1
  <2> HIDE DEF Folds
  <2>3. m # 0
    BY <1>2, <2>2
  <2>4. m - 1 \in Nat /\ m - 1 \notin Missing /\ m - 1 <= n /\ (m - 1) + 1 = m
    BY <2>1, <2>2, <2>3
  <2>5. \E g : Folds(g, m - 1)
    BY <2>4
  <2> QED
    BY <1>3, <2>2, <2>4, <2>5
<1>5. \E g : Folds(g, n)
  <2>1. n \notin Missing
    BY <1>4
  <2> HIDE DEF Folds
  <2> QED
    BY <2>1
<1> DEFINE iter == CHOOSE g : Folds(g, n)
<1>6. Folds(iter, n)
  BY <1>5
<1>7. ApplyRules(text, used, rules, budget) = iter[1..n]
  BY DEF ApplyRules, FoldLeft, MapThenFoldSet
<1> DEFINE t == [k \in 0..n |-> iter[1..k]]
<1>8. t[0] = start /\ t[n] = iter[1..n]
  <2> HIDE DEF iter
  <2>1. 0 \in 0..n /\ n \in 0..n /\ 1..0 = {} /\ 1..0 \in SUBSET (1..n)
    OBVIOUS
  <2>2. iter[1..0] = start
    BY <1>6, <2>1
  <2> QED
    BY <2>1, <2>2
<1>9. ASSUME NEW k \in 1..n
      PROVE  t[k] = ApplyRule(t[k - 1], rules[k], budget)
  <2>1. Max(1..k) = k
    <3>0. k \in Nat /\ 1..k # {} /\ k \in 1..k
      OBVIOUS
    <3>1. Max(1..k) \in 1..k /\ k <= Max(1..k)
      BY <3>0, LargestOf
    <3> QED
      BY <3>1
  <2>2. 1..k \in SUBSET (1..n) /\ k - 1 \in 0..n /\ k \in 0..n
    OBVIOUS
  <2>4. 1..k # {} /\ (1..k) \ {k} = 1..(k - 1)
    OBVIOUS
  <2> HIDE DEF iter
  <2>3. iter[1..k] = ApplyRule(iter[1..(k - 1)], rules[k], budget)
    BY <1>6, <2>1, <2>2, <2>4
  <2> QED
    BY <2>2, <2>3
<1> QED
  BY <1>7, <1>8, <1>9

(* A state of the fold over the rules of a file. *)
RulesState(s, u) ==
    /\ s = [ok |-> s.ok, used |-> s.used, text |-> s.text]
    /\ s.ok \in BOOLEAN
    /\ s.ok => s.used \in Nat /\ s.used >= u /\ \E n \in Nat : DOMAIN s.text = 1..n

(* The same rules after u replacements and after none. *)
SameSoFar(s, z, u) ==
    /\ RulesState(s, u) /\ RulesState(z, 0)
    /\ s.ok => z.ok /\ z.text = s.text /\ s.used = z.used + u

(* How often a rule applies at most is a number. *)
RulesCount(rules) == \A i \in DOMAIN rules : rules[i].count \in Nat

(* A rule that keeps to the budget after some replacements keeps to it      *)
(* after fewer, and does the same.                                          *)
LEMMA RuleAfterFewer ==
    ASSUME NEW s, NEW z, NEW u \in Nat, NEW rule, rule.count \in Nat, NEW budget \in Nat,
           SameSoFar(s, z, u)
    PROVE  SameSoFar(ApplyRule(s, rule, budget), ApplyRule(z, rule, budget), u)
<1>0. RulesState(s, u) /\ RulesState(z, 0) /\ (s.ok => z.ok /\ z.text = s.text /\ s.used = z.used + u)
  BY DEF SameSoFar
<1> DEFINE found == Cardinality(Occurrences(s.text, rule.pattern))
           Num(x) == LET n == Cardinality(Occurrences(x.text, rule.pattern))
                     IN  IF rule.count > 0 /\ rule.count < n THEN rule.count ELSE n
           New(x) == LET Counted(i) == Cardinality({j \in Occurrences(x.text, rule.pattern) : j <= i})
                     IN  [i \in DOMAIN x.text |-> IF x.text[i] = rule.pattern /\ Counted(i) <= Num(x)
                                                  THEN rule.replacement ELSE x.text[i]]
<1>1. ASSUME NEW x
      PROVE  ApplyRule(x, rule, budget) =
               IF ~ x.ok \/ Num(x) > budget - x.used THEN [x EXCEPT !.ok = FALSE]
               ELSE [ok |-> TRUE, used |-> x.used + Num(x), text |-> New(x)]
  BY DEF ApplyRule
<1>2. ASSUME NEW x, \E n \in Nat : DOMAIN x.text = 1..n
      PROVE  Num(x) \in Nat
  <2>1. PICK n \in Nat : DOMAIN x.text = 1..n
    BY <1>2
  <2>2. IsFiniteSet(1..n)
    BY FS_Interval
  <2>3. Occurrences(x.text, rule.pattern) \subseteq 1..n
    BY <2>1 DEF Occurrences
  <2>4. Cardinality(Occurrences(x.text, rule.pattern)) \in Nat
    BY <2>2, <2>3, FS_Subset, FS_CardinalityType
  <2> QED
    BY <2>4
<1>3. \A x : DOMAIN New(x) = DOMAIN x.text
  OBVIOUS
<1>4. ASSUME z.text = s.text
      PROVE  Num(z) = Num(s) /\ New(z) = New(s)
  BY <1>4
<1> HIDE DEF Num, New
<1>5. ASSUME NEW x, NEW w \in Nat, RulesState(x, w)
      PROVE  RulesState(ApplyRule(x, rule, budget), w)
  <2>1. CASE ~ x.ok \/ Num(x) > budget - x.used
    <3>1. ApplyRule(x, rule, budget) = [ok |-> FALSE, used |-> x.used, text |-> x.text]
      BY <1>1, <1>5, <2>1 DEF RulesState
    <3> QED
      BY <3>1 DEF RulesState
  <2>2. CASE x.ok /\ ~ (Num(x) > budget - x.used)
    <3>1. ApplyRule(x, rule, budget) = [ok |-> TRUE, used |-> x.used + Num(x), text |-> New(x)]
      BY <1>1, <2>2
    <3>2. \E n \in Nat : DOMAIN x.text = 1..n
      BY <1>5, <2>2 DEF RulesState
    <3>3. x.used \in Nat /\ x.used >= w
      BY <1>5, <2>2 DEF RulesState
    <3>4. x.used + Num(x) \in Nat /\ x.used + Num(x) >= w
      <4>1. Num(x) \in Nat
        BY <1>2, <3>2
      <4> QED
        BY <4>1, <3>3
    <3> QED
      BY <3>1, <3>2, <3>4, <1>3 DEF RulesState
  <2> QED
    BY <1>5, <2>1, <2>2 DEF RulesState
<1>6. ASSUME ApplyRule(s, rule, budget).ok
      PROVE  /\ ApplyRule(z, rule, budget).ok
             /\ ApplyRule(z, rule, budget).text = ApplyRule(s, rule, budget).text
             /\ ApplyRule(s, rule, budget).used = ApplyRule(z, rule, budget).used + u
  <2>1. s.ok /\ ~ (Num(s) > budget - s.used)
    <3>1. CASE ~ s.ok \/ Num(s) > budget - s.used
      <4>1. ApplyRule(s, rule, budget) = [ok |-> FALSE, used |-> s.used, text |-> s.text]
        BY <1>0, <1>1, <3>1 DEF RulesState
      <4> QED
        BY <1>6, <4>1
    <3> QED
      BY <3>1
  <2>2. ApplyRule(s, rule, budget) = [ok |-> TRUE, used |-> s.used + Num(s), text |-> New(s)]
    BY <1>1, <2>1
  <2>3. z.ok /\ s.used = z.used + u /\ Num(z) = Num(s) /\ New(z) = New(s)
    BY <1>0, <1>4, <2>1
  <2>4. z.used \in Nat /\ Num(s) \in Nat
    BY <1>0, <1>2, <2>1, <2>3 DEF RulesState
  <2>6. s.used \in Nat
    BY <1>0, <2>1 DEF RulesState
  <2>5. ~ (Num(z) > budget - z.used)
    BY ONLY <2>1, <2>3, <2>4, <2>6, u \in Nat, budget \in Nat
  <2>7. ApplyRule(z, rule, budget) = [ok |-> TRUE, used |-> z.used + Num(z), text |-> New(z)]
    BY <1>1, <2>3, <2>5
  <2>8. s.used + Num(s) = (z.used + Num(z)) + u
    BY ONLY <2>3, <2>4, <2>6, u \in Nat
  <2> QED
    BY <2>2, <2>3, <2>7, <2>8
<1> QED
  BY <1>0, <1>5, <1>6 DEF SameSoFar

(* What the rules make of a text does not depend on the replacements made   *)
(* before, as long as the budget suffices; a text keeps its lines.          *)
LEMMA RulesDoTheSame ==
    ASSUME NEW rules, rules \in Seq(Range(rules)), RulesCount(rules), NEW text, NEW used \in Nat, NEW budget \in Nat,
           \E n \in Nat : DOMAIN text = 1..n, ApplyRules(text, used, rules, budget).ok
    PROVE  /\ ApplyRules(text, 0, rules, budget).text = ApplyRules(text, used, rules, budget).text
           /\ ApplyRules(text, used, rules, budget).used \in Nat
           /\ \E n \in Nat : DOMAIN ApplyRules(text, used, rules, budget).text = 1..n
<1> DEFINE n == Len(rules)
<1>1. n \in Nat /\ DOMAIN rules = 1..n
  OBVIOUS
<1> HIDE DEF n
<1>2. PICK s : /\ s[0] = [ok |-> TRUE, used |-> used, text |-> text]
               /\ \A k \in 1..n : s[k] = ApplyRule(s[k - 1], rules[k], budget)
               /\ ApplyRules(text, used, rules, budget) = s[n]
  BY <1>1, RulesOneByOne
<1>3. PICK z : /\ z[0] = [ok |-> TRUE, used |-> 0, text |-> text]
               /\ \A k \in 1..n : z[k] = ApplyRule(z[k - 1], rules[k], budget)
               /\ ApplyRules(text, 0, rules, budget) = z[n]
  BY <1>1, RulesOneByOne
<1> DEFINE Same(k) == SameSoFar(s[k], z[k], used)
           Missing == {k \in Nat : k <= n /\ ~ Same(k)}
<1>4. Same(0)
  BY <1>2, <1>3 DEF RulesState, SameSoFar
<1>5. ASSUME NEW k \in 1..n, Same(k - 1)
      PROVE  Same(k)
  <2>1. rules[k].count \in Nat
    BY <1>1 DEF RulesCount
  <2>2. s[k] = ApplyRule(s[k - 1], rules[k], budget) /\ z[k] = ApplyRule(z[k - 1], rules[k], budget)
    BY <1>2, <1>3
  <2> QED
    BY <1>5, <2>1, <2>2, RuleAfterFewer
<1> HIDE DEF Same
<1>6. Missing = {}
  <2> SUFFICES ASSUME Missing # {}
               PROVE  FALSE
    OBVIOUS
  <2>1. PICK k \in Missing : \A j \in Missing : k <= j
    BY LeastNatural
  <2>2. k \in Nat /\ k <= n /\ ~ Same(k)
    BY <2>1
  <2>3. k # 0
    BY <1>4, <2>2
  <2>4. k \in 1..n /\ k - 1 \in Nat /\ k - 1 \notin Missing /\ k - 1 <= n
    BY <1>1, <2>1, <2>2, <2>3
  <2>5. Same(k - 1)
    BY <2>4
  <2> QED
    BY <1>5, <2>2, <2>4, <2>5
<1>7. Same(n)
  <2>1. n \notin Missing
    BY <1>6
  <2> QED
    BY <1>1, <2>1
<1> QED
  BY <1>2, <1>3, <1>7 DEF Same, RulesState, SameSoFar

-----------------------------------------------------------------------------
(* The order of the batches.                                               *)

(* A batch is at work. *)
Batching(c) == IsBatch(c) /\ pc[c] \notin {"idle", "done", "dead"}

(* A batch locks its files before it looks at them, and keeps them locked. *)
Locked(c) ==
    /\ \A f \in Files : lock[f] = c => f \in BatchFiles(call[c].ops)
    /\ pc[c] = "locking" => \A i \in 1..(pos[c] - 1) : lock[OrderedPaths(call[c].ops)[i]] = c
    /\ pc[c] \in AfterPlanning \cup {"planning"} => \A i \in 1..Count(c) : lock[OrderedPaths(call[c].ops)[i]] = c
    /\ pc[c] = "returning" =>
         /\ \A i \in 1..Len(plan[c]) : lock[plan[c][i].file] = c
         /\ answer[c] = "success" => Len(plan[c]) = Count(c)

(* What the batch makes of the text of a file.                             *)
Made(request, f, text) == ApplyRules(text, 0, RulesFor(request.ops, f), request.max).text
(* A text has lines. *)
IsText(t) == \E n \in Nat : DOMAIN t = 1..n

(* It plans on what the batches before it have left.                       *)
PlannedInTurn(c) ==
  \A i \in 1..Len(plan[c]) : LET p == plan[c][i] IN
    /\ p.before = ledger[p.file] /\ p.text = Made(call[c], p.file, p.before)
    /\ p.used \in Nat /\ IsText(p.text)

(* How far it has come with its files, which nobody else changes.          *)
Halfway(c) ==
  /\ \A f \in Files : lock[f] = c /\ f \notin wrote[c] => disk[f] = ledger[f]
  /\ ~ failed[c]
  /\ pc[c] \in AfterPlanning \ {"checking"} =>
       /\ \A i \in 1..(pos[c] - 1) : disk[plan[c][i].file] = plan[c][i].text
       /\ \A i \in (pos[c] + 1)..Len(plan[c]) : disk[plan[c][i].file] = plan[c][i].before
  /\ pc[c] \in {"writing", "confirming"} => disk[Path(c)] = plan[c][pos[c]].before
  /\ pc[c] = "verifying" => disk[Path(c)] = plan[c][pos[c]].text
  /\ pc[c] = "restoring" => disk[Path(c)] \in {plan[c][pos[c]].before, plan[c][pos[c]].text}
  /\ pc[c] = "returning" =>
       IF answer[c] = "success" /\ ~ call[c].dry
       THEN \A i \in 1..Len(plan[c]) : disk[plan[c][i].file] = plan[c][i].text
       ELSE \A f \in Files : lock[f] = c => disk[f] = ledger[f]

(* A file nobody holds is what the batches before have left. *)
Unlocked == \A f \in Files : lock[f] = None => disk[f] = ledger[f]
(* Both, as long as the batch is at work. *)
InTurn(c) == Batching(c) => PlannedInTurn(c) /\ Halfway(c)

(* The order of the batches; what they read and write is in order as long   *)
(* as nobody but complete batches has changed a file.                      *)
BInv ==
  /\ \A c \in Callers : Batching(c) => Locked(c)
  /\ calm => /\ \A c \in Callers : InTurn(c) /\ pc[c] \notin {"filling", "unlinking"}
             /\ Unlocked /\ \A f \in Files : IsText(ledger[f])

(* With the invariant of the calls. *)
SInv == EInv /\ BInv

(* The paths of a batch are its files. *)
LEMMA PathsAreTheFiles ==
    ASSUME NEW ops, BatchFiles(ops) \subseteq Files
    PROVE  /\ \A i \in 1..Len(OrderedPaths(ops)) : OrderedPaths(ops)[i] \in BatchFiles(ops)
           /\ \A f \in BatchFiles(ops) : \E i \in 1..Len(OrderedPaths(ops)) : OrderedPaths(ops)[i] = f
<1> DEFINE S == BatchFiles(ops)
           n == Cardinality(S)
           s == OrderedPaths(ops)
<1>1. /\ n \in Nat /\ s \in [1..n -> S] /\ Len(s) = n
      /\ \A i, j \in 1..n : i # j => s[i] # s[j]
  BY PathsAreOrdered
<1>2. IsFiniteSet(S)
  BY FilesAreNumbers, FS_Subset
<1>3. IsFiniteSet(1..n) /\ Cardinality(1..n) = n
  BY <1>1, FS_Interval
<1> HIDE DEF S, s
<1>4. s \in Injection(1..n, S)
  BY <1>1 DEF Injection, IsInjective
<1> DEFINE m == n
<1>5. Cardinality(1..m) = Cardinality(S)
  BY <1>3
<1> HIDE DEF n
<1>6. s \in Surjection(1..n, S)
  BY <1>2, <1>4, <1>5, FS_Injection DEF m
<1>7. \A f \in S : \E i \in 1..n : s[i] = f
  BY <1>6 DEF Surjection
<1> QED
  BY <1>1, <1>7 DEF S, s

(* Where a step takes locks, gives them back, and what it does to calm. *)
LEMMA LocksMove ==
    ASSUME EInv, NEW c \in Callers, Step(c)
    PROVE  \/ lock' = lock
           \/ LockPath(c) /\ lock[Path(c)] = None /\ lock' = [lock EXCEPT ![Path(c)] = c]
           \/ ReturnBatch(c) /\ lock' = [f \in Files |-> IF lock[f] = c THEN None ELSE lock[f]]
           \/ Dies(c) /\ lock' = [f \in Files |-> IF lock[f] = c THEN None ELSE lock[f]]
BY DEF Step, BatchStep, ChangeStep, Call, LockPath, PlanPath, RecheckPath, SkipPath, WritePath,
       VerifyPath, RestorePath, ConfirmRestored, ReturnBatch, PlanOperation, ApplyDelete,
       OpenForWriting, FillFile, UnlinkOld, ReturnChange, WriteFails, RestoreFails, ApplyFails, Dies, places

(* The locks of the others stay theirs. *)
LEMMA OthersKeepLocks ==
    ASSUME EInv, NEW c \in Callers, Step(c), NEW d \in Callers \ {c}, NEW f \in Files
    PROVE  lock'[f] = d <=> lock[f] = d
<1>1. lock \in [Files -> Callers \cup {None}] /\ d # None /\ c # None /\ c # d
  BY NoneIsNobody DEF EInv, Shapes, PlacesTyped
<1> QED
  BY <1>1, LocksMove

(* The ledger is written by batches that have done their work. *)
LEMMA LedgerMoves ==
    ASSUME EInv, NEW c \in Callers, Step(c)
    PROVE  \/ ledger' = ledger
           \/ ReturnBatch(c) /\ answer[c] = "success" /\ ~ call[c].dry /\ ledger' = Replayed(ledger, call[c])
BY DEF Step, BatchStep, ChangeStep, Call, LockPath, PlanPath, RecheckPath, SkipPath, WritePath,
       VerifyPath, RestorePath, ConfirmRestored, ReturnBatch, PlanOperation, ApplyDelete, Unlink,
       OpenForWriting, FillFile, UnlinkOld, ReturnChange, WriteFails, RestoreFails, ApplyFails, Dies, history

(* While nobody but complete batches has changed a file, no patch fills one.  *)
LEMMA CalmMoves ==
    ASSUME EInv, NEW c \in Callers, Step(c), calm'
    PROVE  calm
<1>0. calm \in BOOLEAN
  BY DEF EInv, Shapes, HistoryTyped
<1> QED
  BY <1>0 DEF Step, BatchStep, ChangeStep, Call, LockPath, PlanPath, RecheckPath, SkipPath, WritePath,
       VerifyPath, RestorePath, ConfirmRestored, ReturnBatch, PlanOperation, ApplyDelete, Unlink,
       OpenForWriting, FillFile, UnlinkOld, ReturnChange, WriteFails, RestoreFails, ApplyFails, Dies, history

(* Whoever goes through the files of a batch holds their locks. *)
LEMMA HoldsPath ==
    ASSUME SInv, NEW c \in Callers, pc[c] \in AfterPlanning
    PROVE  /\ lock[Path(c)] = c /\ Path(c) \in Files
           /\ \A i \in 1..Len(plan[c]) : lock[plan[c][i].file] = c
<1>1. IsBatch(c) /\ Batching(c) /\ Len(plan[c]) = Count(c)
  BY DEF SInv, EInv, Steady, PlanFits, Batching, AfterPlanning
<1>2. \A i \in 1..Count(c) : lock[OrderedPaths(call[c].ops)[i]] = c
  BY <1>1 DEF SInv, BInv, Locked
<1>3. \A i \in 1..Len(plan[c]) : plan[c][i].file = OrderedPaths(call[c].ops)[i]
  BY <1>1 DEF SInv, EInv, PlanFits
<1>4. pos[c] \in 1..Len(plan[c]) /\ Path(c) = plan[c][pos[c]].file /\ Path(c) \in Files
  BY AtItem DEF SInv
<1> QED
  BY <1>1, <1>2, <1>3, <1>4

(* As long as only complete batches change files, a file is changed by the  *)
(* holder of its lock.                                                      *)
LEMMA DiskMoves ==
    ASSUME SInv, NEW c \in Callers, Step(c), calm'
    PROVE  \/ disk' = disk
           \/ /\ pc[c] \in {"writing", "restoring"} /\ lock[Path(c)] = c /\ Path(c) \in Files
              /\ \E text : disk' = [disk EXCEPT ![Path(c)] = text]
<1>0. calm /\ pc[c] \notin {"filling", "unlinking"}
  BY CalmMoves DEF SInv, BInv
<1>1. CASE WritePath(c) \/ WriteFails(c) \/ RestorePath(c)
  <2>1. pc[c] \in {"writing", "restoring"} /\ pc[c] \in AfterPlanning
    BY <1>1 DEF WritePath, WriteFails, RestorePath, AfterPlanning
  <2>2. disk' = disk \/ \E text : disk' = [disk EXCEPT ![Path(c)] = text]
    BY <1>1 DEF WritePath, WriteFails, RestorePath, ReplaceFile
  <2> QED
    BY <2>1, <2>2, HoldsPath
<1>2. CASE ApplyDelete(c)
  BY <1>0, <1>2 DEF ApplyDelete, Unlink
<1>3. CASE OpenForWriting(c) \/ FillFile(c) \/ UnlinkOld(c)
  BY <1>0, <1>3 DEF OpenForWriting, FillFile, UnlinkOld
<1>4. CASE ~ (WritePath(c) \/ WriteFails(c) \/ RestorePath(c) \/ ApplyDelete(c) \/ OpenForWriting(c) \/ FillFile(c) \/ UnlinkOld(c))
  BY <1>4 DEF Step, BatchStep, ChangeStep, Call, LockPath, PlanPath, RecheckPath, SkipPath,
       VerifyPath, ConfirmRestored, ReturnBatch, PlanOperation, ReturnChange, RestoreFails, ApplyFails, Dies, places
<1> QED
  BY <1>1, <1>2, <1>3, <1>4

(* Files somebody else has locked are left alone, on the disk and in the ledger. *)
LEMMA LockedStay ==
    ASSUME SInv, NEW c \in Callers, Step(c), calm', NEW f \in Files, lock[f] # c
    PROVE  disk'[f] = disk[f] /\ ledger'[f] = ledger[f]
<1>1. disk'[f] = disk[f]
  <2>1. disk = [g \in Files |-> disk[g]]
    BY DEF SInv, EInv, Shapes, PlacesTyped
  <2> QED
    BY <2>1, DiskMoves
<1>2. ledger'[f] = ledger[f]
  <2>1. CASE ledger' = ledger
    BY <2>1
  <2>2. CASE ReturnBatch(c) /\ answer[c] = "success" /\ ledger' = Replayed(ledger, call[c])
    <3>1. pc[c] = "returning" /\ IsBatch(c) /\ Batching(c)
      BY <2>2 DEF ReturnBatch, Batching
    <3>2. Locked(c) /\ PlanFits(c)
      BY <3>1 DEF SInv, BInv, EInv
    <3>3. Len(plan[c]) = Count(c) /\ \A i \in 1..Count(c) : lock[OrderedPaths(call[c].ops)[i]] = c
      BY <2>2, <3>1, <3>2 DEF Locked, PlanFits
    <3>4. BatchFiles(call[c].ops) \subseteq Files
      BY <3>1, CallsAreRequests DEF SInv, EInv, Steady, IsBatch
    <3>5. f \notin BatchFiles(call[c].ops)
      BY <3>3, <3>4, PathsAreTheFiles DEF Count
    <3> QED
      BY <2>2, <3>5 DEF Replayed
  <2> QED
    BY <2>1, <2>2, LedgerMoves DEF SInv
<1> QED
  BY <1>1, <1>2

(* The batches of the others. *)
LEMMA OthersStayInTurn ==
    ASSUME SInv, NEW c \in Callers, Step(c), NEW d \in Callers \ {c}, Batching(d)'
    PROVE  Batching(d) /\ Locked(d)' /\ (calm' => InTurn(d)')
<1>0. EInv
  BY DEF SInv
<1>1. /\ pc'[d] = pc[d] /\ call'[d] = call[d] /\ pos'[d] = pos[d] /\ plan'[d] = plan[d]
      /\ answer'[d] = answer[d] /\ failed'[d] = failed[d]
  BY <1>0, OthersKeepCalls DEF LeavesCalls
<1>2. wrote'[d] = wrote[d]
  BY <1>0, OthersAreTold DEF LeavesHistory
<1>3. Batching(d) /\ IsBatch(d)
  BY <1>1 DEF Batching, IsBatch
<1>4. \A f \in Files : lock'[f] = d <=> lock[f] = d
  BY <1>0, OthersKeepLocks
<1>5. Locked(d) /\ (calm => PlannedInTurn(d) /\ Halfway(d))
  BY <1>3 DEF SInv, BInv, InTurn
<1>6. /\ \A i \in 1..Count(d) : OrderedPaths(call[d].ops)[i] \in Files
      /\ \A i \in 1..Len(plan[d]) : plan[d][i].file \in Files
      /\ Count(d) \in Nat
  BY <1>0, <1>3, BatchFacts
<1>7. Locked(d)'
  <2>1. Count(d)' = Count(d)
    BY <1>1 DEF Count
  <2>2. pc[d] = "locking" => \A i \in 1..(pos[d] - 1) : i \in 1..Count(d)
    <3>1. pc[d] = "locking" => pos[d] <= Count(d) /\ pos[d] \in Nat \ {0}
      BY <1>0, <1>3 DEF EInv, PlanFits, Shapes, CallsTyped
    <3> QED
      BY <1>6, <3>1
  <2> QED
    BY <1>1, <1>4, <1>5, <1>6, <2>1, <2>2 DEF Locked
<1>8. ASSUME calm'
      PROVE  PlannedInTurn(d)' /\ Halfway(d)'
  <2>1. calm /\ PlannedInTurn(d) /\ Halfway(d)
    BY <1>0, <1>5, <1>8, CalmMoves
  <2>2. d # c
    OBVIOUS
  <2>3. \A f \in Files : lock[f] = d => disk'[f] = disk[f] /\ ledger'[f] = ledger[f]
    BY <1>8, <2>2, LockedStay
  <2>4. \A i \in 1..Len(plan[d]) : lock[plan[d][i].file] = d
    <3>1. CASE pc[d] \in AfterPlanning
      BY <3>1, HoldsPath
    <3>2. CASE pc[d] = "planning"
      <4>1. /\ \A i \in 1..Count(d) : lock[OrderedPaths(call[d].ops)[i]] = d
            /\ Len(plan[d]) <= Count(d) /\ Len(plan[d]) \in Nat
            /\ \A i \in 1..Len(plan[d]) : plan[d][i].file = OrderedPaths(call[d].ops)[i]
        BY <1>0, <1>3, <1>5, <3>2, BatchFacts DEF Locked, EInv, PlanFits
      <4> QED
        BY <1>6, <4>1
    <3>3. CASE pc[d] = "locking"
      <4>1. plan[d] = << >>
        BY <1>0, <3>3 DEF EInv, PlanFits
      <4> QED
        BY <4>1
    <3>4. CASE pc[d] = "returning"
      BY <1>5, <3>4 DEF Locked
    <3> QED
      BY <1>0, <1>3, <3>1, <3>2, <3>3, <3>4 DEF EInv, Shapes, CallsTyped, Places, Steady, Batching, AfterPlanning, OfChanges
  <2>5. PlannedInTurn(d)'
    BY <1>1, <1>6, <2>1, <2>3, <2>4 DEF PlannedInTurn
  <2>6. pc[d] \in AfterPlanning => Path(d)' = Path(d) /\ Path(d) \in Files /\ lock[Path(d)] = d
    BY <1>1, HoldsPath DEF Path
  <2>7. pc[d] \in AfterPlanning => pos[d] \in 1..Len(plan[d]) /\ Len(plan[d]) \in Nat
    BY <1>0, AtItem
  <2>8. Halfway(d)'
    <3>1. \A f \in Files : lock'[f] = d /\ f \notin wrote'[d] => disk'[f] = ledger'[f]
      BY <1>2, <1>4, <2>1, <2>3 DEF Halfway
    <3>2. pc[d] \in AfterPlanning \ {"checking"} =>
             /\ \A i \in 1..(pos[d] - 1) : disk'[plan[d][i].file] = plan[d][i].text
             /\ \A i \in (pos[d] + 1)..Len(plan[d]) : disk'[plan[d][i].file] = plan[d][i].before
      <4>1. pc[d] \in AfterPlanning =>
               /\ \A i \in 1..(pos[d] - 1) : i \in 1..Len(plan[d])
               /\ \A i \in (pos[d] + 1)..Len(plan[d]) : i \in 1..Len(plan[d])
        BY <2>7
      <4> QED
        BY <1>6, <2>1, <2>3, <2>4, <4>1 DEF Halfway
    <3>3. /\ pc[d] \in {"writing", "confirming"} => disk'[Path(d)] = plan[d][pos[d]].before
          /\ pc[d] = "verifying" => disk'[Path(d)] = plan[d][pos[d]].text
          /\ pc[d] = "restoring" => disk'[Path(d)] \in {plan[d][pos[d]].before, plan[d][pos[d]].text}
      BY <2>1, <2>3, <2>6 DEF Halfway, AfterPlanning
    <3>4. pc[d] = "returning" =>
            IF answer[d] = "success" /\ ~ call[d].dry
            THEN \A i \in 1..Len(plan[d]) : disk'[plan[d][i].file] = plan[d][i].text
            ELSE \A f \in Files : lock[f] = d => disk'[f] = ledger'[f]
      BY <1>6, <2>1, <2>3, <2>4 DEF Halfway
    <3> QED
      BY <1>1, <1>4, <2>1, <2>6, <3>1, <3>2, <3>3, <3>4 DEF Halfway, AfterPlanning
  <2> QED
    BY <2>5, <2>8
<1> QED
  BY <1>3, <1>7, <1>8 DEF InTurn

(* A batch whose locks are taken goes on, or it ends. *)
BatchGoesOn(c) ==
    /\ UNCHANGED << lock, call >>
    /\ pc'[c] \in AfterPlanning \cup {"planning", "returning"}
    /\ pc'[c] = "returning" /\ answer'[c] = "success" => plan' = plan /\ pc[c] \in AfterPlanning

(* Every step of such a batch but the last ones does this. *)
LEMMA LockedBatchesGoOn ==
    ASSUME EInv, NEW c \in Callers, Step(c), Batching(c), pc[c] # "locking"
    PROVE  BatchGoesOn(c) \/ ReturnBatch(c) \/ Dies(c)
<1>0. CallsTyped /\ IsBatch(c) /\ pc[c] \in AfterPlanning \cup {"planning", "returning"}
  BY DEF EInv, Shapes, CallsTyped, Batching, Steady, Places, AfterPlanning, OfChanges
<1> USE DEF BatchGoesOn, places, CallsTyped, Goto, Answer, Advance, AfterPlanning
<1>1. CASE PlanPath(c)
  <2>1. PlannedPath(c).ok = TRUE \/ PlannedPath(c).code # "success"
    BY PlannedPathSays DEF Refusals
  <2>2. UNCHANGED << lock, call >> /\ pc'[c] \in AfterPlanning \cup {"planning", "returning"}
    BY <1>0, <1>1 DEF PlanPath
  <2>3. pc'[c] = "returning" => PlannedPath(c).ok # TRUE /\ answer'[c] = PlannedPath(c).code
    BY <1>0, <1>1 DEF PlanPath
  <2> QED
    BY <2>1, <2>2, <2>3
<1>2. CASE RecheckPath(c)
  BY <1>0, <1>2 DEF RecheckPath
<1>3. CASE SkipPath(c)
  BY <1>0, <1>3 DEF SkipPath
<1>4. CASE WritePath(c)
  BY <1>0, <1>4 DEF WritePath
<1>5. CASE VerifyPath(c)
  BY <1>0, <1>5 DEF VerifyPath
<1>6. CASE RestorePath(c)
  BY <1>0, <1>6 DEF RestorePath
<1>7. CASE ConfirmRestored(c)
  <2>1. PICK bad : AfterRestoring(c, bad) /\ pc[c] = "confirming" /\ UNCHANGED << call, lock, plan >>
    BY <1>7 DEF ConfirmRestored
  <2>2. RestoringNext(c, bad)
    BY <1>0, <2>1, RollbackGoesBack DEF CallsTyped
  <2> QED
    BY <1>0, <2>1, <2>2 DEF RestoringNext
<1>8. CASE RestoreFails(c)
  <2>1. PICK bad : AfterRestoring(c, bad) /\ pc[c] = "restoring" /\ UNCHANGED << call, lock, plan >>
    BY <1>8 DEF RestoreFails
  <2>2. RestoringNext(c, bad)
    BY <1>0, <2>1, RollbackGoesBack DEF CallsTyped
  <2> QED
    BY <1>0, <2>1, <2>2 DEF RestoringNext
<1>9. CASE WriteFails(c)
  BY <1>0, <1>9 DEF WriteFails
<1>10. ~ LockPath(c) /\ ~ (\E request \in Calls : Call(c, request)) /\ ~ PlanOperation(c) /\ ~ ApplyDelete(c)
       /\ ~ OpenForWriting(c) /\ ~ FillFile(c) /\ ~ UnlinkOld(c) /\ ~ ReturnChange(c) /\ ~ ApplyFails(c)
  BY <1>0 DEF LockPath, Call, PlanOperation, ApplyDelete, OpenForWriting, FillFile, UnlinkOld, ReturnChange, ApplyFails
<1> QED
  BY <1>1, <1>2, <1>3, <1>4, <1>5, <1>6, <1>7, <1>8, <1>9, <1>10 DEF Step, BatchStep, ChangeStep

(* A batch that waits for locks. *)
LEMMA LockingGoesOn ==
    ASSUME EInv, NEW c \in Callers, Step(c), pc[c] = "locking"
    PROVE  LockPath(c) \/ Dies(c)
BY DEF Step, BatchStep, ChangeStep, Call, LockPath, PlanPath, RecheckPath, SkipPath, WritePath,
       VerifyPath, RestorePath, ConfirmRestored, ReturnBatch, PlanOperation, ApplyDelete, Unlink,
       OpenForWriting, FillFile, UnlinkOld, ReturnChange, WriteFails, RestoreFails, ApplyFails

(* A call that is made. *)
LEMMA NewCalls ==
    ASSUME EInv, NEW c \in Callers, NEW request \in Calls, Call(c, request), IsBatch(c)'
    PROVE  /\ pc'[c] \in {"locking", "returning"} /\ pos'[c] = 1 /\ plan'[c] = << >> /\ wrote'[c] = {}
           /\ (pc'[c] = "returning" => answer'[c] # "success") /\ ~ failed'[c] /\ UNCHANGED << disk, lock, ledger, calm >>
           /\ \A f \in Files : lock[f] # c
<1>0. CallsTyped /\ Steady(c) /\ pc[c] = "idle" /\ call'[c] = request /\ request.tool = "replace" /\ c # None
  BY NoneIsNobody DEF EInv, Shapes, CallsTyped, Call, IsBatch
<1>1. plan[c] = << >> /\ pos[c] = 1 /\ wrote[c] = {} /\ ~ failed[c] /\ answer[c] = None
  BY <1>0 DEF Steady, Over
<1>2. \A f \in Files : lock[f] # c
  BY <1>0 DEF EInv, LocksAreOfBatches
<1>3. pc'[c] \in {"locking", "returning"} /\ (pc'[c] = "returning" => answer'[c] = "invalid_arguments") /\ plan' = plan
  BY <1>0, <1>1 DEF Call, CallsTyped, Answer, Goto
<1> QED
  BY <1>0, <1>1, <1>2, <1>3 DEF Call, places

(* The locks of the batch that takes the step. *)
LEMMA OwnLocks ==
    ASSUME SInv, NEW c \in Callers, Step(c), Batching(c)'
    PROVE  Locked(c)'
<1>0. EInv /\ CallsTyped /\ PlacesTyped /\ c # None
  BY NoneIsNobody DEF SInv, EInv, Shapes
<1>00. Shapes' /\ PlanFits(c)' /\ Steady(c)'
  BY <1>0, StepsAreSound DEF EInv, Next, Step
<1>1. ASSUME NEW request \in Calls, Call(c, request)
      PROVE  Locked(c)'
  <2>1. IsBatch(c)'
    BY DEF Batching
  <2>2. /\ pc'[c] \in {"locking", "returning"} /\ pos'[c] = 1 /\ plan'[c] = << >>
        /\ (pc'[c] = "returning" => answer'[c] # "success") /\ lock' = lock
        /\ \A f \in Files : lock[f] # c
    BY <1>0, <1>1, <2>1, NewCalls
  <2>3. Len(plan'[c]) = 0 /\ \A i \in 1..(pos'[c] - 1) : FALSE
    BY <2>2
  <2> QED
    BY <2>2, <2>3 DEF Locked, AfterPlanning
<1>2. CASE LockPath(c)
  <2>1. /\ pc[c] = "locking" /\ call' = call /\ lock' = [lock EXCEPT ![Path(c)] = c]
        /\ \/ pc'[c] = "locking" /\ pos'[c] = pos[c] + 1 /\ ~ LastPath(c)
           \/ pc'[c] = "planning" /\ LastPath(c)
    BY <1>0, <1>2 DEF LockPath, Advance, Goto, CallsTyped
  <2>2. Batching(c) /\ IsBatch(c) /\ Locked(c)
    BY <1>0, <2>1 DEF Batching, SInv, BInv, EInv, Steady
  <2>3. /\ Count(c) \in Nat /\ \A i \in 1..Count(c) : OrderedPaths(call[c].ops)[i] \in Files
        /\ pos[c] \in 1..Count(c) /\ Path(c) \in Files /\ Path(c) = OrderedPaths(call[c].ops)[pos[c]]
    <3>1. pos[c] <= Count(c) /\ pos[c] \in Nat \ {0}
      BY <1>0, <2>1, <2>2 DEF EInv, PlanFits, CallsTyped
    <3> QED
      BY <1>0, <2>2, <3>1, BatchFacts DEF Path
  <2>4. \A i \in 1..(pos[c] - 1) : i \in 1..Count(c) /\ lock[OrderedPaths(call[c].ops)[i]] = c
    BY <2>1, <2>2, <2>3 DEF Locked
  <2>5. \A i \in 1..pos[c] : i = pos[c] \/ i \in 1..(pos[c] - 1)
    BY <2>3
  <2>6. \A i \in 1..pos[c] : lock'[OrderedPaths(call[c].ops)[i]] = c
    BY <1>0, <2>1, <2>3, <2>4, <2>5 DEF PlacesTyped
  <2>7. Path(c) \in BatchFiles(call[c].ops)
    <3>1. BatchFiles(call[c].ops) \subseteq Files
      BY <1>0, <2>2, CallsAreRequests DEF EInv, Steady, IsBatch
    <3> QED
      BY <2>3, <3>1, PathsAreTheFiles DEF Count
  <2>8. \A f \in Files : lock'[f] = c => f \in BatchFiles(call[c].ops)
    BY <1>0, <2>1, <2>2, <2>7 DEF Locked, PlacesTyped
  <2>9. CASE pc'[c] = "locking" /\ pos'[c] = pos[c] + 1
    <3>1. \A i \in 1..(pos'[c] - 1) : i \in 1..pos[c]
      BY <2>3, <2>9
    <3> QED
      BY <2>1, <2>6, <2>8, <2>9, <3>1 DEF Locked, AfterPlanning
  <2>10. CASE pc'[c] = "planning" /\ LastPath(c)
    <3>1. pos[c] = Count(c) /\ Count(c)' = Count(c)
      BY <2>1, <2>10 DEF LastPath, Count
    <3> QED
      BY <2>1, <2>6, <2>8, <2>10, <3>1 DEF Locked, AfterPlanning
  <2> QED
    BY <2>1, <2>9, <2>10
<1>3. CASE Batching(c) /\ pc[c] # "locking"
  <2>1. BatchGoesOn(c)
    <3>1. ~ ReturnBatch(c) /\ ~ Dies(c)
      BY <1>0 DEF ReturnBatch, Dies, Goto, CallsTyped, Batching
    <3> QED
      BY <1>0, <1>3, <3>1, LockedBatchesGoOn
  <2>2. Locked(c) /\ IsBatch(c) /\ Count(c)' = Count(c) /\ pc[c] \in AfterPlanning \cup {"planning", "returning"}
    BY <1>0, <1>3, <2>1 DEF SInv, BInv, BatchGoesOn, Count, Batching, EInv, Steady, CallsTyped, Places, AfterPlanning, OfChanges
  <2>3. pc'[c] \in AfterPlanning \cup {"planning", "returning"} /\ lock' = lock /\ call' = call
    BY <2>1 DEF BatchGoesOn
  <2>4. pc[c] # "returning"
    <3>1. pc[c] = "returning" => ReturnBatch(c) \/ Dies(c)
      BY <1>3 DEF Step, BatchStep, ChangeStep, Call, LockPath, PlanPath, RecheckPath, SkipPath, WritePath,
           VerifyPath, RestorePath, ConfirmRestored, ReturnBatch, PlanOperation, ApplyDelete, Unlink,
           OpenForWriting, FillFile, UnlinkOld, ReturnChange, WriteFails, RestoreFails, ApplyFails, Batching
    <3>2. ~ ReturnBatch(c) /\ ~ Dies(c)
      BY <1>0 DEF ReturnBatch, Dies, Goto, CallsTyped, Batching
    <3> QED
      BY <3>1, <3>2
  <2>5. \A i \in 1..Count(c) : lock[OrderedPaths(call[c].ops)[i]] = c
    BY <2>2, <2>4 DEF Locked
  <2>6. IsBatch(c)' /\ Len(plan'[c]) \in Nat /\ Count(c) \in Nat
    BY <1>0, <1>00, <2>2, <2>3, BatchFacts DEF PlanFits, IsBatch
  <2>7. \A i \in 1..Len(plan'[c]) : i \in 1..Count(c) /\ plan'[c][i].file = OrderedPaths(call[c].ops)[i]
    BY <1>00, <2>2, <2>3, <2>6 DEF PlanFits
  <2>8. pc'[c] = "returning" /\ answer'[c] = "success" => Len(plan'[c]) = Count(c)
    BY <1>0, <2>1, <2>2 DEF BatchGoesOn, EInv, PlanFits
  <2>9. \A i \in 1..Len(plan'[c]) : lock'[plan'[c][i].file] = c
    BY <2>3, <2>5, <2>7
  <2>10. \A f \in Files : lock'[f] = c => f \in BatchFiles(call'[c].ops)
    BY <2>2, <2>3 DEF Locked
  <2>11. \A i \in 1..Count(c)' : lock'[OrderedPaths(call'[c].ops)[i]] = c
    BY <2>2, <2>3, <2>5
  <2> QED
    BY <2>2, <2>3, <2>8, <2>9, <2>10, <2>11 DEF Locked, AfterPlanning
<1>4. CASE ~ Batching(c) /\ ~ (\E request \in Calls : Call(c, request))
  <2>1. call' = call /\ (pc[c] \in {"idle", "done", "dead"} => pc' = pc)
    BY <1>0, <1>4 DEF Step, BatchStep, ChangeStep, Call, LockPath, PlanPath, RecheckPath, SkipPath, WritePath,
       VerifyPath, RestorePath, ConfirmRestored, ReturnBatch, PlanOperation, ApplyDelete, Unlink,
       OpenForWriting, FillFile, UnlinkOld, ReturnChange, WriteFails, RestoreFails, ApplyFails, Dies
  <2> QED
    BY <1>4, <2>1 DEF Batching, IsBatch
<1>5. pc[c] = "locking" => LockPath(c)
  <2>1. ~ Dies(c)
    BY <1>0 DEF Dies, Goto, CallsTyped, Batching
  <2> QED
    BY <1>0, <2>1, LockingGoesOn
<1> QED
  BY <1>1, <1>2, <1>3, <1>4, <1>5

(* The plan of a file that a batch has locked.                             *)
LEMMA PlannedOnLedger ==
    ASSUME SInv, calm, NEW c \in Callers, pc[c] = "planning", IsBatch(c), PlannedPath(c).ok
    PROVE  LET p == PlannedPath(c)
           IN  /\ p.file = Path(c) /\ p.before = ledger[p.file] /\ p.text = Made(call[c], p.file, p.before)
               /\ p.used \in Nat /\ IsText(p.text)
<1> DEFINE f == Path(c)
           used == IF plan[c] = << >> THEN 0 ELSE Last(plan[c]).used
           rules == RulesFor(call[c].ops, f)
           result == ApplyRules(disk[f], used, rules, call[c].max)
           p == PlannedPath(c)
<1>0. EInv /\ Batching(c) /\ InTurn(c) /\ Locked(c) /\ Steady(c) /\ PlanFits(c)
  BY DEF SInv, BInv, EInv, Batching
<1>1. /\ p.file = f /\ p.before = disk[f] /\ p.text = result.text /\ p.used = result.used /\ result.ok
  BY DEF PlannedPath, PlanReplace, Refusal
<1>2. f \in Files /\ lock[f] = c
  <2>1. pos[c] <= Count(c) /\ pos[c] \in Nat \ {0} /\ Count(c) \in Nat
    BY <1>0, BatchFacts DEF EInv, PlanFits, Shapes, CallsTyped
  <2> QED
    BY <1>0, <2>1, AtFiles DEF Locked, Path
<1>3. disk[f] = ledger[f] /\ IsText(ledger[f])
  BY <1>0, <1>2 DEF SInv, BInv, InTurn, Halfway, Steady
<1>4. used \in Nat
  <2>1. CASE plan[c] # << >>
    <3>1. plan[c] \in Seq(Range(plan[c]))
      BY <1>0 DEF PlanFits
    <3>2. Len(plan[c]) \in 1..Len(plan[c])
      BY <2>1, <3>1
    <3> QED
      BY <1>0, <2>1, <3>2 DEF InTurn, PlannedInTurn, Last
  <2> QED
    BY <2>1
<1>5. rules \in Seq(Range(rules)) /\ RulesCount(rules) /\ call[c].max \in Nat
  BY <1>0, <1>2, CallsAreRequests DEF Steady, IsBatch, RulesCount
<1> HIDE DEF f, used, rules, p
<1>6. /\ ApplyRules(disk[f], 0, rules, call[c].max).text = result.text
      /\ result.used \in Nat /\ IsText(result.text)
  BY <1>1, <1>3, <1>4, <1>5, RulesDoTheSame DEF IsText
<1>7. ApplyRules(disk[f], 0, rules, call[c].max).text = Made(call[c], f, disk[f])
  BY DEF Made, rules
<1> QED
  BY <1>1, <1>3, <1>6, <1>7 DEF f, p

(* The plan of the batch that takes the step. *)
LEMMA OwnPlanInTurn ==
    ASSUME SInv, NEW c \in Callers, Step(c), Batching(c)', calm'
    PROVE  PlannedInTurn(c)'
<1>0. EInv /\ CallsTyped /\ calm
  BY CalmMoves DEF SInv, EInv, Shapes
<1>1. ASSUME NEW request \in Calls, Call(c, request)
      PROVE  PlannedInTurn(c)'
  <2>1. plan'[c] = << >>
    BY <1>0, <1>1, NewCalls DEF Batching
  <2> QED
    BY <2>1 DEF PlannedInTurn
<1>2. ASSUME ~ (\E request \in Calls : Call(c, request))
      PROVE  Batching(c) /\ call' = call /\ ledger' = ledger
  <2>1. call' = call /\ (pc[c] \in {"idle", "done", "dead"} => pc' = pc)
    BY <1>0, <1>2 DEF Step, BatchStep, ChangeStep, Call, LockPath, PlanPath, RecheckPath, SkipPath, WritePath,
       VerifyPath, RestorePath, ConfirmRestored, ReturnBatch, PlanOperation, ApplyDelete, Unlink,
       OpenForWriting, FillFile, UnlinkOld, ReturnChange, WriteFails, RestoreFails, ApplyFails, Dies
  <2>2. ~ ReturnBatch(c)
    BY <1>0 DEF ReturnBatch, Goto, CallsTyped, Batching
  <2> QED
    BY <1>0, <2>1, <2>2, LedgerMoves DEF Batching, IsBatch
<1>3. ASSUME PlanPath(c), PlannedPath(c).ok
      PROVE  PlannedInTurn(c)'
  <2>1. pc[c] = "planning" /\ IsBatch(c) /\ plan'[c] = Append(plan[c], PlannedPath(c))
    BY <1>0, <1>3 DEF PlanPath, CallsTyped
  <2>2. Batching(c) /\ PlannedInTurn(c) /\ call' = call /\ ledger' = ledger
    BY <1>0, <2>1, <1>3 DEF SInv, BInv, InTurn, Batching, PlanPath, history
  <2>3. plan[c] \in Seq(Range(plan[c]))
    BY <1>0 DEF EInv, PlanFits
  <2> DEFINE p == PlannedPath(c)
             n == Len(plan[c])
  <2>4. /\ p.before = ledger[p.file] /\ p.text = Made(call[c], p.file, p.before)
        /\ p.used \in Nat /\ IsText(p.text)
    BY <1>0, <1>3, <2>1, PlannedOnLedger
  <2> HIDE DEF p
  <2>5. /\ Len(plan'[c]) = n + 1 /\ n \in Nat
        /\ \A i \in 1..n : plan'[c][i] = plan[c][i]
        /\ plan'[c][n + 1] = p
    BY <2>1, <2>3, PlansGrow DEF p
  <2>6. ASSUME NEW i \in 1..Len(plan'[c])
        PROVE  i \in 1..n \/ plan'[c][i] = p
    BY <2>5
  <2> QED
    BY <2>2, <2>4, <2>5, <2>6 DEF PlannedInTurn
<1>4. ASSUME ~ (\E request \in Calls : Call(c, request)), ~ (PlanPath(c) /\ PlannedPath(c).ok)
      PROVE  PlannedInTurn(c)'
  <2>1. Batching(c) /\ call' = call /\ ledger' = ledger /\ PlannedInTurn(c)
    BY <1>0, <1>2, <1>4 DEF SInv, BInv, InTurn
  <2>2. ~ PlanOperation(c)
    BY <2>1 DEF PlanOperation, Batching
  <2>3. plan' = plan
    BY <1>4, <2>2 DEF Step, BatchStep, ChangeStep, LockPath, PlanPath, RecheckPath, SkipPath, WritePath,
       VerifyPath, RestorePath, ConfirmRestored, ReturnBatch, ApplyDelete,
       OpenForWriting, FillFile, UnlinkOld, ReturnChange, WriteFails, RestoreFails, ApplyFails, Dies
  <2> QED
    BY <2>1, <2>3 DEF PlannedInTurn
<1> QED
  BY <1>1, <1>3, <1>4

(* A text that is put in its place is there, and the others stay. *)
LEMMA WritesInTurn ==
    ASSUME SInv, NEW c \in Callers, pc[c] \in AfterPlanning, NEW text, ReplaceFile(c, Path(c), text)
    PROVE  /\ disk'[Path(c)] = text
           /\ \A f \in Files : f # Path(c) => disk'[f] = disk[f]
           /\ \A i \in 1..Len(plan[c]) : i # pos[c] => disk'[plan[c][i].file] = disk[plan[c][i].file]
           /\ wrote'[c] = wrote[c] \cup {Path(c)}
<1>0. EInv
  BY DEF SInv
<1>1. disk' = [disk EXCEPT ![Path(c)] = text] /\ disk = [f \in Files |-> disk[f]] /\ wrote'[c] = wrote[c] \cup {Path(c)}
  BY <1>0 DEF ReplaceFile, Noted, EInv, Shapes, PlacesTyped, HistoryTyped
<1>2. Path(c) \in Files /\ \A i \in 1..Len(plan[c]) : i # pos[c] => plan[c][i].file # Path(c)
  BY <1>0, AtItem
<1>3. \A i \in 1..Len(plan[c]) : plan[c][i].file \in Files
  BY <1>0, AtItem, BatchFacts
<1> QED
  BY <1>1, <1>2, <1>3

(* How far the batch that takes the step has come. *)
LEMMA OwnHalfway ==
    ASSUME SInv, NEW c \in Callers, Step(c), Batching(c)', calm'
    PROVE  Halfway(c)'
<1>0. EInv /\ CallsTyped /\ PlacesTyped /\ calm /\ c # None
  BY CalmMoves, NoneIsNobody DEF SInv, EInv, Shapes
<1>00. Steady(c)' /\ Steady(c)
  BY <1>0, StepsAreSound DEF EInv, Next, Step
<1>1. ASSUME NEW request \in Calls, Call(c, request)
      PROVE  Halfway(c)'
  <2>1. /\ pc'[c] \in {"locking", "returning"} /\ (pc'[c] = "returning" => answer'[c] # "success")
        /\ ~ failed'[c] /\ lock' = lock /\ \A f \in Files : lock[f] # c
    BY <1>0, <1>1, NewCalls DEF Batching
  <2> QED
    BY <2>1 DEF Halfway, AfterPlanning
<1>2. CASE LockPath(c)
  <2>1. /\ pc[c] = "locking" /\ pc'[c] \in {"locking", "planning"} /\ lock[Path(c)] = None
        /\ lock' = [lock EXCEPT ![Path(c)] = c] /\ UNCHANGED << disk, ledger, failed, wrote, call >>
    BY <1>0, <1>2 DEF LockPath, Advance, Goto, CallsTyped, history
  <2>2. Halfway(c) /\ Path(c) \in Files /\ Unlocked
    BY <1>0, <2>1, AtFiles DEF SInv, BInv, InTurn, Batching, Steady, EInv, AfterPlanning
  <2>3. \A f \in Files : lock'[f] = c => lock[f] = c \/ f = Path(c)
    BY <1>0, <2>1 DEF PlacesTyped
  <2>4. disk[Path(c)] = ledger[Path(c)]
    BY <2>1, <2>2 DEF Unlocked
  <2> QED
    BY <2>1, <2>2, <2>3, <2>4 DEF Halfway, AfterPlanning
<1>3. CASE PlanPath(c)
  <2>1. /\ pc[c] = "planning" /\ IsBatch(c) /\ Batching(c)
        /\ UNCHANGED << disk, lock, ledger, failed, wrote, call >>
    BY <1>3 DEF PlanPath, history, places, Batching
  <2>2. wrote[c] = {} /\ Halfway(c)
    BY <1>0, <1>00, <2>1 DEF Steady, SInv, BInv, InTurn
  <2>3. pc'[c] \in {"planning", "checking"} \/ (pc'[c] = "returning" /\ answer'[c] # "success")
    <3>1. PlannedPath(c).ok = TRUE \/ PlannedPath(c).code # "success"
      BY PlannedPathSays DEF Refusals
    <3> QED
      BY <1>0, <1>3, <3>1 DEF PlanPath, Advance, Goto, Answer, CallsTyped
  <2> QED
    BY <2>1, <2>2, <2>3 DEF Halfway, AfterPlanning
<1>4. CASE RecheckPath(c)
  <2>1. /\ pc[c] = "checking" /\ pc[c] \in AfterPlanning /\ IsBatch(c) /\ Batching(c)
        /\ UNCHANGED << disk, lock, ledger, failed, wrote, call, plan >>
    BY <1>4, <1>00 DEF RecheckPath, places, Batching, Steady, AfterPlanning
  <2>2. wrote[c] = {} /\ Halfway(c) /\ PlannedInTurn(c)
    BY <1>0, <1>00, <2>1 DEF Steady, SInv, BInv, InTurn
  <2>3. \/ pc'[c] = "checking"
        \/ pc'[c] = "writing" /\ pos'[c] = 1
        \/ pc'[c] = "returning" /\ (answer'[c] = "success" => call[c].dry)
    <3>1. CASE disk[Path(c)] # plan[c][pos[c]].before
      BY <1>0, <1>4, <3>1 DEF RecheckPath, Goto, Answer, CallsTyped
    <3>2. CASE disk[Path(c)] = plan[c][pos[c]].before
      <4>1. CASE ~ LastPath(c)
        BY <1>0, <1>4, <3>2, <4>1 DEF RecheckPath, Advance, CallsTyped
      <4>2. CASE LastPath(c) /\ call[c].dry
        BY <1>0, <1>4, <3>2, <4>2 DEF RecheckPath, Goto, Answer, CallsTyped
      <4>3. CASE LastPath(c) /\ ~ call[c].dry
        BY <1>0, <1>4, <3>2, <4>3 DEF RecheckPath, Goto, Advance, CallsTyped
      <4> QED
        BY <4>1, <4>2, <4>3
    <3> QED
      BY <3>1, <3>2
  <2>4. \A i \in 1..Len(plan[c]) : disk[plan[c][i].file] = plan[c][i].before
    <3>1. \A i \in 1..Len(plan[c]) : lock[plan[c][i].file] = c /\ plan[c][i].file \in Files
      BY <1>0, <2>1, HoldsPath, BatchFacts
    <3> QED
      BY <2>2, <3>1 DEF Halfway, PlannedInTurn
  <2>5. CASE pc'[c] = "writing" /\ pos'[c] = 1
    <3>1. pos[c] \in 1..Len(plan[c]) /\ Len(plan[c]) \in Nat /\ Len(plan[c]) = Count(c)
      BY <1>0, <2>1, AtItem DEF EInv, PlanFits
    <3>2. 1 \in 1..Len(plan[c]) /\ \A i \in 2..Len(plan[c]) : i \in 1..Len(plan[c])
      BY <3>1
    <3>3. Path(c)' = plan[c][1].file
      BY <1>0, <2>1, <2>5, <3>1, <3>2 DEF Path, EInv, PlanFits
    <3>4. (\A i \in 1..(pos'[c] - 1) : FALSE) /\ \A i \in (pos'[c] + 1)..Len(plan'[c]) : i \in 1..Len(plan[c])
      BY <2>1, <2>5, <3>1
    <3> QED
      BY <2>1, <2>2, <2>4, <2>5, <3>2, <3>3, <3>4 DEF Halfway
  <2> QED
    BY <2>1, <2>2, <2>3, <2>5 DEF Halfway, AfterPlanning
<1>5. CASE SkipPath(c)
  <2>1. /\ pc[c] = "writing" /\ pc[c] \in AfterPlanning /\ IsBatch(c) /\ Batching(c)
        /\ UNCHANGED << disk, lock, ledger, failed, wrote, call, plan >>
    BY <1>5, <1>00 DEF SkipPath, history, places, Batching, Steady, AfterPlanning
  <2>2. Halfway(c)
    BY <1>0, <2>1 DEF SInv, BInv, InTurn
  <2> DEFINE n == Len(plan[c])
             k == pos[c]
  <2>3. /\ n \in Nat /\ k \in 1..n /\ Path(c) = plan[c][k].file /\ (LastPath(c) <=> k = n) /\ ~ call[c].dry
    BY <1>0, <2>1, AtItem
  <2>4. /\ \A i \in 1..(k - 1) : disk[plan[c][i].file] = plan[c][i].text
        /\ \A i \in (k + 1)..n : disk[plan[c][i].file] = plan[c][i].before
        /\ disk[plan[c][k].file] = plan[c][k].text
    BY <1>5, <2>1, <2>2, <2>3 DEF Halfway, SkipPath, Unchanged, AfterPlanning
  <2>5. CASE k = n
    <3>1. pc'[c] = "returning" /\ answer'[c] = "success"
      BY <1>0, <1>5, <2>3, <2>5 DEF SkipPath, Answer, Goto, CallsTyped
    <3>2. \A i \in 1..n : i \in 1..(k - 1) \/ i = k
      BY <2>3, <2>5
    <3>3. \A i \in 1..n : disk[plan[c][i].file] = plan[c][i].text
      BY <2>4, <3>2
    <3> QED
      BY <2>1, <2>2, <2>3, <3>1, <3>3 DEF Halfway, AfterPlanning
  <2>6. CASE k # n
    <3>1. pc'[c] = "writing" /\ pos'[c] = k + 1
      BY <1>0, <2>1, <2>3, <2>6, <1>5 DEF SkipPath, Advance, CallsTyped
    <3>2. /\ \A i \in 1..(pos'[c] - 1) : i \in 1..(k - 1) \/ i = k
          /\ \A i \in (pos'[c] + 1)..n : i \in (k + 1)..n
          /\ pos'[c] \in (k + 1)..n /\ pos'[c] \in 1..n
      BY <2>3, <2>6, <3>1
    <3>3. Path(c)' = plan[c][pos'[c]].file
      BY <1>0, <2>1, <3>2 DEF Path, EInv, PlanFits
    <3>4. \A i \in 1..(pos'[c] - 1) : disk[plan[c][i].file] = plan[c][i].text
      BY <2>4, <3>2
    <3>5. disk[plan[c][pos'[c]].file] = plan[c][pos'[c]].before /\ \A i \in (pos'[c] + 1)..n : disk[plan[c][i].file] = plan[c][i].before
      BY <2>4, <3>2
    <3> QED
      BY <2>1, <2>2, <3>1, <3>3, <3>4, <3>5 DEF Halfway, AfterPlanning
  <2> QED
    BY <2>5, <2>6
<1>6. CASE WritePath(c) \/ WriteFails(c)
  <2>1. /\ pc[c] = "writing" /\ pc[c] \in AfterPlanning /\ IsBatch(c) /\ Batching(c)
        /\ UNCHANGED << pos, lock, ledger, failed, call, plan >>
        /\ pc'[c] \in {"verifying", "restoring"}
        /\ \/ ReplaceFile(c, Path(c), plan[c][pos[c]].text)
           \/ pc'[c] = "restoring" /\ UNCHANGED << disk, wrote >>
    BY <1>0, <1>6, <1>00 DEF WritePath, WriteFails, Batching, Steady, AfterPlanning, Goto, CallsTyped
  <2>2. Halfway(c) /\ Path(c)' = Path(c)
    BY <1>0, <2>1 DEF SInv, BInv, InTurn, Path
  <2> DEFINE n == Len(plan[c])
             k == pos[c]
  <2>3. n \in Nat /\ k \in 1..n /\ Path(c) \in Files
    BY <1>0, <2>1, AtItem
  <2>4. /\ \A i \in 1..(k - 1) : disk[plan[c][i].file] = plan[c][i].text /\ i \in 1..n /\ i # k
        /\ \A i \in (k + 1)..n : disk[plan[c][i].file] = plan[c][i].before /\ i \in 1..n /\ i # k
        /\ disk[Path(c)] = plan[c][k].before
    BY <2>1, <2>2, <2>3 DEF Halfway, AfterPlanning
  <2>5. CASE ReplaceFile(c, Path(c), plan[c][pos[c]].text)
    <3>1. /\ disk'[Path(c)] = plan[c][k].text /\ \A f \in Files : f # Path(c) => disk'[f] = disk[f]
          /\ \A i \in 1..n : i # k => disk'[plan[c][i].file] = disk[plan[c][i].file]
          /\ wrote'[c] = wrote[c] \cup {Path(c)}
      BY <2>1, <2>5, WritesInTurn
    <3>2. \A f \in Files : lock[f] = c /\ f \notin wrote'[c] => disk'[f] = ledger[f]
      BY <2>2, <3>1 DEF Halfway
    <3> QED
      BY <2>1, <2>2, <2>4, <3>1, <3>2 DEF Halfway
  <2>6. CASE pc'[c] = "restoring" /\ UNCHANGED << disk, wrote >>
    BY <2>1, <2>2, <2>4, <2>6 DEF Halfway
  <2> QED
    BY <2>1, <2>5, <2>6
<1>7. CASE VerifyPath(c)
  <2>1. /\ pc[c] = "verifying" /\ pc[c] \in AfterPlanning /\ IsBatch(c) /\ Batching(c)
        /\ UNCHANGED << disk, lock, ledger, failed, wrote, call, plan >>
    BY <1>7, <1>00 DEF VerifyPath, history, places, Batching, Steady, AfterPlanning
  <2>2. Halfway(c)
    BY <1>0, <2>1 DEF SInv, BInv, InTurn
  <2> DEFINE n == Len(plan[c])
             k == pos[c]
  <2>3. /\ n \in Nat /\ k \in 1..n /\ Path(c) = plan[c][k].file /\ (LastPath(c) <=> k = n) /\ ~ call[c].dry
    BY <1>0, <2>1, AtItem
  <2>4. /\ \A i \in 1..(k - 1) : disk[plan[c][i].file] = plan[c][i].text
        /\ \A i \in (k + 1)..n : disk[plan[c][i].file] = plan[c][i].before
        /\ disk[plan[c][k].file] = plan[c][k].text
    BY <2>1, <2>2, <2>3 DEF Halfway, AfterPlanning
  <2>5. CASE k = n
    <3>1. pc'[c] = "returning" /\ answer'[c] = "success"
      BY <1>0, <1>7, <2>3, <2>4, <2>5 DEF VerifyPath, Answer, Goto, CallsTyped
    <3>2. \A i \in 1..n : i \in 1..(k - 1) \/ i = k
      BY <2>3, <2>5
    <3>3. \A i \in 1..n : disk[plan[c][i].file] = plan[c][i].text
      BY <2>4, <3>2
    <3> QED
      BY <2>1, <2>2, <2>3, <3>1, <3>3 DEF Halfway, AfterPlanning
  <2>6. CASE k # n
    <3>1. pc'[c] = "writing" /\ pos'[c] = k + 1
      BY <1>0, <2>1, <2>3, <2>4, <2>6, <1>7 DEF VerifyPath, Goto, CallsTyped
    <3>2. /\ \A i \in 1..(pos'[c] - 1) : i \in 1..(k - 1) \/ i = k
          /\ \A i \in (pos'[c] + 1)..n : i \in (k + 1)..n
          /\ pos'[c] \in (k + 1)..n /\ pos'[c] \in 1..n
      BY <2>3, <2>6, <3>1
    <3>3. Path(c)' = plan[c][pos'[c]].file
      BY <1>0, <2>1, <3>2 DEF Path, EInv, PlanFits
    <3>4. \A i \in 1..(pos'[c] - 1) : disk[plan[c][i].file] = plan[c][i].text
      BY <2>4, <3>2
    <3>5. disk[plan[c][pos'[c]].file] = plan[c][pos'[c]].before /\ \A i \in (pos'[c] + 1)..n : disk[plan[c][i].file] = plan[c][i].before
      BY <2>4, <3>2
    <3> QED
      BY <2>1, <2>2, <3>1, <3>3, <3>4, <3>5 DEF Halfway, AfterPlanning
  <2> QED
    BY <2>5, <2>6
<1>8. CASE RestorePath(c)
  <2>1. /\ pc[c] = "restoring" /\ pc[c] \in AfterPlanning /\ IsBatch(c) /\ Batching(c)
        /\ UNCHANGED << pos, lock, ledger, failed, call, plan >>
        /\ pc'[c] = "confirming" /\ ReplaceFile(c, Path(c), plan[c][pos[c]].before)
    BY <1>0, <1>8, <1>00 DEF RestorePath, Batching, Steady, AfterPlanning, Goto, CallsTyped
  <2>2. Halfway(c) /\ Path(c)' = Path(c)
    BY <1>0, <2>1 DEF SInv, BInv, InTurn, Path
  <2> DEFINE n == Len(plan[c])
             k == pos[c]
  <2>3. n \in Nat /\ k \in 1..n /\ Path(c) \in Files
    BY <1>0, <2>1, AtItem
  <2>4. /\ \A i \in 1..(k - 1) : disk[plan[c][i].file] = plan[c][i].text /\ i \in 1..n /\ i # k
        /\ \A i \in (k + 1)..n : disk[plan[c][i].file] = plan[c][i].before /\ i \in 1..n /\ i # k
    BY <2>1, <2>2, <2>3 DEF Halfway, AfterPlanning
  <2>5. /\ disk'[Path(c)] = plan[c][k].before /\ \A f \in Files : f # Path(c) => disk'[f] = disk[f]
        /\ \A i \in 1..n : i # k => disk'[plan[c][i].file] = disk[plan[c][i].file]
        /\ wrote'[c] = wrote[c] \cup {Path(c)}
    BY <2>1, WritesInTurn
  <2>6. \A f \in Files : lock[f] = c /\ f \notin wrote'[c] => disk'[f] = ledger[f]
    BY <2>2, <2>5 DEF Halfway
  <2> QED
    BY <2>1, <2>2, <2>4, <2>5, <2>6 DEF Halfway
<1>9. CASE ConfirmRestored(c)
  <2>1. /\ pc[c] = "confirming" /\ pc[c] \in AfterPlanning /\ IsBatch(c) /\ Batching(c)
        /\ UNCHANGED << disk, lock, ledger, wrote, call, plan >>
    BY <1>9, <1>00 DEF ConfirmRestored, places, Batching, Steady, AfterPlanning
  <2>2. Halfway(c) /\ PlannedInTurn(c) /\ Locked(c)
    BY <1>0, <2>1 DEF SInv, BInv, InTurn
  <2>3. AfterRestoring(c, FALSE) /\ ~ failed'[c]
    <3>1. disk[Path(c)] = plan[c][pos[c]].before /\ ~ failed[c] /\ failed[c] \in BOOLEAN
      BY <1>0, <2>1, <2>2 DEF Halfway, CallsTyped
    <3>2. (failed[c] \/ disk[Path(c)] # plan[c][pos[c]].before) = FALSE
      BY <3>1
    <3> QED
      BY <1>0, <1>9, <3>2 DEF ConfirmRestored, CallsTyped
  <2>4. RestoringNext(c, FALSE)
    BY <1>0, <2>3, RollbackGoesBack DEF CallsTyped
  <2> DEFINE n == Len(plan[c])
             k == pos[c]
  <2>5. n \in Nat /\ k \in 1..n /\ Path(c) = plan[c][k].file /\ n = Count(c)
    BY <1>0, <2>1, AtItem DEF EInv, PlanFits
  <2>6. /\ \A i \in 1..(k - 1) : disk[plan[c][i].file] = plan[c][i].text
        /\ \A i \in (k + 1)..n : disk[plan[c][i].file] = plan[c][i].before
        /\ disk[plan[c][k].file] = plan[c][k].before
    BY <2>1, <2>2, <2>5 DEF Halfway, AfterPlanning
  <2>7. ASSUME NEW i \in 1..(k - 1),
               \A j \in (i + 1)..(k - 1) : plan[c][j].before = plan[c][j].text,
               pos' = [pos EXCEPT ![c] = i], Goto(c, "restoring")
        PROVE  Halfway(c)'
    <3>1. pos'[c] = i /\ pc'[c] = "restoring" /\ i \in 1..n
      BY <1>0, <2>5, <2>7 DEF Goto, CallsTyped
    <3>2. Path(c)' = plan[c][i].file
      BY <1>0, <2>1, <3>1 DEF Path, EInv, PlanFits
    <3>3. /\ \A j \in 1..(i - 1) : j \in 1..(k - 1)
          /\ \A j \in (i + 1)..n : j \in (i + 1)..(k - 1) \/ j = k \/ j \in (k + 1)..n
          /\ \A j \in (i + 1)..(k - 1) : j \in 1..(k - 1)
      BY <2>5, <3>1
    <3>4. \A j \in (i + 1)..n : disk[plan[c][j].file] = plan[c][j].before
      BY <2>6, <2>7, <3>3
    <3> QED
      BY <2>1, <2>2, <2>3, <2>6, <3>1, <3>2, <3>3, <3>4 DEF Halfway
  <2>8. ASSUME \A i \in 1..(k - 1) : plan[c][i].before = plan[c][i].text, Answer(c, "rolled_back")
        PROVE  Halfway(c)'
    <3>1. pc'[c] = "returning" /\ answer'[c] = "rolled_back"
      BY <1>0, <2>8 DEF Answer, Goto, CallsTyped
    <3>2. \A j \in 1..n : j \in 1..(k - 1) \/ j = k \/ j \in (k + 1)..n
      BY <2>5
    <3>3. \A j \in 1..n : disk[plan[c][j].file] = plan[c][j].before
      BY <2>6, <2>8, <3>2
    <3>4. ASSUME NEW f \in Files, lock[f] = c
          PROVE  disk[f] = ledger[f]
      <4>1. f \in BatchFiles(call[c].ops) /\ BatchFiles(call[c].ops) \subseteq Files
        BY <1>00, <2>1, <2>2, <3>4, CallsAreRequests DEF Locked, Steady, IsBatch
      <4>2. PICK j \in 1..Count(c) : OrderedPaths(call[c].ops)[j] = f
        BY <4>1, PathsAreTheFiles DEF Count
      <4>3. j \in 1..n /\ plan[c][j].file = f
        BY <1>0, <2>1, <2>5, <4>2 DEF EInv, PlanFits
      <4> QED
        BY <2>2, <3>3, <4>3 DEF PlannedInTurn
    <3> QED
      BY <2>1, <2>2, <2>3, <3>1, <3>4 DEF Halfway, AfterPlanning
  <2> QED
    BY <2>4, <2>7, <2>8 DEF RestoringNext
<1>10. ~ RestoreFails(c) /\ ~ ReturnBatch(c) /\ ~ Dies(c)
  BY <1>0 DEF RestoreFails, ReturnBatch, Dies, Goto, CallsTyped, Batching
<1>11. CASE PlanOperation(c) \/ ApplyDelete(c) \/ OpenForWriting(c) \/ FillFile(c) \/ UnlinkOld(c)
            \/ ReturnChange(c) \/ ApplyFails(c)
  <2>1. ~ IsBatch(c) /\ call' = call
    BY <1>11, <1>00 DEF PlanOperation, ApplyDelete, OpenForWriting, FillFile, UnlinkOld,
        ReturnChange, ApplyFails, Steady, OfChanges
  <2> QED
    BY <2>1 DEF Batching, IsBatch
<1> QED
  BY <1>1, <1>2, <1>3, <1>4, <1>5, <1>6, <1>7, <1>8, <1>9, <1>10, <1>11 DEF Step, BatchStep, ChangeStep

(* What a batch leaves behind that returns, on the disk and in the ledger. *)
LEMMA ReturnsInTurn ==
    ASSUME SInv, calm, NEW c \in Callers, ReturnBatch(c), answer[c] = "success", ~ call[c].dry,
           NEW f \in BatchFiles(call[c].ops)
    PROVE  /\ f \in Files /\ disk[f] = Replayed(ledger, call[c])[f]
           /\ IsText(Replayed(ledger, call[c])[f])
<1>1. pc[c] = "returning" /\ IsBatch(c) /\ Batching(c)
  BY DEF ReturnBatch, Batching
<1>2. Locked(c) /\ PlanFits(c) /\ PlannedInTurn(c) /\ Halfway(c)
  BY <1>1 DEF SInv, BInv, EInv, InTurn
<1>3. BatchFiles(call[c].ops) \subseteq Files
  BY <1>1, CallsAreRequests DEF SInv, EInv, Steady, IsBatch
<1>4. PICK i \in 1..Len(plan[c]) : plan[c][i].file = f
  <2>1. Len(plan[c]) = Count(c)
    BY <1>1, <1>2 DEF Locked
  <2>2. PICK i \in 1..Count(c) : OrderedPaths(call[c].ops)[i] = f
    BY <1>3, PathsAreTheFiles DEF Count
  <2> QED
    BY <1>1, <1>2, <2>1, <2>2 DEF PlanFits
<1>5. disk[f] = plan[c][i].text /\ plan[c][i].text = Made(call[c], f, ledger[f]) /\ IsText(plan[c][i].text)
  BY <1>1, <1>2, <1>4 DEF Halfway, PlannedInTurn
<1>6. Replayed(ledger, call[c])[f] = Made(call[c], f, ledger[f])
  BY <1>3 DEF Replayed, Made
<1> QED
  BY <1>3, <1>5, <1>6

(* The files nobody holds. *)
LEMMA UnlockedStay ==
    ASSUME SInv, NEW c \in Callers, Step(c), calm'
    PROVE  Unlocked'
<1>0. EInv /\ calm /\ c # None /\ Unlocked
  BY CalmMoves, NoneIsNobody DEF SInv, BInv
<1> SUFFICES ASSUME NEW f \in Files, lock'[f] = None
             PROVE  disk'[f] = ledger'[f]
  BY DEF Unlocked
<1>1. CASE lock[f] = None
  <2>1. disk'[f] = disk[f] /\ ledger'[f] = ledger[f]
    BY <1>0, <1>1, LockedStay
  <2> QED
    BY <1>0, <1>1, <2>1 DEF Unlocked
<1>2. CASE lock[f] # None
  <2>1. lock[f] = c /\ (ReturnBatch(c) \/ Dies(c))
    <3>1. lock \in [Files -> Callers \cup {None}]
      BY <1>0 DEF EInv, Shapes, PlacesTyped
    <3> QED
      BY <1>0, <1>2, <3>1, LocksMove
  <2>2. IsBatch(c) /\ Batching(c) /\ Halfway(c) /\ Locked(c)
    <3>1. IsBatch(c) /\ Batching(c)
      BY <1>0, <2>1 DEF EInv, LocksAreOfBatches, Batching
    <3> QED
      BY <1>0, <3>1 DEF SInv, BInv, InTurn
  <2>3. CASE ReturnBatch(c) /\ answer[c] = "success" /\ ~ call[c].dry
    <3>1. f \in BatchFiles(call[c].ops)
      BY <2>1, <2>2 DEF Locked
    <3>2. disk' = disk /\ ledger' = Replayed(ledger, call[c])
      BY <2>3 DEF ReturnBatch
    <3>3. disk[f] = Replayed(ledger, call[c])[f]
      BY <1>0, <2>3, <3>1, ReturnsInTurn
    <3> QED
      BY <3>2, <3>3
  <2>4. CASE ReturnBatch(c) /\ ~ (answer[c] = "success" /\ ~ call[c].dry)
    <3>1. disk' = disk /\ ledger' = ledger /\ pc[c] = "returning"
      BY <2>4 DEF ReturnBatch
    <3>2. disk[f] = ledger[f]
      BY <2>1, <2>2, <2>4, <3>1 DEF Halfway
    <3> QED
      BY <3>1, <3>2
  <2>5. CASE Dies(c)
    <3>1. disk' = disk /\ ledger' = ledger /\ wrote[c] = {}
      BY <2>5 DEF Dies
    <3> QED
      BY <2>1, <2>2, <3>1 DEF Halfway
  <2> QED
    BY <2>1, <2>3, <2>4, <2>5
<1> QED
  BY <1>1, <1>2

(* The ledger holds texts. *)
LEMMA LedgerHoldsTexts ==
    ASSUME SInv, NEW c \in Callers, Step(c), calm'
    PROVE  \A f \in Files : IsText(ledger'[f])
<1>0. EInv /\ calm /\ \A f \in Files : IsText(ledger[f])
  BY CalmMoves DEF SInv, BInv
<1>1. CASE ledger' = ledger
  BY <1>0, <1>1
<1>2. CASE ReturnBatch(c) /\ answer[c] = "success" /\ ~ call[c].dry /\ ledger' = Replayed(ledger, call[c])
  <2>1. \A f \in BatchFiles(call[c].ops) : IsText(ledger'[f])
    BY <1>0, <1>2, ReturnsInTurn
  <2>2. \A f \in Files \ BatchFiles(call[c].ops) : ledger'[f] = ledger[f]
    BY <1>2 DEF Replayed
  <2> QED
    BY <1>0, <2>1, <2>2
<1> QED
  BY <1>0, <1>1, <1>2, LedgerMoves

(* As long as only complete batches change files, no patch is at work on one. *)
LEMMA NoneFills ==
    ASSUME SInv, NEW c \in Callers, Step(c), calm'
    PROVE  pc'[c] \notin {"filling", "unlinking"}
<1>0. EInv /\ CallsTyped /\ calm /\ pc[c] \notin {"filling", "unlinking"}
  BY CalmMoves DEF SInv, BInv, EInv, Shapes
<1> USE DEF Goto, Answer, Advance, CallsTyped
<1>1. ASSUME NEW request \in Calls, Call(c, request)
      PROVE  pc'[c] \notin {"filling", "unlinking"}
  BY <1>0, <1>1 DEF Call
<1>2. CASE LockPath(c)
  BY <1>0, <1>2 DEF LockPath
<1>3. CASE PlanPath(c)
  BY <1>0, <1>3 DEF PlanPath
<1>4. CASE RecheckPath(c)
  BY <1>0, <1>4 DEF RecheckPath
<1>5. CASE SkipPath(c)
  BY <1>0, <1>5 DEF SkipPath
<1>6. CASE WritePath(c) \/ WriteFails(c) \/ RestorePath(c)
  BY <1>0, <1>6 DEF WritePath, WriteFails, RestorePath
<1>7. CASE VerifyPath(c)
  BY <1>0, <1>7 DEF VerifyPath
<1>8. CASE ConfirmRestored(c) \/ RestoreFails(c)
  <2>1. PICK bad : AfterRestoring(c, bad)
    BY <1>8 DEF ConfirmRestored, RestoreFails
  <2> QED
    BY <1>0, <2>1 DEF AfterRestoring
<1>9. CASE ReturnBatch(c) \/ ReturnChange(c) \/ ApplyFails(c) \/ Dies(c)
  BY <1>0, <1>9 DEF ReturnBatch, ReturnChange, ApplyFails, Dies
<1>10. CASE PlanOperation(c)
  BY <1>0, <1>10 DEF PlanOperation
<1>11. CASE ApplyDelete(c)
  BY <1>0, <1>11 DEF ApplyDelete, Unlink, NextItem
<1>12. ~ OpenForWriting(c) /\ ~ FillFile(c) /\ ~ UnlinkOld(c)
  BY <1>0 DEF OpenForWriting, FillFile, UnlinkOld
<1> QED
  BY <1>1, <1>2, <1>3, <1>4, <1>5, <1>6, <1>7, <1>8, <1>9, <1>10, <1>11, <1>12 DEF Step, BatchStep, ChangeStep

-----------------------------------------------------------------------------
(* The order of the batches is kept from the start. *)
LEMMA StartIsInTurn == Init => SInv
<1> SUFFICES ASSUME Init
             PROVE  SInv
  OBVIOUS
<1>1. EInv
  BY StartIsSound
<1>2. \A c \in Callers : ~ Batching(c) /\ pc[c] = "idle"
  BY DEF Init, Batching
<1>3. \A f \in Files : disk[f] = ledger[f] /\ IsText(ledger[f])
  <2>1. \A f \in Files : \E n \in Nat : DOMAIN FirstDisk[f] = 1..n
    BY TextsAreOfLines
  <2> QED
    BY <2>1 DEF Init, IsText
<1> QED
  BY <1>1, <1>2, <1>3 DEF SInv, BInv, InTurn, Unlocked

(* Every step keeps it ... *)
LEMMA StepsStayInTurn == SInv /\ [Next]_vars => SInv'
<1> SUFFICES ASSUME SInv, [Next]_vars
             PROVE  SInv'
  OBVIOUS
<1>1. EInv'
  BY StepsAreSound DEF SInv
<1>2. ASSUME NEW c \in Callers, Step(c)
      PROVE  BInv'
  <2>1. ASSUME NEW d \in Callers, Batching(d)'
        PROVE  Locked(d)'
    BY <1>2, <2>1, OwnLocks, OthersStayInTurn
  <2>2. ASSUME calm', NEW d \in Callers
        PROVE  InTurn(d)' /\ pc'[d] \notin {"filling", "unlinking"}
    <3>1. CASE d = c
      BY <1>2, <2>2, <3>1, OwnPlanInTurn, OwnHalfway, NoneFills DEF InTurn
    <3>2. CASE d # c
      <4>1. InTurn(d)'
        BY <1>2, <2>2, <3>2, OthersStayInTurn DEF InTurn
      <4>2. EInv /\ calm
        BY <1>2, <2>2, CalmMoves DEF SInv
      <4>3. pc'[d] = pc[d] /\ pc[d] \notin {"filling", "unlinking"}
        BY <1>2, <3>2, <4>2, OthersKeepCalls DEF LeavesCalls, SInv, BInv
      <4> QED
        BY <4>1, <4>3
    <3> QED
      BY <3>1, <3>2
  <2>3. calm' => Unlocked' /\ \A f \in Files : IsText(ledger'[f])
    BY <1>2, UnlockedStay, LedgerHoldsTexts
  <2> QED
    BY <2>1, <2>2, <2>3 DEF BInv
<1>3. ASSUME UNCHANGED vars
      PROVE  BInv'
  <2> USE <1>3 DEF vars
  <2>1. ASSUME NEW c \in Callers
        PROVE  /\ Batching(c)' = Batching(c) /\ Locked(c)' = Locked(c)
               /\ PlannedInTurn(c)' = PlannedInTurn(c) /\ Halfway(c)' = Halfway(c)
    <3>1. Batching(c)' = Batching(c)
      BY DEF Batching, IsBatch
    <3>2. Locked(c)' = Locked(c)
      BY DEF Locked, Count
    <3>3. PlannedInTurn(c)' = PlannedInTurn(c)
      BY DEF PlannedInTurn, Made
    <3>4. Halfway(c)' = Halfway(c)
      BY DEF Halfway, Path
    <3> QED
      BY <3>1, <3>2, <3>3, <3>4
  <2>2. BInv
    BY DEF SInv
  <2>3. Unlocked' = Unlocked
    BY DEF Unlocked
  <2>4. pc' = pc /\ calm' = calm /\ ledger' = ledger
    OBVIOUS
  <2>5. ASSUME NEW c \in Callers, Batching(c)'
        PROVE  Locked(c)'
    BY <2>1, <2>2, <2>5 DEF BInv
  <2>6. ASSUME calm', NEW c \in Callers
        PROVE  InTurn(c)' /\ pc'[c] \notin {"filling", "unlinking"}
    <3>1. InTurn(c) /\ pc[c] \notin {"filling", "unlinking"}
      BY <2>2, <2>4, <2>6 DEF BInv
    <3>2. InTurn(c)'
      BY <2>1, <3>1 DEF InTurn
    <3> QED
      BY <2>4, <3>1, <3>2
  <2>7. calm' => Unlocked' /\ \A f \in Files : IsText(ledger'[f])
    BY <2>2, <2>3, <2>4 DEF BInv
  <2> QED
    BY ONLY <2>5, <2>6, <2>7 DEF BInv
<1> QED
  BY <1>1, <1>2, <1>3 DEF SInv, Next, Step

(* ... so that it always holds. *)
LEMMA EditsStayInTurn == Spec => []SInv
BY StartIsInTurn, StepsStayInTurn, PTL DEF Spec

(* A batch of replace_files overwrites neither the replacements of another *)
(* batch nor what others wrote before its recheck: as long as nobody but   *)
(* batches has changed files, every file nobody holds is what the batches  *)
(* answered with success make of it in the order in which they returned.   *)
THEOREM BatchesInOrder == Spec => []ChangesSeen
<1>1. SInv => BatchesSerial
  BY DEF SInv, BInv, Unlocked, BatchesSerial
<1>2. Spec => []SInv
  BY EditsStayInTurn
<1>3. Spec => []OverwritesOnlyLateChanges
  BY OverwritesAreLate
<1> QED
  BY <1>1, <1>2, <1>3, PTL DEF ChangesSeen

-----------------------------------------------------------------------------
(* The files of a patch.                                                   *)

(* A patch is at work. *)
Patching(c) == call[c] # None /\ call[c].tool = "patch" /\ pc[c] \in OfChanges \cup {"planning", "returning"}

(* Nobody else has changed the files of its i-th operation. *)
Alone(c, i) == OpFiles(call[c].ops[i]) \cap late[c] = {}

(* What a planned change makes of a disk. *)
Changed(p, f) == IF f = p.file THEN IF p.kind = "delete" THEN Absent ELSE p.text ELSE Absent

(* A planned change is one to the files its operation names. *)
OfOperation(p, op) ==
  /\ p.ok = TRUE /\ p.kind \in {"add", "delete", "update", "move"} /\ {p.file, p.from} = OpFiles(op)
  /\ p.kind = "move" <=> p.file # p.from

(* The files of its i-th operation are changed ... *)
IsNew(c, i) == \A f \in OpFiles(call[c].ops[i]) : disk[f] = Changed(plan[c][i], f)
(* ... or as they were. *)
IsBase(c, i) == \A f \in OpFiles(call[c].ops[i]) : disk[f] = base[c][f]

(* A patch is planned from the disk it has found. *)
PatchPlanned(c) ==
  /\ Len(plan[c]) <= Len(call[c].ops)
  /\ pc[c] = "planning" => pos[c] <= Len(call[c].ops)
  /\ pc[c] \in OfChanges => Len(plan[c]) = Len(call[c].ops) /\ ~ call[c].dry
  /\ pc[c] = "returning" /\ answer[c] = "success" => Len(plan[c]) = Len(call[c].ops)
  /\ \A i \in 1..Len(plan[c]) : /\ OfOperation(plan[c][i], call[c].ops[i])
                                /\ Alone(c, i) => plan[c][i] = PlanOp(base[c], call[c].ops[i])

(* It changes the files of one operation after the other. *)
PatchApplied(c) ==
  /\ pc[c] = "planning" => \A f \in Files \ late[c] : disk[f] = base[c][f]
  /\ pc[c] = "filling" => Item(c).kind # "delete"
  /\ pc[c] = "unlinking" => Item(c).kind = "move"
  /\ Distinct(call[c].ops) =>
       /\ pc[c] \in OfChanges =>
            /\ \A i \in 1..(pos[c] - 1) : Alone(c, i) => IsNew(c, i)
            /\ \A i \in (pos[c] + 1)..Len(plan[c]) : Alone(c, i) => IsBase(c, i)
            /\ Alone(c, pos[c]) =>
                 /\ pc[c] = "applying" => IsBase(c, pos[c])
                 /\ pc[c] \in {"filling", "unlinking"} /\ Item(c).from # Item(c).file => disk[Item(c).from] = base[c][Item(c).from]
                 /\ pc[c] = "unlinking" => disk[Item(c).file] = Item(c).text
       /\ PatchDone(c) => \A i \in 1..Len(plan[c]) : Alone(c, i) => IsNew(c, i)

(* An open file has been replaced by somebody else. *)
OrphansKnown ==
  \A f \in Files : \A c \in orphaned[f] : pc[c] = "filling" /\ Item(c).file = f /\ f \in late[c]

(* The invariant behind PatchIsSequential, next to that of the calls. *)
PInv ==
  /\ OrphansKnown
  /\ \A c \in Callers : base[c] = [f \in Files |-> base[c][f]]
  /\ \A c \in Callers : Patching(c) => PatchPlanned(c) /\ PatchApplied(c)

-----------------------------------------------------------------------------
(* One operation after the other.                                          *)

(* What one operation of a patch makes of a disk. *)
After(e, op) ==
  LET p == PlanOp(e, op)
  IN  CASE ~p.ok -> e
        [] p.ok /\ p.kind = "delete" -> [e EXCEPT ![p.file] = Absent]
        [] p.ok /\ p.kind = "move" -> [e EXCEPT ![p.file] = p.text, ![p.from] = Absent]
        [] OTHER -> [e EXCEPT ![p.file] = p.text]

(* A patch is the last of the disks its operations make one after the other. *)
LEMMA OperationsOneByOne ==
    ASSUME NEW n \in Nat, NEW ops, DOMAIN ops = 1..n, NEW start
    PROVE  \E s : /\ s[0] = start
                  /\ \A k \in 1..n : s[k] = After(s[k - 1], ops[k])
                  /\ Sequentially(start, ops) = s[n]
<1> DEFINE Folds(g, m) == g = [s \in SUBSET (1..m) |->
               IF s = {} THEN start ELSE After(g[s \ {Max(s)}], ops[Max(s)])]
           Missing == {m \in Nat : m <= n /\ ~ \E g : Folds(g, m)}
<1>1. ASSUME NEW m \in Nat, NEW s \in SUBSET (1..(m + 1)), s # {}
      PROVE  s \ {Max(s)} \in SUBSET (1..m)
  <2>1. Max(s) \in s /\ \A k \in s : k <= Max(s)
    <3>1. m + 1 \in Nat
      OBVIOUS
    <3> QED
      BY <1>1, <3>1, LargestOf
  <2> SUFFICES ASSUME NEW k \in s \ {Max(s)}
               PROVE  k \in 1..m
    OBVIOUS
  <2>2. k \in 1..(m + 1) /\ Max(s) \in 1..(m + 1) /\ k <= Max(s) /\ k # Max(s)
    BY <2>1
  <2> QED
    BY ONLY <2>2, m \in Nat
<1>2. \E g : Folds(g, 0)
  <2> DEFINE g == [s \in SUBSET (1..0) |-> start]
  <2>1. \A s \in SUBSET (1..0) : s = {}
    OBVIOUS
  <2>2. Folds(g, 0)
    BY <2>1
  <2> QED
    BY <2>2
<1>3. ASSUME NEW m \in Nat, \E g : Folds(g, m)
      PROVE  \E h : Folds(h, m + 1)
  <2>1. PICK g : Folds(g, m)
    BY <1>3
  <2> DEFINE h == [s \in SUBSET (1..(m + 1)) |->
               IF s = {} THEN start ELSE After(g[s \ {Max(s)}], ops[Max(s)])]
  <2>2. \A s \in SUBSET (1..m) : s \in SUBSET (1..(m + 1))
    OBVIOUS
  <2>3. \A s \in SUBSET (1..m) : h[s] = g[s]
    BY <2>1, <2>2
  <2>4. \A s \in SUBSET (1..(m + 1)) : s # {} => h[s \ {Max(s)}] = g[s \ {Max(s)}]
    BY <1>1, <2>3
  <2>5. Folds(h, m + 1)
    BY <2>4
  <2> QED
    BY <2>5
<1>4. Missing = {}
  <2> SUFFICES ASSUME Missing # {}
               PROVE  FALSE
    OBVIOUS
  <2>1. PICK m \in Missing : \A k \in Missing : m <= k
    BY LeastNatural
  <2>2. m \in Nat /\ m <= n /\ ~ \E g : Folds(g, m)
    BY <2>1
  <2> HIDE DEF Folds
  <2>3. m # 0
    BY <1>2, <2>2
  <2>4. m - 1 \in Nat /\ m - 1 \notin Missing /\ m - 1 <= n /\ (m - 1) + 1 = m
    BY <2>1, <2>2, <2>3
  <2>5. \E g : Folds(g, m - 1)
    BY <2>4
  <2> QED
    BY <1>3, <2>2, <2>4, <2>5
<1>5. \E g : Folds(g, n)
  <2>1. n \notin Missing
    BY <1>4
  <2> HIDE DEF Folds
  <2> QED
    BY <2>1
<1> DEFINE iter == CHOOSE g : Folds(g, n)
<1>6. Folds(iter, n)
  BY <1>5
<1>7. Sequentially(start, ops) = iter[1..n]
  BY DEF Sequentially, After, FoldLeft, MapThenFoldSet
<1> DEFINE t == [k \in 0..n |-> iter[1..k]]
<1>8. t[0] = start /\ t[n] = iter[1..n]
  <2> HIDE DEF iter
  <2>1. 0 \in 0..n /\ n \in 0..n /\ 1..0 = {} /\ 1..0 \in SUBSET (1..n)
    OBVIOUS
  <2>2. iter[1..0] = start
    BY <1>6, <2>1
  <2> QED
    BY <2>1, <2>2
<1>9. ASSUME NEW k \in 1..n
      PROVE  t[k] = After(t[k - 1], ops[k])
  <2>1. Max(1..k) = k
    <3>0. k \in Nat /\ 1..k # {} /\ k \in 1..k
      OBVIOUS
    <3>1. Max(1..k) \in 1..k /\ k <= Max(1..k)
      BY <3>0, LargestOf
    <3> QED
      BY <3>1
  <2>2. 1..k \in SUBSET (1..n) /\ k - 1 \in 0..n /\ k \in 0..n
    OBVIOUS
  <2>4. 1..k # {} /\ (1..k) \ {k} = 1..(k - 1)
    OBVIOUS
  <2> HIDE DEF iter
  <2>3. iter[1..k] = After(iter[1..(k - 1)], ops[k])
    BY <1>6, <2>1, <2>2, <2>4
  <2> QED
    BY <2>2, <2>3
<1> QED
  BY <1>7, <1>8, <1>9

(* An operation of a patch. *)
IsOperation(op) == op.kind \in {"add", "delete", "update"} /\ OpFiles(op) \subseteq Files
(* A disk. *)
IsDisk(d) == d = [f \in Files |-> d[f]]

(* What an operation plans depends on its files alone ... *)
LEMMA PlansLookAtTheirFiles ==
    ASSUME NEW op, IsOperation(op), NEW d, NEW e, \A f \in OpFiles(op) : d[f] = e[f]
    PROVE  PlanOp(d, op) = PlanOp(e, op)
<1>1. CASE op.kind = "update"
  <2>1. d[op.file] = e[op.file] /\ d[op.to] = e[op.to]
    BY <1>1 DEF OpFiles
  <2>2. PlanUpdate(d, op) = PlanUpdate(e, op)
    BY <2>1 DEF PlanUpdate
  <2> QED
    BY <1>1, <2>2 DEF PlanOp
<1>2. CASE op.kind = "add" \/ op.kind = "delete"
  <2>1. d[op.file] = e[op.file]
    BY <1>2 DEF OpFiles
  <2>2. PlanAdd(d, op) = PlanAdd(e, op) /\ PlanDelete(d, op) = PlanDelete(e, op)
    BY <2>1 DEF PlanAdd, PlanDelete
  <2> QED
    BY <1>2, <2>2 DEF PlanOp
<1> QED
  BY <1>1, <1>2 DEF IsOperation

(* ... and is a refusal or a change to them. *)
LEMMA PlansAreOfTheirFiles ==
    ASSUME NEW op, IsOperation(op), NEW d
    PROVE  PlanOp(d, op).ok = FALSE \/ OfOperation(PlanOp(d, op), op)
<1>1. CASE op.kind = "update"
  <2>1. PlanOp(d, op) = PlanUpdate(d, op) /\ OpFiles(op) = {op.file, op.to}
    BY <1>1 DEF PlanOp, OpFiles
  <2>2. PlanUpdate(d, op).ok = FALSE \/ OfOperation(PlanUpdate(d, op), op)
    BY <2>1 DEF PlanUpdate, Refusal, Change, OfOperation
  <2> QED
    BY <2>1, <2>2
<1>2. CASE op.kind = "add"
  <2>1. PlanOp(d, op) = PlanAdd(d, op) /\ OpFiles(op) = {op.file}
    BY <1>2 DEF PlanOp, OpFiles
  <2>2. PlanAdd(d, op).ok = FALSE \/ OfOperation(PlanAdd(d, op), op)
    BY <2>1 DEF PlanAdd, Refusal, Change, OfOperation
  <2> QED
    BY <2>1, <2>2
<1>3. CASE op.kind = "delete"
  <2>1. PlanOp(d, op) = PlanDelete(d, op) /\ OpFiles(op) = {op.file}
    BY <1>3 DEF PlanOp, OpFiles
  <2>2. PlanDelete(d, op).ok = FALSE \/ OfOperation(PlanDelete(d, op), op)
    BY <2>1 DEF PlanDelete, Refusal, Change, OfOperation
  <2> QED
    BY <2>1, <2>2
<1> QED
  BY <1>1, <1>2, <1>3 DEF IsOperation

(* An operation changes its files as it has planned and no others. *)
LEMMA OperationsChangeTheirFiles ==
    ASSUME NEW op, IsOperation(op), NEW e, e = [f \in Files |-> e[f]]
    PROVE  LET p == PlanOp(e, op)
           IN  /\ After(e, op) = [f \in Files |-> After(e, op)[f]]
               /\ \A f \in Files \ OpFiles(op) : After(e, op)[f] = e[f]
               /\ p.ok = TRUE => \A f \in OpFiles(op) : After(e, op)[f] = Changed(p, f)
<1> DEFINE p == PlanOp(e, op)
           a == After(e, op)
<1>1. p.ok = FALSE \/ OfOperation(p, op)
  BY PlansAreOfTheirFiles
<1>2. OpFiles(op) \subseteq Files
  BY DEF IsOperation
<1>3. CASE p.ok = FALSE
  <2>1. a = e
    BY <1>3 DEF After
  <2> QED
    BY <1>3, <2>1
<1>4. CASE p.ok = TRUE /\ p.kind = "delete"
  <2>1. a = [e EXCEPT ![p.file] = Absent]
    BY <1>4 DEF After
  <2>2. OpFiles(op) = {p.file}
    BY <1>1, <1>4 DEF OfOperation
  <2> HIDE DEF p, a
  <2>3. \A f \in Files : a[f] = IF f = p.file THEN Absent ELSE e[f]
    BY <2>1
  <2>4. a = [f \in Files |-> a[f]]
    BY <2>1
  <2>5. \A f \in OpFiles(op) : a[f] = Changed(p, f)
    BY <1>2, <1>4, <2>2, <2>3 DEF Changed
  <2> QED
    BY <1>2, <2>2, <2>3, <2>4, <2>5 DEF p, a
<1>5. CASE p.ok = TRUE /\ p.kind = "move"
  <2>1. a = [e EXCEPT ![p.file] = p.text, ![p.from] = Absent]
    BY <1>5 DEF After
  <2>2. OpFiles(op) = {p.file, p.from} /\ p.file # p.from
    BY <1>1, <1>5 DEF OfOperation
  <2> HIDE DEF p, a
  <2>3. \A f \in Files : a[f] = IF f = p.from THEN Absent ELSE IF f = p.file THEN p.text ELSE e[f]
    BY <1>2, <2>1, <2>2
  <2>4. a = [f \in Files |-> a[f]]
    BY <2>1
  <2>5. \A f \in OpFiles(op) : a[f] = Changed(p, f)
    BY <1>2, <1>5, <2>2, <2>3 DEF Changed
  <2>6. \A f \in Files \ OpFiles(op) : a[f] = e[f]
    BY <2>2, <2>3
  <2> QED
    BY <2>4, <2>5, <2>6 DEF p, a
<1>6. CASE p.ok = TRUE /\ p.kind \notin {"delete", "move"}
  <2>1. a = [e EXCEPT ![p.file] = p.text]
    BY <1>6 DEF After
  <2>2. OpFiles(op) = {p.file}
    BY <1>1, <1>6 DEF OfOperation
  <2> HIDE DEF p, a
  <2>3. \A f \in Files : a[f] = IF f = p.file THEN p.text ELSE e[f]
    BY <2>1
  <2>4. a = [f \in Files |-> a[f]]
    BY <2>1
  <2>5. \A f \in OpFiles(op) : a[f] = Changed(p, f)
    BY <1>2, <1>6, <2>2, <2>3 DEF Changed
  <2> QED
    BY <1>2, <2>2, <2>3, <2>4, <2>5 DEF p, a
<1>7. p.ok = FALSE \/ p.ok = TRUE
  BY <1>1 DEF OfOperation
<1> HIDE DEF p, a
<1> QED
  BY <1>3, <1>4, <1>5, <1>6, <1>7 DEF p, a

(* An operation of a patch arrives: its changes are those of the whole patch. *)
Arrives(d, ops, i, f) == Sequentially(d, ops)[f] = Changed(PlanOp(d, ops[i]), f)

(* Operations that name every file once: each finds its files as they were *)
(* and nobody touches them afterwards.                                     *)
LEMMA DistinctOperations ==
    ASSUME NEW n \in Nat, NEW ops, DOMAIN ops = 1..n, \A i \in 1..n : IsOperation(ops[i]),
           Distinct(ops), NEW d, IsDisk(d),
           NEW i \in 1..n, PlanOp(d, ops[i]).ok = TRUE, NEW f \in OpFiles(ops[i])
    PROVE  Arrives(d, ops, i, f)
<1>1. PICK s : /\ s[0] = d
               /\ \A k \in 1..n : s[k] = After(s[k - 1], ops[k])
               /\ Sequentially(d, ops) = s[n]
  BY OperationsOneByOne
<1> DEFINE g(k, h) == IF i <= k THEN Changed(PlanOp(d, ops[i]), h) ELSE d[h]
           Good(k) == s[k] = [h \in Files |-> s[k][h]] /\ \A h \in OpFiles(ops[i]) : s[k][h] = g(k, h)
           Wrong == {k \in Nat : k <= n /\ ~ Good(k)}
<1>2. Good(0)
  <2>1. ~ (i <= 0)
    OBVIOUS
  <2> QED
    BY <1>1, <2>1 DEF IsDisk
<1>3. ASSUME NEW k \in 1..n, Good(k - 1)
      PROVE  Good(k)
  <2> DEFINE e == s[k - 1]
  <2>1. IsOperation(ops[k]) /\ e = [h \in Files |-> e[h]] /\ s[k] = After(e, ops[k])
    BY <1>1, <1>3
  <2> HIDE DEF e
  <2>2. /\ s[k] = [h \in Files |-> s[k][h]]
        /\ \A h \in Files \ OpFiles(ops[k]) : s[k][h] = e[h]
        /\ PlanOp(e, ops[k]).ok = TRUE => \A h \in OpFiles(ops[k]) : s[k][h] = Changed(PlanOp(e, ops[k]), h)
    <3> DEFINE op == ops[k]
    <3>1. IsOperation(op) /\ e = [h \in Files |-> e[h]]
      BY <2>1
    <3> HIDE DEF op
    <3>2. /\ After(e, op) = [h \in Files |-> After(e, op)[h]]
          /\ \A h \in Files \ OpFiles(op) : After(e, op)[h] = e[h]
          /\ PlanOp(e, op).ok = TRUE => \A h \in OpFiles(op) : After(e, op)[h] = Changed(PlanOp(e, op), h)
      BY ONLY <3>1, OperationsChangeTheirFiles
    <3> QED
      BY <2>1, <3>2 DEF op
  <2>3. OpFiles(ops[i]) \subseteq Files
    BY DEF IsOperation
  <2>4. CASE k = i
    <3>1. ~ (i <= k - 1) /\ i <= k
      BY <2>4
    <3>2. \A h \in OpFiles(ops[i]) : e[h] = d[h]
      BY <1>3, <3>1 DEF e
    <3>3. PlanOp(e, ops[i]) = PlanOp(d, ops[i])
      BY <3>2, PlansLookAtTheirFiles
    <3> QED
      BY <2>2, <2>4, <3>1, <3>3
  <2>5. CASE k # i
    <3>1. (i <= k - 1) <=> (i <= k)
      BY <2>5
    <3>2. OpFiles(ops[i]) \cap OpFiles(ops[k]) = {}
      BY <2>5 DEF Distinct
    <3>3. \A h \in OpFiles(ops[i]) : s[k][h] = e[h]
      BY <2>2, <2>3, <3>2
    <3>4. \A h \in OpFiles(ops[i]) : e[h] = g(k, h)
      BY <1>3, <3>1 DEF e
    <3> QED
      BY <2>2, <3>3, <3>4
  <2> QED
    BY <2>4, <2>5
<1> HIDE DEF Good
<1>4. Wrong = {}
  <2> SUFFICES ASSUME Wrong # {}
               PROVE  FALSE
    OBVIOUS
  <2>1. PICK k \in Wrong : \A j \in Wrong : k <= j
    BY LeastNatural
  <2>2. k \in Nat /\ k <= n /\ ~ Good(k) /\ k # 0
    BY <1>2, <2>1
  <2>3. k - 1 \in Nat /\ k - 1 <= n /\ k - 1 \notin Wrong /\ k \in 1..n
    BY <2>1, <2>2
  <2> QED
    BY <1>3, <2>2, <2>3
<1>5. Good(n)
  BY <1>4
<1> QED
  BY <1>1, <1>5 DEF Good, Arrives

(* ... and the two together. *)
TInv == EInv /\ PInv

(* What is known of a patch. *)
LEMMA PatchFacts ==
    ASSUME EInv, NEW c \in Callers, Patching(c)
    PROVE  /\ call[c] \in Calls /\ ~ IsBatch(c) /\ Len(call[c].ops) \in Nat
           /\ DOMAIN call[c].ops = 1..Len(call[c].ops)
           /\ \A i \in 1..Len(call[c].ops) : IsOperation(call[c].ops[i])
           /\ plan[c] \in Seq(Range(plan[c])) /\ Len(plan[c]) \in Nat /\ pos[c] \in Nat \ {0}
           /\ pc[c] \in OfChanges => pos[c] \in 1..Len(plan[c])
           /\ late[c] \subseteq Files
<1>1. call[c] \in Calls /\ ~ IsBatch(c)
  BY DEF Patching, EInv, Steady, IsBatch, OfChanges
<1>2. call[c].ops \in Seq(Range(call[c].ops))
  BY <1>1, CallsAreRequests DEF Patching
<1>3. Len(call[c].ops) \in Nat /\ DOMAIN call[c].ops = 1..Len(call[c].ops)
  BY <1>2
<1>4. \A i \in 1..Len(call[c].ops) : IsOperation(call[c].ops[i])
  BY <1>1, <1>3, CallsAreRequests DEF Patching, IsOperation
<1>5. plan[c] \in Seq(Range(plan[c])) /\ pos[c] \in Nat \ {0} /\ late[c] \subseteq Files
  BY DEF EInv, PlanFits, Shapes, CallsTyped, HistoryTyped
<1>6. Len(plan[c]) \in Nat
  BY <1>5
<1>7. pc[c] \in OfChanges => pos[c] \in 1..Len(plan[c])
  BY <1>5, <1>6 DEF EInv, PlanFits
<1> QED
  BY <1>1, <1>3, <1>4, <1>5, <1>6, <1>7

(* Who remembers which disk. *)
LEMMA BasesMove ==
    ASSUME EInv, NEW c \in Callers, Step(c), NEW d \in Callers
    PROVE  base'[d] = base[d] \/ (d = c /\ base'[d] = disk)
<1>1. base = [e \in Callers |-> base[e]]
  BY DEF EInv, Shapes, PlacesTyped
<1> QED
  BY <1>1 DEF Step, BatchStep, ChangeStep, Call, LockPath, PlanPath, RecheckPath, SkipPath, WritePath,
       VerifyPath, RestorePath, ConfirmRestored, ReturnBatch, PlanOperation, ApplyDelete, Unlink,
       OpenForWriting, FillFile, UnlinkOld, ReturnChange, WriteFails, RestoreFails, ApplyFails, Dies, history

(* Whose open files a step replaces. *)
Orphans(c) ==
  \A f \in Files :
    /\ c \notin orphaned'[f]
    /\ \A d \in Callers \ {c} : d \in orphaned'[f] => d \in orphaned[f] \/ (d \in Filling(f) /\ f \in late'[d])

(* A step replaces files that others have open and tells them. *)
LEMMA OrphansMove ==
    ASSUME TInv, NEW c \in Callers, Step(c)
    PROVE  Orphans(c)
<1>0. EInv /\ OrphansKnown /\ orphaned \in [Files -> SUBSET Callers]
  BY DEF TInv, EInv, PInv, Shapes, PlacesTyped
<1>00. pc[c] # "filling" => \A f \in Files : c \notin orphaned[f] /\ c \notin Filling(f)
  BY <1>0 DEF OrphansKnown, Filling
<1>1. ASSUME pc[c] # "filling", NEW f \in Files, NEW text, ReplaceFile(c, f, text)
      PROVE  Orphans(c)
  <2>1. orphaned' = [orphaned EXCEPT ![f] = @ \cup Filling(f)]
        /\ late' = [d \in Callers |-> IF d = c THEN late[d] ELSE late[d] \cup {f}]
    BY <1>1 DEF ReplaceFile, Noted
  <2> QED
    BY <1>0, <1>00, <1>1, <2>1 DEF Orphans
<1>2. ASSUME pc[c] # "filling", orphaned' = orphaned
      PROVE  Orphans(c)
  BY <1>00, <1>2 DEF Orphans
<1>3. ASSUME pc[c] # "filling", NEW f \in Files, Unlink(c, f)
      PROVE  Orphans(c)
  <2>1. CASE disk[f] = Absent
    BY <1>2, <1>3, <2>1 DEF Unlink
  <2>2. CASE disk[f] # Absent
    <3>1. orphaned' = [orphaned EXCEPT ![f] = @ \cup Filling(f)]
          /\ late' = [d \in Callers |-> IF d = c THEN late[d] ELSE late[d] \cup {f}]
      BY <1>3, <2>2 DEF Unlink, Noted
    <3> QED
      BY <1>0, <1>00, <1>3, <3>1 DEF Orphans
  <2> QED
    BY <2>1, <2>2
<1>4. CASE WritePath(c) \/ WriteFails(c) \/ RestorePath(c)
  <2>1. pc[c] # "filling" /\ pc[c] \in AfterPlanning
    BY <1>4 DEF WritePath, WriteFails, RestorePath, AfterPlanning
  <2>2. Path(c) \in Files
    BY <1>0, <2>1, AtItem
  <2>3. orphaned' = orphaned \/ \E text : ReplaceFile(c, Path(c), text)
    BY <1>4 DEF WritePath, WriteFails, RestorePath
  <2> QED
    BY <1>1, <1>2, <2>1, <2>2, <2>3
<1>5. ASSUME pc[c] \in OfChanges
      PROVE  Item(c).file \in Files /\ Item(c).from \in Files
  <2>1. ~ IsBatch(c) /\ pos[c] \in 1..Len(plan[c])
    <3>1. pos[c] \in Nat \ {0} /\ plan[c] \in Seq(Range(plan[c])) /\ pos[c] <= Len(plan[c]) /\ ~ IsBatch(c)
      BY <1>0, <1>5 DEF EInv, Steady, PlanFits, Shapes, CallsTyped
    <3>2. Len(plan[c]) \in Nat
      BY <3>1
    <3> QED
      BY <3>1, <3>2
  <2> QED
    BY <1>0, <2>1 DEF EInv, PlanFits, Item
<1>6. CASE ApplyDelete(c) \/ UnlinkOld(c)
  BY <1>3, <1>5, <1>6 DEF ApplyDelete, UnlinkOld, OfChanges
<1>7. CASE FillFile(c) \/ ApplyFails(c)
  <2>1. pc[c] \in OfChanges /\ Item(c).file \in Files
    BY <1>5, <1>7 DEF FillFile, ApplyFails, OfChanges
  <2>2. \A f \in Files : c \in orphaned[f] => f = Item(c).file
    BY <1>0 DEF OrphansKnown
  <2>3. orphaned' = [orphaned EXCEPT ![Item(c).file] = @ \ {c}]
    BY <1>7 DEF FillFile, ApplyFails
  <2> QED
    BY <1>0, <2>1, <2>2, <2>3 DEF Orphans
<1>8. CASE Dies(c)
  <2>1. \A f \in Files : orphaned'[f] = orphaned[f] \ {c}
    BY <1>8 DEF Dies
  <2> QED
    BY <2>1 DEF Orphans
<1>9. CASE ~ (WritePath(c) \/ WriteFails(c) \/ RestorePath(c) \/ ApplyDelete(c) \/ UnlinkOld(c)
              \/ FillFile(c) \/ ApplyFails(c) \/ Dies(c))
  <2>1. pc[c] # "filling" /\ orphaned' = orphaned
    BY <1>9 DEF Step, BatchStep, ChangeStep, Call, LockPath, PlanPath, RecheckPath, SkipPath,
       VerifyPath, ConfirmRestored, ReturnBatch, PlanOperation, OpenForWriting, ReturnChange, RestoreFails, places
  <2> QED
    BY <1>2, <2>1
<1> QED
  BY <1>4, <1>6, <1>7, <1>8, <1>9

(* Whose open file has been replaced knows it from its history. *)
LEMMA OrphansStayKnown ==
    ASSUME TInv, NEW c \in Callers, Step(c)
    PROVE  OrphansKnown'
<1> SUFFICES ASSUME NEW f \in Files, NEW d \in orphaned'[f]
             PROVE  pc'[d] = "filling" /\ Item(d)'.file = f /\ f \in late'[d]
  BY DEF OrphansKnown
<1>0. EInv /\ OrphansKnown /\ EInv'
  BY StepsAreSound DEF TInv, PInv, EInv, Next, Step
<1>1. d \in Callers /\ d # c
  BY <1>0, OrphansMove DEF Orphans, EInv, Shapes, PlacesTyped
<1>2. d \in orphaned[f] \/ (d \in Filling(f) /\ f \in late'[d])
  BY <1>1, OrphansMove DEF Orphans
<1>3. pc'[d] = pc[d] /\ plan'[d] = plan[d] /\ pos'[d] = pos[d]
  BY <1>0, <1>1, OthersKeepCalls DEF LeavesCalls
<1>4. late[d] \subseteq late'[d]
  BY <1>0, <1>1, OthersAreTold DEF LeavesHistory
<1>5. pc[d] = "filling" /\ plan[d][pos[d]].file = f
  BY <1>0, <1>2 DEF OrphansKnown, Filling, Item
<1>6. f \in late'[d]
  BY <1>0, <1>2, <1>4 DEF OrphansKnown
<1> QED
  BY <1>3, <1>5, <1>6 DEF Item

(* The patches of the others. *)
LEMMA OthersStayPatching ==
    ASSUME TInv, NEW c \in Callers, Step(c), NEW d \in Callers \ {c}, Patching(d)'
    PROVE  PatchPlanned(d)' /\ PatchApplied(d)'
<1>0. EInv
  BY DEF TInv
<1>1. /\ pc'[d] = pc[d] /\ call'[d] = call[d] /\ pos'[d] = pos[d] /\ plan'[d] = plan[d]
      /\ answer'[d] = answer[d] /\ base'[d] = base[d]
  BY <1>0, OthersKeepCalls, BasesMove DEF LeavesCalls
<1>2. late[d] \subseteq late'[d] /\ \A f \in Files \ late'[d] : disk'[f] = disk[f]
  BY <1>0, OthersAreTold DEF LeavesHistory
<1>3. Patching(d) /\ PatchPlanned(d) /\ PatchApplied(d)
  BY <1>1 DEF TInv, PInv, Patching
<1>4. /\ Len(call[d].ops) \in Nat /\ \A i \in 1..Len(call[d].ops) : OpFiles(call[d].ops[i]) \subseteq Files
      /\ Len(plan[d]) \in Nat /\ pos[d] \in Nat \ {0}
      /\ pc[d] \in OfChanges => pos[d] \in 1..Len(plan[d])
  BY <1>0, <1>3, PatchFacts DEF IsOperation
<1>5. \A i \in 1..Len(plan[d]) : i \in 1..Len(call[d].ops)
  BY <1>3, <1>4 DEF PatchPlanned
<1>6. ASSUME NEW i \in 1..Len(plan[d]), Alone(d, i)'
      PROVE  /\ Alone(d, i) /\ \A f \in OpFiles(call[d].ops[i]) : disk'[f] = disk[f]
             /\ IsNew(d, i) => IsNew(d, i)'
             /\ IsBase(d, i) => IsBase(d, i)'
  <2>1. Alone(d, i)
    BY <1>1, <1>2, <1>6 DEF Alone
  <2>2. \A f \in OpFiles(call[d].ops[i]) : disk'[f] = disk[f]
    BY <1>1, <1>2, <1>4, <1>5, <1>6 DEF Alone
  <2>3. (IsNew(d, i) => IsNew(d, i)') /\ (IsBase(d, i) => IsBase(d, i)')
    BY <1>1, <2>2 DEF IsNew, IsBase
  <2> QED
    BY <2>1, <2>2, <2>3
<1>7. PatchPlanned(d)'
  BY <1>1, <1>3, <1>6 DEF PatchPlanned
<1>8. pc[d] = "planning" => \A f \in Files \ late'[d] : disk'[f] = base[d][f]
  BY <1>2, <1>3 DEF PatchApplied
<1>9. ASSUME Distinct(call[d].ops), pc[d] \in OfChanges
      PROVE  /\ \A i \in 1..(pos[d] - 1) : Alone(d, i)' => IsNew(d, i)'
             /\ \A i \in (pos[d] + 1)..Len(plan[d]) : Alone(d, i)' => IsBase(d, i)'
             /\ Alone(d, pos[d])' =>
                  /\ pc[d] = "applying" => IsBase(d, pos[d])'
                  /\ pc[d] \in {"filling", "unlinking"} /\ Item(d).from # Item(d).file => disk'[Item(d).from] = base[d][Item(d).from]
                  /\ pc[d] = "unlinking" => disk'[Item(d).file] = Item(d).text
  <2>1. /\ \A i \in 1..(pos[d] - 1) : i \in 1..Len(plan[d])
        /\ \A i \in (pos[d] + 1)..Len(plan[d]) : i \in 1..Len(plan[d])
        /\ pos[d] \in 1..Len(plan[d])
    BY <1>4, <1>9
  <2>2. {Item(d).file, Item(d).from} = OpFiles(call[d].ops[pos[d]])
    BY <1>3, <2>1 DEF PatchPlanned, OfOperation, Item
  <2>3. \A i \in 1..(pos[d] - 1) : Alone(d, i)' => IsNew(d, i)'
    BY <1>3, <1>6, <1>9, <2>1 DEF PatchApplied
  <2>4. \A i \in (pos[d] + 1)..Len(plan[d]) : Alone(d, i)' => IsBase(d, i)'
    BY <1>3, <1>6, <1>9, <2>1 DEF PatchApplied
  <2>5. ASSUME Alone(d, pos[d])'
        PROVE  /\ pc[d] = "applying" => IsBase(d, pos[d])'
               /\ pc[d] \in {"filling", "unlinking"} /\ Item(d).from # Item(d).file => disk'[Item(d).from] = base[d][Item(d).from]
               /\ pc[d] = "unlinking" => disk'[Item(d).file] = Item(d).text
    <3>0. PICK k \in 1..Len(plan[d]) : k = pos[d]
      BY <2>1
    <3>1. Alone(d, pos[d]) /\ \A f \in OpFiles(call[d].ops[pos[d]]) : disk'[f] = disk[f]
      <4>1. Alone(d, k)'
        BY <1>1, <2>5, <3>0
      <4> QED
        BY <1>6, <3>0, <4>1
    <3>2. IsBase(d, pos[d]) => IsBase(d, pos[d])'
      BY <1>1, <3>1 DEF IsBase
    <3> QED
      BY <1>3, <1>9, <2>2, <3>1, <3>2 DEF PatchApplied
  <2> QED
    BY <2>3, <2>4, <2>5
<1>10. Item(d)' = Item(d) /\ PatchDone(d)' = PatchDone(d)
  BY <1>1 DEF Item, PatchDone
<1>11. Distinct(call[d].ops) /\ PatchDone(d) => \A i \in 1..Len(plan[d]) : Alone(d, i)' => IsNew(d, i)'
  BY <1>3, <1>6 DEF PatchApplied
<1>13. PatchApplied(d)'
  <2>1. pc'[d] = "filling" => Item(d)'.kind # "delete"
    BY <1>1, <1>3, <1>10 DEF PatchApplied
  <2>2. pc'[d] = "unlinking" => Item(d)'.kind = "move"
    BY <1>1, <1>3, <1>10 DEF PatchApplied
  <2> QED
    BY <1>1, <1>8, <1>9, <1>10, <1>11, <2>1, <2>2 DEF PatchApplied
<1> QED
  BY <1>7, <1>13

-----------------------------------------------------------------------------
(* The patch that takes the step.                                          *)

(* It changes the files of the operation it is at and no others. *)
Elsewhere(c) ==
  /\ call'[c] = call[c] /\ plan'[c] = plan[c] /\ late'[c] = late[c] /\ base'[c] = base[c]
  /\ \A f \in Files \ OpFiles(call[c].ops[pos[c]]) : disk'[f] = disk[f]

(* The other operations do not see it. *)
LEMMA ElsewhereStays ==
    ASSUME TInv, NEW c \in Callers, Patching(c), pc[c] \in OfChanges, Elsewhere(c), Distinct(call[c].ops)
    PROVE  /\ \A i \in 1..(pos[c] - 1) : Alone(c, i)' => IsNew(c, i)'
           /\ \A i \in (pos[c] + 1)..Len(plan[c]) : Alone(c, i)' => IsBase(c, i)'
<1>0. EInv /\ PatchPlanned(c) /\ PatchApplied(c)
  BY DEF TInv, PInv
<1>1. /\ Len(call[c].ops) = Len(plan[c]) /\ DOMAIN call[c].ops = 1..Len(plan[c])
      /\ \A i \in 1..Len(plan[c]) : OpFiles(call[c].ops[i]) \subseteq Files
      /\ Len(plan[c]) \in Nat /\ pos[c] \in 1..Len(plan[c])
  BY <1>0, PatchFacts DEF IsOperation, PatchPlanned
<1>2. ASSUME NEW i \in 1..Len(plan[c]), i # pos[c]
      PROVE  /\ Alone(c, i)' <=> Alone(c, i)
             /\ IsNew(c, i) => IsNew(c, i)'
             /\ IsBase(c, i) => IsBase(c, i)'
  <2>1. OpFiles(call[c].ops[i]) \cap OpFiles(call[c].ops[pos[c]]) = {}
    BY <1>1, <1>2 DEF Distinct
  <2>2. \A f \in OpFiles(call[c].ops[i]) : disk'[f] = disk[f]
    BY <1>1, <2>1 DEF Elsewhere
  <2> QED
    BY <2>2 DEF Alone, IsNew, IsBase, Elsewhere
<1>3. /\ \A i \in 1..(pos[c] - 1) : i \in 1..Len(plan[c]) /\ i # pos[c]
      /\ \A i \in (pos[c] + 1)..Len(plan[c]) : i \in 1..Len(plan[c]) /\ i # pos[c]
  BY <1>1
<1>4. \A i \in 1..(pos[c] - 1) : Alone(c, i)' => IsNew(c, i)'
  BY <1>0, <1>2, <1>3 DEF PatchApplied
<1>5. \A i \in (pos[c] + 1)..Len(plan[c]) : Alone(c, i)' => IsBase(c, i)'
  BY <1>0, <1>2, <1>3 DEF PatchApplied
<1> QED
  BY <1>4, <1>5

(* It goes on to the next operation, or it is done. *)
LEMMA ItemsFollow ==
    ASSUME TInv, NEW c \in Callers, Patching(c), pc[c] \in OfChanges, Elsewhere(c), NextItem(c),
           NEW k, k = pos[c], Distinct(call[c].ops) /\ Alone(c, k)' => IsNew(c, k)'
    PROVE  PatchPlanned(c)' /\ PatchApplied(c)'
<1>0. EInv /\ PatchPlanned(c) /\ PatchApplied(c) /\ CallsTyped
  BY DEF TInv, PInv, EInv, Shapes
<1>1. Len(plan[c]) \in Nat /\ pos[c] \in 1..Len(plan[c]) /\ pos[c] \in Nat
  BY <1>0, PatchFacts
<1>2. \/ pc'[c] = "returning" /\ pos[c] = Len(plan[c]) /\ pos'[c] = pos[c]
      \/ pc'[c] = "applying" /\ pos[c] # Len(plan[c]) /\ pos'[c] = pos[c] + 1
  BY <1>0 DEF NextItem, Answer, Goto, CallsTyped
<1>3. PatchPlanned(c)'
  <2>1. \A i \in 1..Len(plan[c]) : Alone(c, i)' <=> Alone(c, i)
    BY DEF Elsewhere, Alone
  <2>2. Len(plan[c]) = Len(call[c].ops) /\ ~ call[c].dry
    BY <1>0 DEF PatchPlanned
  <2> QED
    BY <1>0, <1>2, <2>1, <2>2 DEF PatchPlanned, Elsewhere, OfChanges
<1>4. ASSUME Distinct(call[c].ops)
      PROVE  /\ \A i \in 1..pos[c] : Alone(c, i)' => IsNew(c, i)'
             /\ \A i \in (pos[c] + 1)..Len(plan[c]) : Alone(c, i)' => IsBase(c, i)'
  <2>1. /\ \A i \in 1..(pos[c] - 1) : Alone(c, i)' => IsNew(c, i)'
        /\ \A i \in (pos[c] + 1)..Len(plan[c]) : Alone(c, i)' => IsBase(c, i)'
    BY <1>4, ElsewhereStays
  <2>2. \A i \in 1..pos[c] : i = k \/ i \in 1..(pos[c] - 1)
    BY <1>1
  <2> QED
    BY <1>4, <2>1, <2>2
<1>5. plan'[c] = plan[c] /\ call'[c] = call[c]
  BY DEF Elsewhere
<1>6. CASE pc'[c] = "returning" /\ pos[c] = Len(plan[c])
  <2>1. \A i \in 1..Len(plan[c]) : i \in 1..pos[c]
    BY <1>6
  <2> QED
    <3>1. Distinct(call[c].ops) => \A i \in 1..Len(plan[c]) : Alone(c, i)' => IsNew(c, i)'
      BY <1>4, <2>1
    <3>2. Distinct(call'[c].ops) <=> Distinct(call[c].ops)
      BY <1>5
    <3>3. pc'[c] \notin OfChanges \cup {"planning", "filling", "unlinking"}
      BY <1>6 DEF OfChanges
    <3> QED
      BY ONLY <1>3, <1>5, <3>1, <3>2, <3>3 DEF PatchApplied
<1>7. CASE pc'[c] = "applying" /\ pos[c] # Len(plan[c]) /\ pos'[c] = pos[c] + 1
  <2>1. /\ \A i \in 1..(pos'[c] - 1) : i \in 1..pos[c]
        /\ \A i \in (pos'[c] + 1)..Len(plan[c]) : i \in (pos[c] + 1)..Len(plan[c])
        /\ pos'[c] \in (pos[c] + 1)..Len(plan[c])
    BY <1>1, <1>7
  <2>2. ~ PatchDone(c)'
    BY <1>7 DEF PatchDone
  <2>3. PICK next \in (pos[c] + 1)..Len(plan[c]) : next = pos'[c]
    BY <2>1
  <2>4. ASSUME Distinct(call[c].ops), Alone(c, pos[c])'
        PROVE  IsBase(c, pos[c])'
    <3>1. Alone(c, next)' => IsBase(c, next)'
      BY <1>4, <2>4
    <3> QED
      BY <2>3, <2>4, <3>1 DEF Alone, IsBase
  <2> QED
    <3>1. Distinct(call[c].ops) =>
             /\ \A i \in 1..(pos'[c] - 1) : Alone(c, i)' => IsNew(c, i)'
             /\ \A i \in (pos'[c] + 1)..Len(plan[c]) : Alone(c, i)' => IsBase(c, i)'
      BY <1>4, <2>1
    <3>2. Distinct(call'[c].ops) <=> Distinct(call[c].ops)
      BY <1>5
    <3>3. pc'[c] = "applying"
      BY <1>7
    <3> QED
      BY ONLY <1>3, <1>5, <2>2, <2>4, <3>1, <3>2, <3>3 DEF PatchApplied
<1> QED
  BY <1>2, <1>3, <1>6, <1>7

(* A patch that is called. *)
LEMMA PatchIsCalled ==
    ASSUME TInv, NEW c \in Callers, NEW request \in Calls, Call(c, request), Patching(c)'
    PROVE  PatchPlanned(c)' /\ PatchApplied(c)'
<1>0. CallsTyped /\ PlacesTyped /\ Steady(c) /\ pc[c] = "idle" /\ call'[c] = request
  BY DEF TInv, EInv, Shapes, CallsTyped, Call
<1>1. plan[c] = << >> /\ pos[c] = 1 /\ pos'[c] = 1 /\ disk' = disk /\ request.tool = "patch"
  BY <1>0 DEF Steady, Call, places, Patching
<1>2. plan'[c] = << >> /\ Len(plan'[c]) = 0
  BY <1>0, <1>1 DEF Call
<1>3. request.ops \in Seq(Range(request.ops))
  BY <1>1, CallsAreRequests
<1>4. Len(request.ops) \in Nat /\ (request.ops # << >> => 1 <= Len(request.ops))
  BY <1>3
<1>5. \/ pc'[c] = "returning" /\ answer'[c] = "invalid_patch"
      \/ pc'[c] = "returning" /\ request.ops = << >>
      \/ pc'[c] = "planning" /\ request.ops # << >> /\ base'[c] = disk
  BY <1>0, <1>1 DEF Call, Answer, Goto, CallsTyped, PlacesTyped
<1>6. PatchPlanned(c)'
  BY <1>0, <1>1, <1>2, <1>4, <1>5 DEF PatchPlanned, OfChanges
<1>7. PatchApplied(c)'
  <2>1. \A i \in 1..Len(plan'[c]) : FALSE
    BY <1>2
  <2> QED
    BY <1>1, <1>5, <2>1 DEF PatchApplied, OfChanges
<1> QED
  BY <1>6, <1>7

(* One of its operations is planned. *)
LEMMA PatchIsPlanned ==
    ASSUME TInv, NEW c \in Callers, PlanOperation(c), Patching(c)'
    PROVE  PatchPlanned(c)' /\ PatchApplied(c)'
<1>0. EInv /\ CallsTyped /\ PlacesTyped /\ call' = call /\ disk' = disk /\ late' = late /\ base' = base /\ pc[c] = "planning"
  BY DEF TInv, EInv, Shapes, PlanOperation, places, history
<1>1. Patching(c)
  BY <1>0 DEF Patching
<1>2. PatchPlanned(c) /\ PatchApplied(c)
  BY <1>1 DEF TInv, PInv
<1> DEFINE n == Len(plan[c])
           ops == call[c].ops
           p == PlannedOperation(c)
<1>3. /\ Len(ops) \in Nat /\ DOMAIN ops = 1..Len(ops) /\ \A i \in 1..Len(ops) : IsOperation(ops[i])
      /\ plan[c] \in Seq(Range(plan[c])) /\ n \in Nat /\ late[c] \subseteq Files
      /\ pos[c] = n + 1 /\ n + 1 \in 1..Len(ops) /\ pos[c] \in Nat
  <2>1. pos[c] \in Nat \ {0} /\ n = pos[c] - 1 /\ pos[c] <= Len(ops)
    BY <1>0, <1>2 DEF EInv, PlanFits, CallsTyped, PatchPlanned
  <2> QED
    BY <1>0, <1>1, <2>1, PatchFacts
<1>4. CASE ~ p.ok
  <2>1. plan' = plan /\ pc'[c] = "returning" /\ answer'[c] = p.code
    BY <1>0, <1>4 DEF PlanOperation, Answer, Goto, CallsTyped
  <2>2. p.code # "success"
    BY <1>0, <1>1, <1>4, PatchFacts, PlannedOperationSays DEF Refusals
  <2>3. \A i \in 1..n : Alone(c, i)' <=> Alone(c, i)
    BY <1>0 DEF Alone
  <2>4. PatchPlanned(c)'
    BY <1>0, <1>2, <2>1, <2>2, <2>3 DEF PatchPlanned, OfChanges
  <2>5. PatchApplied(c)'
    BY <2>1, <2>2 DEF PatchApplied, OfChanges, PatchDone
  <2> QED
    BY <2>4, <2>5
<1>5. CASE p.ok
  <2>1. plan'[c] = Append(plan[c], p)
    BY <1>0, <1>5 DEF PlanOperation, CallsTyped
  <2>2. /\ Len(plan'[c]) = n + 1 /\ plan'[c][n + 1] = p
        /\ \A i \in 1..n : plan'[c][i] = plan[c][i]
    BY <1>3, <2>1, PlansGrow
  <2>3. p = PlanOp(disk, ops[n + 1]) /\ OfOperation(p, ops[n + 1])
    <3>1. p = PlanOp(disk, ops[n + 1])
      BY <1>3 DEF PlannedOperation
    <3> HIDE DEF p
    <3> QED
      BY <1>3, <1>5, <3>1, PlansAreOfTheirFiles
  <2>4. Alone(c, n + 1) => p = PlanOp(base[c], ops[n + 1])
    <3>1. SUFFICES ASSUME Alone(c, n + 1)
                   PROVE  p = PlanOp(base[c], ops[n + 1])
      OBVIOUS
    <3>2. \A f \in OpFiles(ops[n + 1]) : disk[f] = base[c][f]
      BY <1>0, <1>2, <1>3, <3>1 DEF Alone, PatchApplied, IsOperation
    <3> QED
      BY <1>3, <2>3, <3>2, PlansLookAtTheirFiles
  <2>5. \/ pos[c] # Len(ops) /\ pc'[c] = "planning" /\ pos'[c] = pos[c] + 1 /\ pos'[c] <= Len(ops)
        \/ pos[c] = Len(ops) /\ pos'[c] = 1 /\ pc'[c] = "returning" /\ ops = ops /\ call[c].dry
        \/ pos[c] = Len(ops) /\ pos'[c] = 1 /\ pc'[c] = "applying" /\ ~ call[c].dry
    <3>1. CASE pos[c] < Len(ops)
      BY <1>0, <1>3, <1>5, <3>1 DEF PlanOperation, CallsTyped
    <3>2. CASE pos[c] = Len(ops)
      BY <1>0, <1>3, <1>5, <3>2 DEF PlanOperation, CallsTyped, Answer, Goto
    <3>3. pos[c] < Len(ops) \/ pos[c] = Len(ops)
      BY <1>3
    <3> QED
      BY <3>1, <3>2, <3>3
  <2> HIDE DEF p
  <2>6. ASSUME NEW i \in 1..(n + 1)
        PROVE  OfOperation(plan'[c][i], ops[i]) /\ (Alone(c, i)' => plan'[c][i] = PlanOp(base[c], ops[i]))
    <3>0. Alone(c, i)' <=> Alone(c, i)
      BY <1>0 DEF Alone
    <3>1. CASE i \in 1..n
      BY <1>2, <2>2, <3>0, <3>1 DEF PatchPlanned
    <3>2. CASE i = n + 1
      BY <2>2, <2>3, <2>4, <3>0, <3>2
    <3> QED
      BY <1>3, <3>1, <3>2
  <2>7. PatchPlanned(c)'
    <3>1. n + 1 <= Len(ops) /\ (pos[c] = Len(ops) => n + 1 = Len(ops))
      BY <1>3
    <3> QED
      BY <1>0, <2>2, <2>5, <2>6, <3>1 DEF PatchPlanned, OfChanges
  <2>8. PatchApplied(c)'
    <3>1. \A f \in Files \ late[c] : disk[f] = base[c][f]
      BY <1>0, <1>2 DEF PatchApplied
    <3>2. ASSUME NEW i \in 1..(n + 1), Alone(c, i)'
          PROVE  IsBase(c, i)'
      <4>1. Alone(c, i) /\ OpFiles(ops[i]) \subseteq Files
        BY <1>0, <1>3, <3>2 DEF Alone, IsOperation
      <4> QED
        BY <1>0, <3>1, <4>1 DEF IsBase, Alone
    <3>3. CASE pc'[c] = "planning"
      BY <1>0, <3>1, <3>3 DEF PatchApplied, OfChanges, PatchDone
    <3>4. CASE pc'[c] = "returning" /\ call[c].dry
      BY <1>0, <3>4 DEF PatchApplied, OfChanges, PatchDone
    <3>5. CASE pc'[c] = "applying" /\ pos'[c] = 1
      <4>1. \A i \in 1..(pos'[c] - 1) : FALSE
        BY <3>5
      <4>2. \A i \in (pos'[c] + 1)..Len(plan'[c]) : i \in 1..(n + 1)
        BY <1>3, <2>2, <3>5
      <4>3. PICK k \in 1..(n + 1) : k = pos'[c]
        BY <1>3, <3>5
      <4>4. Alone(c, pos[c])' => IsBase(c, pos[c])'
        <5>1. Alone(c, k)' => IsBase(c, k)'
          BY <3>2
        <5> QED
          BY <4>3, <5>1 DEF Alone, IsBase
      <4>5. \A i \in (pos'[c] + 1)..Len(plan'[c]) : Alone(c, i)' => IsBase(c, i)'
        BY <3>2, <4>2
      <4>6. pc'[c] = "applying" /\ ~ PatchDone(c)'
        BY <3>5 DEF PatchDone
      <4> QED
        BY ONLY <4>1, <4>4, <4>5, <4>6 DEF PatchApplied
    <3> QED
      BY <2>5, <3>3, <3>4, <3>5
  <2> QED
    BY <2>7, <2>8
<1> QED
  BY <1>4, <1>5

(* Where a patch is that applies its changes. *)
LEMMA AtOperation ==
    ASSUME TInv, NEW c \in Callers, Patching(c), pc[c] \in OfChanges
    PROVE  LET op == call[c].ops[pos[c]]
           IN  /\ OfOperation(Item(c), op) /\ OpFiles(op) \subseteq Files
               /\ OpFiles(op) = {Item(c).file, Item(c).from}
               /\ Item(c).file \in Files /\ Item(c).from \in Files
               /\ PatchPlanned(c) /\ PatchApplied(c) /\ CallsTyped /\ PlacesTyped /\ HistoryTyped
<1>1. PatchPlanned(c) /\ PatchApplied(c) /\ EInv /\ CallsTyped /\ PlacesTyped /\ HistoryTyped
  BY DEF TInv, PInv, EInv, Shapes
<1>2. pos[c] \in 1..Len(plan[c]) /\ IsOperation(call[c].ops[pos[c]])
  BY <1>1, PatchFacts DEF PatchPlanned
<1>3. OfOperation(Item(c), call[c].ops[pos[c]])
  BY <1>1, <1>2 DEF PatchPlanned, Item
<1> QED
  BY <1>1, <1>2, <1>3 DEF OfOperation, IsOperation

(* Bookkeeping does not tell the caller about itself. *)
LEMMA NotedElsewhere ==
    ASSUME HistoryTyped, NEW c \in Callers, NEW f, Noted(c, f)
    PROVE  late'[c] = late[c]
BY DEF HistoryTyped, Noted

(* It removes a file of the operation it is at. *)
LEMMA PatchUnlinks ==
    ASSUME TInv, NEW c \in Callers, Patching(c), pc[c] \in {"applying", "unlinking"},
           NEW f, f = IF pc[c] = "applying" THEN Item(c).file ELSE Item(c).from,
           pc[c] = "applying" => Item(c).kind = "delete",
           Unlink(c, f), call' = call, plan' = plan, base' = base
    PROVE  PatchPlanned(c)' /\ PatchApplied(c)'
<1> DEFINE op == call[c].ops[pos[c]]
<1>0. pc[c] \in OfChanges
  BY DEF OfChanges
<1>1. /\ OfOperation(Item(c), op) /\ OpFiles(op) \subseteq Files
      /\ OpFiles(op) = {Item(c).file, Item(c).from}
      /\ Item(c).file \in Files /\ Item(c).from \in Files
      /\ PatchPlanned(c) /\ PatchApplied(c) /\ CallsTyped /\ PlacesTyped /\ HistoryTyped
  BY <1>0, AtOperation
<1>2. CASE disk[f] = Absent
  <2>1. pc'[c] = "returning" /\ answer'[c] = "os_error" /\ late' = late
    BY <1>1, <1>2 DEF Unlink, Answer, Goto, CallsTyped
  <2>2. \A i \in 1..Len(plan[c]) : Alone(c, i)' <=> Alone(c, i)
    BY <2>1 DEF Alone
  <2>3. PatchPlanned(c)'
    BY <1>1, <2>1, <2>2 DEF PatchPlanned, OfChanges
  <2>4. PatchApplied(c)'
    BY <2>1 DEF PatchApplied, OfChanges, PatchDone
  <2> QED
    BY <2>3, <2>4
<1>3. CASE disk[f] # Absent
  <2>1. disk' = [disk EXCEPT ![f] = Absent] /\ Noted(c, f) /\ NextItem(c)
    BY <1>3 DEF Unlink
  <2>2. f \in Files /\ f \in OpFiles(op) /\ late'[c] = late[c]
    BY <1>1, <2>1, NotedElsewhere
  <2>3. disk'[f] = Absent /\ \A g \in Files : g # f => disk'[g] = disk[g]
    BY <1>1, <2>1, <2>2 DEF PlacesTyped
  <2>4. Elsewhere(c)
    BY <2>2, <2>3 DEF Elsewhere
  <2>5. PICK k : k = pos[c]
    OBVIOUS
  <2>6. ASSUME Distinct(call[c].ops), Alone(c, k)'
        PROVE  IsNew(c, k)'
    <3>1. Alone(c, pos[c])
      BY <2>2, <2>5, <2>6 DEF Alone
    <3>2. SUFFICES ASSUME NEW g \in OpFiles(op)
                   PROVE  disk'[g] = Changed(Item(c), g)
      BY <2>5 DEF IsNew, Item
    <3>3. CASE pc[c] = "applying"
      <4>1. Item(c).kind = "delete" /\ Item(c).file = Item(c).from /\ f = Item(c).file
        BY <1>1, <3>3 DEF OfOperation
      <4>2. g = f
        BY <1>1, <4>1
      <4> QED
        BY <2>3, <4>1, <4>2 DEF Changed
    <3>4. CASE pc[c] = "unlinking"
      <4>1. Item(c).kind = "move" /\ Item(c).file # Item(c).from /\ f = Item(c).from
        BY <1>1, <3>4 DEF OfOperation, PatchApplied
      <4>2. disk[Item(c).file] = Item(c).text
        BY <1>0, <1>1, <2>6, <3>1, <3>4 DEF PatchApplied
      <4> QED
        BY <1>1, <2>3, <4>1, <4>2 DEF Changed
    <3> QED
      BY <3>3, <3>4
  <2> QED
    BY <1>0, <2>1, <2>4, <2>5, <2>6, ItemsFollow
<1> QED
  BY <1>2, <1>3

(* It opens a file, which empties it. *)
LEMMA PatchOpens ==
    ASSUME TInv, NEW c \in Callers, Patching(c), OpenForWriting(c)
    PROVE  PatchPlanned(c)' /\ PatchApplied(c)'
<1> DEFINE op == call[c].ops[pos[c]]
<1>0. pc[c] = "applying" /\ pc[c] \in OfChanges /\ Item(c).kind # "delete"
  BY DEF OfChanges, OpenForWriting
<1>1. /\ OfOperation(Item(c), op) /\ OpFiles(op) \subseteq Files
      /\ OpFiles(op) = {Item(c).file, Item(c).from}
      /\ Item(c).file \in Files /\ Item(c).from \in Files
      /\ PatchPlanned(c) /\ PatchApplied(c) /\ CallsTyped /\ PlacesTyped /\ HistoryTyped
  BY <1>0, AtOperation
<1>2. /\ disk' = [disk EXCEPT ![Item(c).file] = << >>] /\ Noted(c, Item(c).file)
      /\ pc'[c] = "filling" /\ UNCHANGED << call, pos, plan, base >>
  BY <1>1 DEF OpenForWriting, Goto, CallsTyped
<1>3. late'[c] = late[c] /\ \A g \in Files : g # Item(c).file => disk'[g] = disk[g]
  BY <1>1, <1>2, NotedElsewhere DEF PlacesTyped
<1>4. Elsewhere(c)
  BY <1>1, <1>2, <1>3 DEF Elsewhere
<1>5. \A i : Alone(c, i)' <=> Alone(c, i)
  BY <1>2, <1>3 DEF Alone
<1>6. PatchPlanned(c)'
  BY <1>0, <1>1, <1>2, <1>5 DEF PatchPlanned, OfChanges
<1>7. Distinct(call[c].ops) =>
        /\ \A i \in 1..(pos[c] - 1) : Alone(c, i)' => IsNew(c, i)'
        /\ \A i \in (pos[c] + 1)..Len(plan[c]) : Alone(c, i)' => IsBase(c, i)'
  BY <1>0, <1>4, ElsewhereStays
<1>8. Distinct(call[c].ops) /\ Alone(c, pos[c]) /\ Item(c).from # Item(c).file =>
        disk'[Item(c).from] = base[c][Item(c).from]
  <2>1. Distinct(call[c].ops) /\ Alone(c, pos[c]) => IsBase(c, pos[c])
    BY <1>0, <1>1 DEF PatchApplied
  <2>2. IsBase(c, pos[c]) => disk[Item(c).from] = base[c][Item(c).from]
    BY <1>1 DEF IsBase
  <2> QED
    BY <1>1, <1>3, <2>1, <2>2
<1>9. PatchApplied(c)'
  <2>1. Item(c)' = Item(c) /\ Alone(c, pos[c])' = Alone(c, pos[c])
    BY <1>2, <1>3 DEF Item, Alone
  <2>2. ~ PatchDone(c)'
    BY <1>2 DEF PatchDone
  <2> QED
    BY <1>0, <1>2, <1>7, <1>8, <2>1, <2>2 DEF PatchApplied
<1> QED
  BY <1>6, <1>9

(* It writes the text into the file it has open. *)
LEMMA PatchFills ==
    ASSUME TInv, NEW c \in Callers, Patching(c), FillFile(c)
    PROVE  PatchPlanned(c)' /\ PatchApplied(c)'
<1> DEFINE op == call[c].ops[pos[c]]
<1>0. pc[c] = "filling" /\ pc[c] \in OfChanges
  BY DEF OfChanges, FillFile
<1>1. /\ OfOperation(Item(c), op) /\ OpFiles(op) \subseteq Files
      /\ OpFiles(op) = {Item(c).file, Item(c).from}
      /\ Item(c).file \in Files /\ Item(c).from \in Files
      /\ PatchPlanned(c) /\ PatchApplied(c) /\ CallsTyped /\ PlacesTyped /\ HistoryTyped
  BY <1>0, AtOperation
<1>2. Item(c).kind # "delete"
  BY <1>0, <1>1 DEF PatchApplied
<1>3. /\ late'[c] = late[c] /\ \A g \in Files : g # Item(c).file => disk'[g] = disk[g]
      /\ c \notin orphaned[Item(c).file] => disk'[Item(c).file] = Item(c).text
      /\ UNCHANGED << call, plan, base >>
  <2>1. CASE c \in orphaned[Item(c).file]
    BY <2>1 DEF FillFile
  <2>2. CASE c \notin orphaned[Item(c).file]
    <3>1. disk' = [disk EXCEPT ![Item(c).file] = Item(c).text] /\ Noted(c, Item(c).file)
      BY <2>2 DEF FillFile
    <3> QED
      BY <1>1, <2>2, <3>1, NotedElsewhere DEF FillFile, PlacesTyped
  <2> QED
    BY <2>1, <2>2
<1>4. Elsewhere(c)
  BY <1>1, <1>3 DEF Elsewhere
<1>5. Alone(c, pos[c]) => disk'[Item(c).file] = Item(c).text
  <2>1. OrphansKnown
    BY DEF TInv, PInv
  <2> QED
    BY <1>1, <1>3, <2>1 DEF OrphansKnown, Alone
<1>6. CASE Item(c).kind = "move"
  <2>1. pc'[c] = "unlinking" /\ pos' = pos
    BY <1>1, <1>6 DEF FillFile, Goto, CallsTyped
  <2>2. \A i : Alone(c, i)' <=> Alone(c, i)
    BY <1>3 DEF Alone
  <2>3. PatchPlanned(c)'
    BY <1>0, <1>1, <1>3, <2>1, <2>2 DEF PatchPlanned, OfChanges
  <2>4. Distinct(call[c].ops) =>
          /\ \A i \in 1..(pos[c] - 1) : Alone(c, i)' => IsNew(c, i)'
          /\ \A i \in (pos[c] + 1)..Len(plan[c]) : Alone(c, i)' => IsBase(c, i)'
    BY <1>0, <1>4, ElsewhereStays
  <2>5. Distinct(call[c].ops) /\ Alone(c, pos[c]) /\ Item(c).from # Item(c).file =>
          disk'[Item(c).from] = base[c][Item(c).from]
    BY <1>0, <1>1, <1>3 DEF PatchApplied
  <2>6. Item(c)' = Item(c) /\ Alone(c, pos[c])' = Alone(c, pos[c]) /\ ~ PatchDone(c)'
    BY <1>3, <2>1 DEF Item, Alone, PatchDone
  <2>7. PatchApplied(c)'
    BY <1>3, <1>5, <1>6, <2>1, <2>4, <2>5, <2>6 DEF PatchApplied
  <2> QED
    BY <2>3, <2>7
<1>7. CASE Item(c).kind # "move"
  <2>1. NextItem(c)
    BY <1>7 DEF FillFile
  <2>2. PICK k : k = pos[c]
    OBVIOUS
  <2>3. ASSUME Alone(c, k)'
        PROVE  IsNew(c, k)'
    <3>1. Alone(c, pos[c])
      BY <1>3, <2>2, <2>3 DEF Alone
    <3>2. Item(c).file = Item(c).from
      BY <1>1, <1>7 DEF OfOperation
    <3>3. \A g \in OpFiles(op) : disk'[g] = Changed(Item(c), g)
      BY <1>1, <1>2, <1>5, <3>1, <3>2 DEF Changed
    <3> QED
      BY <1>3, <2>2, <3>3 DEF IsNew, Item
  <2> QED
    BY <1>0, <1>4, <2>1, <2>2, <2>3, ItemsFollow
<1> QED
  BY <1>6, <1>7

(* The patch that takes the step. *)
LEMMA OwnPatch ==
    ASSUME TInv, NEW c \in Callers, Step(c), Patching(c)'
    PROVE  PatchPlanned(c)' /\ PatchApplied(c)'
<1>0. EInv /\ CallsTyped
  BY DEF TInv, EInv, Shapes
<1>1. ASSUME NEW request \in Calls, Call(c, request)
      PROVE  PatchPlanned(c)' /\ PatchApplied(c)'
  BY <1>1, PatchIsCalled
<1>2. ASSUME ~ \E request \in Calls : Call(c, request)
      PROVE  /\ call' = call /\ Patching(c) /\ ~ IsBatch(c)
             /\ ~ ReturnChange(c) /\ ~ Dies(c)
  <2>1. call' = call /\ (pc[c] \in {"idle", "done", "dead"} => pc' = pc)
    BY <1>0, <1>2 DEF Step, BatchStep, ChangeStep, Call, LockPath, PlanPath, RecheckPath, SkipPath, WritePath,
       VerifyPath, RestorePath, ConfirmRestored, ReturnBatch, PlanOperation, ApplyDelete, Unlink,
       OpenForWriting, FillFile, UnlinkOld, ReturnChange, WriteFails, RestoreFails, ApplyFails, Dies
  <2>2. ~ IsBatch(c)
    BY <2>1 DEF Patching, IsBatch
  <2>3. pc[c] \in OfChanges \cup {"planning", "returning"}
    <3>1. pc[c] \notin AfterPlanning \cup {"locking"}
      BY <1>0, <2>2 DEF EInv, Steady
    <3>2. pc[c] \notin {"idle", "done", "dead"}
      BY <2>1 DEF Patching, OfChanges
    <3> QED
      BY <1>0, <3>1, <3>2 DEF CallsTyped, Places, AfterPlanning, OfChanges
  <2>4. ~ ReturnChange(c) /\ ~ Dies(c)
    BY <1>0 DEF ReturnChange, Dies, Goto, CallsTyped, Patching, OfChanges
  <2> QED
    BY <2>1, <2>2, <2>3, <2>4 DEF Patching
<1>3. CASE PlanOperation(c)
  BY <1>3, PatchIsPlanned
<1>4. CASE ApplyDelete(c)
  <2>1. pc[c] = "applying" /\ Item(c).kind = "delete" /\ Unlink(c, Item(c).file) /\ UNCHANGED << call, plan, base >>
    BY <1>4 DEF ApplyDelete
  <2>2. Patching(c)
    BY <2>1 DEF Patching, OfChanges
  <2> QED
    BY <2>1, <2>2, PatchUnlinks
<1>5. CASE UnlinkOld(c)
  <2>1. pc[c] = "unlinking" /\ Unlink(c, Item(c).from) /\ UNCHANGED << call, plan, base >>
    BY <1>5 DEF UnlinkOld
  <2>2. Patching(c)
    BY <2>1 DEF Patching, OfChanges
  <2> QED
    BY <2>1, <2>2, PatchUnlinks
<1>6. CASE OpenForWriting(c)
  <2>1. Patching(c)
    BY <1>6 DEF Patching, OfChanges, OpenForWriting
  <2> QED
    BY <1>6, <2>1, PatchOpens
<1>7. CASE FillFile(c)
  <2>1. Patching(c)
    BY <1>7 DEF Patching, OfChanges, FillFile
  <2> QED
    BY <1>7, <2>1, PatchFills
<1>8. CASE ApplyFails(c)
  <2>1. pc'[c] = "returning" /\ answer'[c] = "os_error" /\ UNCHANGED << call, plan, base, late >>
    BY <1>0, <1>8 DEF ApplyFails, Answer, Goto, CallsTyped, history
  <2>2. pc[c] \in OfChanges
    BY <1>8 DEF ApplyFails, OfChanges
  <2>3. Patching(c) /\ PatchPlanned(c)
    BY <2>1, <2>2 DEF Patching, TInv, PInv
  <2>4. \A i : Alone(c, i)' <=> Alone(c, i)
    BY <2>1 DEF Alone
  <2>5. PatchPlanned(c)'
    BY <2>1, <2>3, <2>4 DEF PatchPlanned, OfChanges
  <2>6. PatchApplied(c)'
    BY <2>1 DEF PatchApplied, OfChanges, PatchDone
  <2> QED
    BY <2>5, <2>6
<1>9. ASSUME ~ \E request \in Calls : Call(c, request)
      PROVE  ~ BatchStep(c) /\ ~ WriteFails(c) /\ ~ RestoreFails(c)
  <2>1. ~ IsBatch(c) /\ pc[c] \in OfChanges \cup {"planning", "returning"}
    BY <1>2, <1>9 DEF Patching
  <2> QED
    BY <2>1 DEF BatchStep, LockPath, PlanPath, RecheckPath, SkipPath, WritePath, VerifyPath, RestorePath,
         ConfirmRestored, ReturnBatch, WriteFails, RestoreFails, OfChanges
<1> QED
  BY <1>1, <1>2, <1>3, <1>4, <1>5, <1>6, <1>7, <1>8, <1>9 DEF Step, ChangeStep

-----------------------------------------------------------------------------
(* Patches are in order from the start. *)
LEMMA StartIsPatched == Init => TInv
<1> SUFFICES ASSUME Init
             PROVE  TInv
  OBVIOUS
<1>1. EInv
  BY StartIsSound
<1>2. OrphansKnown /\ \A c \in Callers : ~ Patching(c)
  BY DEF Init, OrphansKnown, Patching, OfChanges
<1>3. FirstDisk = [f \in Files |-> FirstDisk[f]]
  BY DiskIsOfFiles
<1>4. \A c \in Callers : base[c] = [f \in Files |-> base[c][f]]
  <2>1. \A c \in Callers : base[c] = FirstDisk
    BY DEF Init
  <2> QED
    BY <1>3, <2>1
<1> QED
  BY <1>1, <1>2, <1>4 DEF TInv, PInv

(* Every step keeps them so ... *)
LEMMA StepsStayPatched == TInv /\ [Next]_vars => TInv'
<1> SUFFICES ASSUME TInv, [Next]_vars
             PROVE  TInv'
  OBVIOUS
<1>1. EInv /\ EInv' /\ PInv
  BY StepsAreSound DEF TInv
<1>2. ASSUME NEW c \in Callers, Step(c)
      PROVE  PInv'
  <2>1. OrphansKnown'
    BY <1>2, OrphansStayKnown
  <2>2. \A d \in Callers : base'[d] = [f \in Files |-> base'[d][f]]
    <3>1. disk = [f \in Files |-> disk[f]] /\ \A d \in Callers : base[d] = [f \in Files |-> base[d][f]]
      BY <1>1 DEF EInv, Shapes, PlacesTyped, PInv
    <3> QED
      BY <1>1, <1>2, <3>1, BasesMove
  <2>3. ASSUME NEW d \in Callers, Patching(d)'
        PROVE  PatchPlanned(d)' /\ PatchApplied(d)'
    BY <1>2, <2>3, OwnPatch, OthersStayPatching
  <2> QED
    BY <2>1, <2>2, <2>3 DEF PInv
<1>3. ASSUME UNCHANGED vars
      PROVE  PInv'
  <2> USE <1>3 DEF vars
  <2>1. ASSUME NEW c \in Callers
        PROVE  /\ Patching(c)' = Patching(c) /\ PatchPlanned(c)' = PatchPlanned(c)
               /\ PatchApplied(c)' = PatchApplied(c)
    <3>1. Patching(c)' = Patching(c)
      BY DEF Patching
    <3>2. \A i : Alone(c, i)' = Alone(c, i) /\ IsNew(c, i)' = IsNew(c, i) /\ IsBase(c, i)' = IsBase(c, i)
      BY DEF Alone, IsNew, IsBase
    <3>3. PatchPlanned(c)' = PatchPlanned(c)
      BY DEF PatchPlanned, Alone
    <3>4. PatchApplied(c)' = PatchApplied(c)
      BY DEF PatchApplied, Alone, IsNew, IsBase, Item, PatchDone
    <3> QED
      BY <3>1, <3>3, <3>4
  <2>2. OrphansKnown' = OrphansKnown
    BY DEF OrphansKnown, Item
  <2>3. base' = base
    OBVIOUS
  <2>4. ASSUME NEW c \in Callers, Patching(c)'
        PROVE  PatchPlanned(c)' /\ PatchApplied(c)'
    BY <1>1, <2>1, <2>4 DEF PInv
  <2>5. OrphansKnown' /\ \A c \in Callers : base'[c] = [f \in Files |-> base'[c][f]]
    BY <1>1, <2>2, <2>3 DEF PInv
  <2> QED
    BY ONLY <2>4, <2>5 DEF PInv
<1> QED
  BY <1>1, <1>2, <1>3 DEF TInv, Next, Step

(* ... so that they always are. *)
LEMMA EditsStayPatched == Spec => []TInv
BY StartIsPatched, StepsStayPatched, PTL DEF Spec

(* A patch in order that is done leaves what its operations make in turn. *)
LEMMA PatchedSequentially == TInv => PatchIsSequential
<1> SUFFICES ASSUME TInv, NEW c \in Callers, PatchDone(c), Distinct(call[c].ops),
                    NEW i \in DOMAIN call[c].ops, OpFiles(call[c].ops[i]) \cap late[c] = {},
                    NEW f \in OpFiles(call[c].ops[i])
             PROVE  disk[f] = Sequentially(base[c], call[c].ops)[f]
  BY DEF PatchIsSequential
<1>1. EInv /\ call[c] # None
  BY NoneIsNobody DEF TInv, EInv, Steady, PatchDone
<1>2. Patching(c)
  BY <1>1 DEF Patching, PatchDone
<1>3. PatchPlanned(c) /\ PatchApplied(c) /\ base[c] = [g \in Files |-> base[c][g]]
  BY <1>2 DEF TInv, PInv
<1>4. /\ Len(call[c].ops) \in Nat /\ DOMAIN call[c].ops = 1..Len(call[c].ops)
      /\ \A j \in 1..Len(call[c].ops) : IsOperation(call[c].ops[j])
      /\ Len(plan[c]) = Len(call[c].ops)
  BY <1>1, <1>2, <1>3, PatchFacts DEF PatchPlanned, PatchDone
<1>5. Alone(c, i) /\ i \in 1..Len(plan[c])
  BY <1>4 DEF Alone
<1>6. plan[c][i].ok = TRUE /\ plan[c][i] = PlanOp(base[c], call[c].ops[i])
  BY <1>3, <1>5 DEF PatchPlanned, OfOperation
<1>7. disk[f] = Changed(PlanOp(base[c], call[c].ops[i]), f)
  BY <1>3, <1>5, <1>6 DEF PatchApplied, IsNew
<1>8. PICK ops, d, n : ops = call[c].ops /\ d = base[c] /\ n = Len(ops)
  OBVIOUS
<1>9. /\ n \in Nat /\ DOMAIN ops = 1..n /\ (\A j \in 1..n : IsOperation(ops[j])) /\ Distinct(ops)
      /\ IsDisk(d) /\ i \in 1..n /\ PlanOp(d, ops[i]).ok = TRUE /\ f \in OpFiles(ops[i])
  BY <1>3, <1>4, <1>6, <1>8 DEF IsDisk
<1>10. Arrives(d, ops, i, f)
  BY ONLY <1>9, DistinctOperations
<1> QED
  BY <1>7, <1>8, <1>10 DEF Arrives

(* apply_patch: a patch that names every file once and is answered with    *)
(* success leaves the files of each of its operations as the operations    *)
(* one after the other would, unless somebody else changed one of them     *)
(* while the patch was at work.                                            *)
THEOREM PatchesSequential == Spec => []PatchIsSequential
BY EditsStayPatched, PatchedSequentially, PTL
=================================================================================
