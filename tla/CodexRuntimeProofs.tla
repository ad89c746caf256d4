--------------------------- MODULE CodexRuntimeProofs ---------------------------
(***************************************************************************)
(* What the manager of the Codex runtimes keeps true for any number of     *)
(* tools, runtimes and threads and under every set of faults: its bindings *)
(* are sound and agree with the file, max_runtimes holds, no thread is     *)
(* unloaded under a call that may still be answered, and an answer is one  *)
(* of the thread that the runtime has.                                     *)
(*                                                                         *)
(* A section under _lock takes one World to another. The first part of the *)
(* module says of each operator on worlds what it leaves of the bindings   *)
(* (Follows), the second takes the tools through their sections (CInv),    *)
(* the third says what no step takes away, the fourth follows the threads. *)
(***************************************************************************)
EXTENDS CodexRuntime, FiniteSetTheorems, TLAPS

-------------------------------------------------------------------------------
\* Worlds.

IsWorld(w) ==
    DOMAIN w = {"bind", "disk", "older", "idle", "live", "pendrel", "obs",
                "loaded", "claimed", "aband"}

IsBinding(b) ==
    /\ b = [th |-> b.th, status |-> b.status, name |-> b.name]
    /\ b.th \in Threads /\ b.status \in {"ready", "detached"} /\ b.name \in BOOLEAN

AreBindings(b) ==
    /\ b = [r \in DOMAIN b |-> b[r]] /\ DOMAIN b \subseteq Runtimes
    /\ \A r \in DOMAIN b : IsBinding(b[r])

InThreads(w) ==
    /\ w.live \subseteq Threads /\ w.pendrel \subseteq Threads /\ w.loaded \subseteq Threads
    /\ w.claimed \subseteq Threads /\ w.aband \subseteq Threads /\ w.obs \in 0 .. GenBound

Sound(w) ==
    /\ IsWorld(w) /\ AreBindings(w.bind) /\ InThreads(w)
    /\ w.disk = Stored(w.bind)
    /\ w.idle \subseteq DOMAIN w.bind /\ IsOrder(w.older, DOMAIN w.bind)

\* The same runtimes, each with its thread and name.
SameBindings(w, x) ==
    /\ DOMAIN x.bind = DOMAIN w.bind
    /\ \A r \in DOMAIN w.bind : x.bind[r].th = w.bind[r].th /\ x.bind[r].name = w.bind[r].name

Fewer(w, x) ==
    /\ DOMAIN x.bind \subseteq DOMAIN w.bind
    /\ \A r \in DOMAIN x.bind : x.bind[r].th = w.bind[r].th /\ x.bind[r].name = w.bind[r].name

\* No thread is loaded, and none with an unanswered request is unloaded.
KeepsPending(w, x) ==
    /\ x.loaded \subseteq w.loaded
    /\ \A th \in w.loaded : PendingOn(th) => th \in x.loaded

\* No binding goes while one of its requests is registered.
KeepsUsed(w, x) == \A r \in DOMAIN w.bind : active[r] > 0 => r \in DOMAIN x.bind

\* Nor is its thread unloaded, but by the clean-up of abandoned threads.
KeepsServed(w, x) ==
    w.aband = {} =>
        /\ x.aband = {}
        /\ \A r \in DOMAIN w.bind :
              active[r] > 0 /\ w.bind[r].th \in w.loaded => w.bind[r].th \in x.loaded

Follows(w, x) ==
    /\ Sound(x) /\ Fewer(w, x) /\ KeepsPending(w, x) /\ KeepsUsed(w, x)
    /\ KeepsServed(w, x)

LEMMA FollowsItself ==
    ASSUME NEW w, Sound(w)
    PROVE  Follows(w, w) /\ SameBindings(w, w)
BY DEF Follows, Fewer, KeepsPending, KeepsUsed, KeepsServed, SameBindings

LEMMA FollowsOn ==
    ASSUME NEW w, NEW x, NEW y, Follows(w, x), Follows(x, y)
    PROVE  Follows(w, y)
BY DEF Follows, Fewer, KeepsPending, KeepsUsed, KeepsServed

LEMMA SameOn ==
    ASSUME NEW w, NEW x, NEW y, SameBindings(w, x), SameBindings(x, y)
    PROVE  SameBindings(w, y)
BY DEF SameBindings

LEMMA StoredSame ==
    ASSUME NEW b, NEW c, DOMAIN b = DOMAIN c,
           \A r \in DOMAIN b : b[r].th = c[r].th /\ b[r].name = c[r].name
    PROVE  Stored(b) = Stored(c)
BY DEF Stored

\* _sync_connection_generation touches no binding.
LEMMA SyncedFollows ==
    ASSUME gen \in 0 .. GenBound, NEW w, Sound(w)
    PROVE  /\ Follows(w, Synced(w)) /\ SameBindings(w, Synced(w)) /\ IsWorld(Synced(w))
           /\ Synced(w).bind = w.bind /\ Synced(w).loaded = w.loaded
           /\ Synced(w).claimed = w.claimed /\ Synced(w).aband = w.aband
           /\ Synced(w).idle = w.idle /\ Synced(w).older = w.older
           /\ Synced(w).live \subseteq w.live /\ Synced(w).pendrel \subseteq w.pendrel
<1>1. CASE w.obs = gen
  BY <1>1, FollowsItself DEF Synced, Sound
<1>2. CASE w.obs # gen
  <2> DEFINE v == [w EXCEPT !.live = {}, !.pendrel = {}, !.obs = gen]
  <2>1. Synced(w) = v
    BY <1>2 DEF Synced
  <2>2. /\ IsWorld(v) /\ v.bind = w.bind /\ v.disk = w.disk /\ v.older = w.older /\ v.idle = w.idle
        /\ v.live = {} /\ v.pendrel = {} /\ v.obs = gen
        /\ v.loaded = w.loaded /\ v.claimed = w.claimed /\ v.aband = w.aband
    BY DEF Sound, IsWorld
  <2> HIDE DEF v
  <2>3. Sound(v)
    BY <2>2 DEF Sound, InThreads
  <2> QED
    BY <2>1, <2>2, <2>3 DEF Follows, Fewer, KeepsPending, KeepsUsed, KeepsServed, SameBindings
<1> QED
  BY <1>1, <1>2

\* A release of threads nobody has a request on detaches their bindings.
LEMMA ReleaseFollows ==
    ASSUME gen \in 0 .. GenBound, NEW w, Sound(w), NEW S, NEW F, F \subseteq Threads,
           \A th \in S : ~ PendingOn(th),
           \A r \in DOMAIN w.bind : active[r] > 0 => w.bind[r].th \notin S
    PROVE  /\ Follows(w, Release(w, S, F)) /\ SameBindings(w, Release(w, S, F))
           /\ Release(w, S, F).idle = w.idle
<1> DEFINE v == Synced(w)
           y == [v EXCEPT !.live = @ \ S, !.pendrel = (@ \ S) \cup F, !.bind = Detached(@, S)]
           x == [y EXCEPT !.loaded = @ \ (S \ F), !.claimed = @ \ (S \ F), !.aband = @ \ (S \ F)]
<1>1. Release(w, S, F) = x
  BY DEF Release, Unloaded
<1>2. Sound(v) /\ SameBindings(w, v) /\ KeepsPending(w, v) /\ v.bind = w.bind /\ v.idle = w.idle
  BY SyncedFollows DEF Follows
<1> HIDE DEF v
<1>3. /\ IsWorld(y) /\ y.bind = Detached(v.bind, S) /\ y.disk = v.disk /\ y.older = v.older
      /\ y.idle = v.idle /\ y.live = v.live \ S /\ y.pendrel = (v.pendrel \ S) \cup F /\ y.obs = v.obs
      /\ y.loaded = v.loaded /\ y.claimed = v.claimed /\ y.aband = v.aband
  BY <1>2 DEF Sound, IsWorld
<1> HIDE DEF y
<1>4. /\ IsWorld(x) /\ x.bind = y.bind /\ x.disk = y.disk /\ x.older = y.older
      /\ x.idle = y.idle /\ x.live = y.live /\ x.pendrel = y.pendrel /\ x.obs = y.obs
      /\ x.loaded = y.loaded \ (S \ F) /\ x.claimed = y.claimed \ (S \ F) /\ x.aband = y.aband \ (S \ F)
  BY <1>3 DEF IsWorld
<1> HIDE DEF x
<1>5. /\ AreBindings(x.bind) /\ DOMAIN x.bind = DOMAIN v.bind
      /\ \A r \in DOMAIN v.bind : x.bind[r].th = v.bind[r].th /\ x.bind[r].name = v.bind[r].name
  <2>1. x.bind = [r \in DOMAIN v.bind |-> IF v.bind[r].th \in S
                                          THEN [v.bind[r] EXCEPT !.status = "detached"] ELSE v.bind[r]]
    BY <1>3, <1>4 DEF Detached
  <2>2. ASSUME NEW r \in DOMAIN v.bind
        PROVE  IsBinding(x.bind[r]) /\ x.bind[r].th = v.bind[r].th /\ x.bind[r].name = v.bind[r].name
    <3>1. IsBinding(v.bind[r])
      BY <1>2 DEF Sound, AreBindings
    <3> QED
      BY <2>1, <3>1 DEF IsBinding
  <2>3. DOMAIN x.bind = DOMAIN v.bind /\ x.bind = [r \in DOMAIN x.bind |-> x.bind[r]]
    BY <2>1
  <2> QED
    BY <1>2, <2>2, <2>3 DEF AreBindings, Sound
<1>6. Sound(x)
  <2>1. Stored(x.bind) = Stored(v.bind)
    BY <1>5, StoredSame
  <2>2. InThreads(x)
    BY <1>2, <1>3, <1>4 DEF Sound, InThreads
  <2> QED
    BY <1>2, <1>3, <1>4, <1>5, <2>1, <2>2 DEF Sound
<1>7. KeepsPending(v, x)
  BY <1>3, <1>4 DEF KeepsPending
<1>8. SameBindings(w, x) /\ KeepsPending(w, x)
  BY <1>2, <1>5, <1>7 DEF SameBindings, KeepsPending
<1>9. KeepsServed(w, x)
  <2>1. v.aband = w.aband /\ v.loaded = w.loaded
    BY SyncedFollows DEF v
  <2>2. x.loaded = w.loaded \ (S \ F) /\ x.aband = w.aband \ (S \ F)
    BY <1>3, <1>4, <2>1
  <2> QED
    BY <2>2 DEF KeepsServed
<1> QED
  BY <1>1, <1>2, <1>3, <1>4, <1>6, <1>8, <1>9 DEF Follows, Fewer, KeepsUsed, SameBindings

LEMMA UsingPends ==
    ASSUME NEW w, NEW th, ~ Using(w, th)
    PROVE  /\ ~ PendingOn(th)
           /\ \A r \in DOMAIN w.bind : w.bind[r].th = th => ~ (active[r] > 0)
BY DEF Using

LEMMA FailuresAreOfThem ==
    ASSUME NEW S, NEW F \in MayFail(S)
    PROVE  F \subseteq S
BY DEF MayFail

\* Taking back an allocation, or a thread that is no longer wanted.
LEMMA ReleaseOneFollows ==
    ASSUME gen \in 0 .. GenBound, NEW w, Sound(w), NEW th \in Threads,
           NEW x \in ReleaseOne(w, th)
    PROVE  Follows(w, x.w) /\ SameBindings(w, x.w)
<1> DEFINE v == Synced(w)
<1>1. Follows(w, v) /\ SameBindings(w, v)
  BY SyncedFollows
<1>2. CASE th \notin Owned(v)
  BY <1>1, <1>2 DEF ReleaseOne, Ok
<1>3. CASE th \in Owned(v) /\ Using(v, th)
  BY <1>1, <1>3 DEF ReleaseOne, Raised
<1>4. CASE th \in Owned(v) /\ ~ Using(v, th)
  <2>1. PICK F \in MayFail({th}) : x.w = Release(v, {th}, F)
    BY <1>4 DEF ReleaseOne, Ok, Raised
  <2>2. F \subseteq Threads
    BY FailuresAreOfThem
  <2>3. Follows(v, x.w) /\ SameBindings(v, x.w)
    <3> HIDE DEF v
    <3>1. /\ Sound(v) /\ ~ PendingOn(th)
          /\ \A r \in DOMAIN v.bind : active[r] > 0 => v.bind[r].th \notin {th}
      BY <1>1, <1>4, UsingPends DEF Follows
    <3> QED
      BY <2>1, <2>2, <3>1, ReleaseFollows
  <2> QED
    BY <1>1, <2>3, FollowsOn, SameOn
<1> QED
  BY <1>2, <1>3, <1>4

-------------------------------------------------------------------------------
\* The order of use.

LEMMA AmongOrders ==
    ASSUME NEW R, NEW S, NEW T, IsOrder(R, S), T \subseteq S
    PROVE  IsOrder(Among(R, T), T)
<1>1. Among(R, T) \subseteq T \X T
  BY DEF IsOrder, Among
<1>2. \A q, r \in T : <<q, r>> \in Among(R, T) <=> <<q, r>> \in R
  BY DEF Among
<1>3. \A q, r \in T : q # r => (<<q, r>> \in Among(R, T) <=> <<r, q>> \notin Among(R, T))
  BY <1>2 DEF IsOrder
<1>4. \A q, r, s \in T : <<q, r>> \in Among(R, T) /\ <<r, s>> \in Among(R, T)
                         => <<q, s>> \in Among(R, T)
  BY <1>2 DEF IsOrder
<1>5. \A r \in T : <<r, r>> \notin Among(R, T)
  BY <1>2 DEF IsOrder
<1> QED
  BY <1>1, <1>3, <1>4, <1>5 DEF IsOrder

LEMMA LastOrders ==
    ASSUME NEW R, NEW T, NEW r, IsOrder(R, T), r \notin T
    PROVE  IsOrder(R \cup (T \X {r}), T \cup {r})
<1> DEFINE Q == R \cup (T \X {r})
           U == T \cup {r}
<1>1. R \subseteq T \X T
  BY DEF IsOrder
<1>2. /\ \A p, q \in T : <<p, q>> \in Q <=> <<p, q>> \in R
      /\ \A p \in T : <<p, r>> \in Q /\ <<r, p>> \notin Q
      /\ <<r, r>> \notin Q /\ Q \subseteq U \X U
  BY <1>1
<1> HIDE DEF Q
<1>3. \A p, q \in U : p # q => (<<p, q>> \in Q <=> <<q, p>> \notin Q)
  BY <1>2 DEF IsOrder
<1>4. \A p, q, s \in U : <<p, q>> \in Q /\ <<q, s>> \in Q => <<p, s>> \in Q
  BY <1>2 DEF IsOrder
<1>5. \A p \in U : <<p, p>> \notin Q
  BY <1>2 DEF IsOrder
<1>6. IsOrder(Q, U)
  BY <1>2, <1>3, <1>4, <1>5 DEF IsOrder
<1> QED
  BY <1>6 DEF Q

LEMMA UsedNowOrders ==
    ASSUME NEW R, NEW S, NEW D, NEW r, IsOrder(R, S), D \ {r} \subseteq S, r \in D
    PROVE  IsOrder(Among(R, D \ {r}) \cup ((D \ {r}) \X {r}), D)
<1>1. IsOrder(Among(R, D \ {r}), D \ {r})
  BY AmongOrders
<1>2. IsOrder(Among(R, D \ {r}) \cup ((D \ {r}) \X {r}), (D \ {r}) \cup {r})
  BY <1>1, LastOrders
<1>3. (D \ {r}) \cup {r} = D
  OBVIOUS
<1> QED
  BY <1>2, <1>3

\* last_used_at is of a runtime that is bound.
LEMMA UsedNowFollows ==
    ASSUME NEW w, Sound(w), NEW r \in DOMAIN w.bind
    PROVE  Follows(w, UsedNow(w, r)) /\ SameBindings(w, UsedNow(w, r))
<1> DEFINE x == UsedNow(w, r)
<1>9. IsWorld(w)
  BY DEF Sound
<1>1. /\ IsWorld(x) /\ x.bind = w.bind /\ x.disk = w.disk /\ x.idle = w.idle \ {r}
      /\ x.older = Among(w.older, DOMAIN w.bind \ {r}) \cup ((DOMAIN w.bind \ {r}) \X {r})
      /\ x.live = w.live /\ x.pendrel = w.pendrel /\ x.obs = w.obs
      /\ x.loaded = w.loaded /\ x.claimed = w.claimed /\ x.aband = w.aband
  BY <1>9 DEF UsedNow, IsWorld
<1> HIDE DEF x
<1>2. IsOrder(x.older, DOMAIN x.bind)
  BY <1>1, UsedNowOrders DEF Sound
<1>3. Sound(x)
  BY <1>1, <1>2 DEF Sound, InThreads
<1>4. Follows(w, x) /\ SameBindings(w, x)
  BY <1>1, <1>3 DEF Follows, Fewer, KeepsPending, KeepsUsed, KeepsServed, SameBindings
<1> QED
  BY <1>4 DEF x

-------------------------------------------------------------------------------
\* Saving the bindings.

SavedWorld(w, b) ==
    [w EXCEPT !.bind = b, !.disk = Stored(b), !.older = Among(@, DOMAIN b),
              !.idle = @ \cap DOMAIN b]

LEMMA SavedFields ==
    ASSUME NEW w, IsWorld(w), NEW b
    PROVE  LET x == SavedWorld(w, b)
           IN  /\ IsWorld(x) /\ x.bind = b /\ x.disk = Stored(b)
               /\ x.older = Among(w.older, DOMAIN b) /\ x.idle = w.idle \cap DOMAIN b
               /\ x.live = w.live /\ x.pendrel = w.pendrel /\ x.obs = w.obs
               /\ x.loaded = w.loaded /\ x.claimed = w.claimed /\ x.aband = w.aband
BY DEF IsWorld, SavedWorld

LEMMA SavedIs ==
    ASSUME NEW w, NEW b, NEW x \in Saved(w, b)
    PROVE  (x.ok /\ x.w = SavedWorld(w, b)) \/ (~ x.ok /\ x.w = w)
BY DEF Saved, SavedWorld, Ok, Raised, Fault

LEMMA SavedFollows ==
    ASSUME NEW w, Sound(w), NEW b, AreBindings(b), DOMAIN b \subseteq DOMAIN w.bind,
           \A r \in DOMAIN b : b[r].th = w.bind[r].th /\ b[r].name = w.bind[r].name,
           \A r \in DOMAIN w.bind : active[r] > 0 => r \in DOMAIN b,
           NEW x \in Saved(w, b)
    PROVE  Follows(w, x.w) /\ (x.ok => x.w.bind = b)
<1>1. CASE ~ x.ok /\ x.w = w
  BY <1>1, FollowsItself
<1>2. CASE x.ok /\ x.w = SavedWorld(w, b)
  <2> DEFINE y == x.w
  <2>1. /\ IsWorld(y) /\ y.bind = b /\ y.disk = Stored(b)
        /\ y.older = Among(w.older, DOMAIN b) /\ y.idle = w.idle \cap DOMAIN b
        /\ y.live = w.live /\ y.pendrel = w.pendrel /\ y.obs = w.obs
        /\ y.loaded = w.loaded /\ y.claimed = w.claimed /\ y.aband = w.aband
    BY <1>2, SavedFields DEF Sound
  <2> HIDE DEF y
  <2>2. IsOrder(y.older, DOMAIN y.bind)
    BY <2>1, AmongOrders DEF Sound
  <2>3. Sound(y)
    BY <2>1, <2>2 DEF Sound, InThreads
  <2>4. Follows(w, y)
    BY <2>1, <2>3 DEF Follows, Fewer, KeepsPending, KeepsUsed, KeepsServed
  <2> QED
    BY <2>1, <2>4 DEF y
<1> QED
  BY <1>1, <1>2, SavedIs

LEMMA WithoutIsFewer ==
    ASSUME NEW b, AreBindings(b), NEW R
    PROVE  /\ AreBindings(Without(b, R)) /\ DOMAIN Without(b, R) = DOMAIN b \ R
           /\ \A r \in DOMAIN b \ R : Without(b, R)[r] = b[r]
BY DEF Without, AreBindings

LEMMA RemovedFollows ==
    ASSUME NEW w, Sound(w), NEW R, \A r \in R : ~ (active[r] > 0),
           NEW x \in Saved(w, Without(w.bind, R))
    PROVE  Follows(w, x.w) /\ (x.ok => DOMAIN x.w.bind = DOMAIN w.bind \ R)
<1>1. AreBindings(w.bind)
  BY DEF Sound
<1>2. /\ AreBindings(Without(w.bind, R)) /\ DOMAIN Without(w.bind, R) = DOMAIN w.bind \ R
      /\ \A r \in DOMAIN w.bind \ R : Without(w.bind, R)[r] = w.bind[r]
  BY <1>1, WithoutIsFewer
<1> QED
  BY <1>2, SavedFollows

-------------------------------------------------------------------------------
\* What a collection and a new runtime's room take.

\* A binding goes with its thread, or without one; a thread nobody has a request
\* on is what goes.
LEMMA CollectedFollows ==
    ASSUME gen \in 0 .. GenBound, NEW w, Sound(w), NEW x \in Collected(w)
    PROVE  Follows(w, x.w)
<1> DEFINE expired == {r \in w.idle : ~ Using(w, w.bind[r].th)}
           v       == Synced(w)
           ours    == Ours(v, expired)
           gone(F) == {r \in expired : v.bind[r].th \notin F}
           y(F)    == Release(v, ours, F)
<1>1. CASE expired = {}
  BY <1>1, FollowsItself DEF Collected, Ok
<1>2. CASE expired # {}
  <2>1. PICK F \in MayFail(ours) : x \in IF gone(F) = {} THEN {Ok(y(F))}
                                         ELSE Saved(y(F), Without(y(F).bind, gone(F)))
    BY <1>2 DEF Collected
  <2>2. Follows(w, v) /\ v.bind = w.bind
    BY SyncedFollows
  <2>3. /\ expired \subseteq DOMAIN w.bind
        /\ \A r \in expired : ~ PendingOn(w.bind[r].th) /\ ~ (active[r] > 0)
        /\ \A r \in DOMAIN w.bind : w.bind[r].th \in Threads
    BY UsingPends DEF Sound, AreBindings, IsBinding
  <2>4. /\ ours \subseteq Threads /\ \A th \in ours : ~ PendingOn(th)
        /\ F \subseteq Threads
    BY <2>2, <2>3, FailuresAreOfThem DEF Ours
  <2>5. Sound(v)
    BY <2>2 DEF Follows
  <2>11. \A r \in DOMAIN v.bind : active[r] > 0 => v.bind[r].th \notin ours
    BY <2>2, <2>3, UsingPends DEF Ours
  <2>6. Follows(v, y(F))
    <3> HIDE DEF v, ours
    <3> QED
      BY <2>4, <2>5, <2>11, ReleaseFollows
  <2> DEFINE z == y(F)
             g == gone(F)
  <2>7. Follows(w, z) /\ Sound(z)
    BY <2>2, <2>6, FollowsOn DEF Follows
  <2>8. /\ x \in IF g = {} THEN {Ok(z)} ELSE Saved(z, Without(z.bind, g))
        /\ \A r \in g : ~ (active[r] > 0)
    BY <2>1, <2>3
  <2> HIDE DEF z, g
  <2>9. CASE g = {}
    BY <2>7, <2>8, <2>9 DEF Ok
  <2>10. CASE g # {}
    BY <2>7, <2>8, <2>10, RemovedFollows, FollowsOn
  <2> QED
    BY <2>9, <2>10
<1> QED
  BY <1>1, <1>2

LEMMA CountsOfWorld ==
    ASSUME NEW w, Sound(w)
    PROVE  /\ IsFiniteSet(DOMAIN w.bind) /\ Cardinality(DOMAIN w.bind) \in Nat
           /\ Cardinality((w.live \cup w.pendrel) \ Bound(w)) \in Nat
<1>1. DOMAIN w.bind \subseteq 1 .. RuntimeBound
  BY DEF Sound, AreBindings, Runtimes
<1>2. (w.live \cup w.pendrel) \ Bound(w) \subseteq 1 .. ThreadBound
  BY DEF Sound, InThreads, Threads
<1>3. IsFiniteSet(1 .. RuntimeBound) /\ IsFiniteSet(1 .. ThreadBound)
  BY LimitsAssumption, FS_Interval
<1> QED
  BY <1>1, <1>2, <1>3, FS_Subset, FS_CardinalityType

\* The threads of bindings that nobody uses may be released.
LEMMA EvictableFollows ==
    ASSUME gen \in 0 .. GenBound, NEW w, Sound(w), NEW V \in SUBSET Evictable(w),
           NEW F, F \subseteq Threads
    PROVE  LET v == Synced(w) IN
           /\ Follows(w, Release(v, Ours(v, V), F))
           /\ DOMAIN Release(v, Ours(v, V), F).bind = DOMAIN w.bind
<1> DEFINE v == Synced(w)
           ours == Ours(v, V)
           y == Release(v, ours, F)
<1>1. Follows(w, v) /\ v.bind = w.bind /\ Sound(v)
  BY SyncedFollows DEF Follows
<1>2. \A th \in ours : ~ PendingOn(th)
  BY <1>1, UsingPends DEF Ours, Evictable
<1>5. \A r \in DOMAIN v.bind : active[r] > 0 => v.bind[r].th \notin ours
  BY <1>1, UsingPends DEF Ours, Evictable
<1>3. Follows(v, y) /\ SameBindings(v, y)
  <2> HIDE DEF v, ours
  <2> QED
    BY <1>1, <1>2, <1>5, ReleaseFollows
<1>4. Follows(w, y) /\ DOMAIN y.bind = DOMAIN w.bind
  <2> HIDE DEF v, y
  <2> QED
    BY <1>1, <1>3, FollowsOn DEF SameBindings
<1> QED
  BY <1>4

LEMMA EvictFollows ==
    ASSUME gen \in 0 .. GenBound, NEW w, Sound(w), NEW V \in SUBSET Evictable(w),
           NEW x \in Evict(Synced(w), V)
    PROVE  /\ Follows(w, x.w)
           /\ x.ok => Cardinality(DOMAIN x.w.bind) = Cardinality(DOMAIN w.bind) - Cardinality(V)
<1> DEFINE v == Synced(w)
           y == Release(v, Ours(v, V), {})
<1>1. Follows(w, y) /\ Sound(y) /\ DOMAIN y.bind = DOMAIN w.bind
  BY EvictableFollows DEF Follows
<1>2. x \in Saved(y, Without(y.bind, V))
  BY DEF Evict
<1>8. \A r \in V : ~ (active[r] > 0)
  BY UsingPends DEF Evictable
<1> HIDE DEF y
<1>3. Follows(y, x.w) /\ (x.ok => DOMAIN x.w.bind = DOMAIN y.bind \ V)
  BY <1>1, <1>2, <1>8, RemovedFollows
<1>4. Follows(w, x.w)
  BY <1>1, <1>3, FollowsOn
<1>5. DOMAIN w.bind \cap V = V
  BY DEF Evictable
<1>6. Cardinality(DOMAIN w.bind \ V) = Cardinality(DOMAIN w.bind) - Cardinality(V)
  BY <1>5, CountsOfWorld, FS_Difference
<1>7. ASSUME x.ok
      PROVE  Cardinality(DOMAIN x.w.bind) = Cardinality(DOMAIN w.bind) - Cardinality(V)
  <2>1. DOMAIN x.w.bind = DOMAIN w.bind \ V
    BY <1>1, <1>3, <1>7
  <2> QED
    BY <2>1, <1>6
<1> QED
  BY <1>4, <1>7

LEMMA EvictFailsFollows ==
    ASSUME gen \in 0 .. GenBound, NEW w, Sound(w), NEW V \in SUBSET Evictable(w),
           NEW x \in EvictFails(Synced(w), V)
    PROVE  Follows(w, x.w) /\ ~ x.ok
<1> DEFINE v == Synced(w)
<1>1. PICK r \in V : x = Raised(Release(v, Ours(v, V), {v.bind[r].th}))
  BY DEF EvictFails
<1>2. v.bind[r].th \in Threads
  BY SyncedFollows DEF Evictable, Sound, AreBindings, IsBinding
<1>3. Follows(w, Release(v, Ours(v, V), {v.bind[r].th}))
  BY <1>2, EvictableFollows
<1> QED
  BY <1>1, <1>3 DEF Raised

\* _ensure_capacity_locked makes room for one binding or fails.
LEMMA EvictedFollows ==
    ASSUME gen \in 0 .. GenBound, NEW w, Sound(w), NEW x \in Evicted(w)
    PROVE  /\ Follows(w, x.w)
           /\ x.ok => Cardinality(DOMAIN x.w.bind) + 1 <= MaxRuntimes
<1> DEFINE n    == Cardinality(DOMAIN w.bind)
           u    == Cardinality((w.live \cup w.pendrel) \ Bound(w))
           over == Needed(w) - MaxRuntimes
<1>1. n \in Nat /\ u \in Nat /\ MaxRuntimes \in Nat /\ Needed(w) = n + u + 1
  BY CountsOfWorld, LimitsAssumption DEF Needed
<1>2. CASE Needed(w) <= MaxRuntimes
  <2>1. x.w = w
    BY <1>2 DEF Evicted, Ok
  <2>2. n + 1 <= MaxRuntimes
    <3> HIDE DEF n, u
    <3> QED
      BY <1>1, <1>2
  <2> QED
    BY <2>1, <2>2, FollowsItself
<1>3. CASE ~ (Needed(w) <= MaxRuntimes) /\ Cardinality(Evictable(w)) < over
  BY <1>3, FollowsItself DEF Evicted, Raised
<1>4. CASE ~ (Needed(w) <= MaxRuntimes) /\ ~ (Cardinality(Evictable(w)) < over)
  <2>1. x \in Evictions(w, over) \/ x \in FailedEvictions(w, over)
    BY <1>4 DEF Evicted
  <2>2. ASSUME NEW k, NEW V \in Victims(w, k)
        PROVE  V \in SUBSET Evictable(w) /\ Cardinality(V) = k
    BY DEF Victims, First
  <2>3. CASE x \in Evictions(w, over)
    <3>1. PICK V \in Victims(w, over) : x \in Evict(Synced(w), V)
      BY <2>3 DEF Evictions
    <3>2. V \in SUBSET Evictable(w) /\ Cardinality(V) = over
      BY <2>2
    <3>3. Follows(w, x.w) /\ (x.ok => Cardinality(DOMAIN x.w.bind) = n - over)
      BY <3>1, <3>2, EvictFollows
    <3>4. n - over + 1 <= MaxRuntimes
      <4> HIDE DEF n, u
      <4> QED
        BY <1>1
    <3> QED
      BY <3>3, <3>4
  <2>4. CASE x \in FailedEvictions(w, over)
    <3>1. PICK k \in 1 .. over : \E V \in Victims(w, k) : x \in EvictFails(Synced(w), V)
      BY <2>4 DEF FailedEvictions
    <3>2. PICK V \in Victims(w, k) : x \in EvictFails(Synced(w), V)
      BY <3>1
    <3>3. V \in SUBSET Evictable(w)
      BY <2>2
    <3> QED
      BY <3>2, <3>3, EvictFailsFollows
  <2> QED
    BY <2>1, <2>3, <2>4
<1> QED
  BY <1>2, <1>3, <1>4

LEMMA CapacityFollows ==
    ASSUME gen \in 0 .. GenBound, NEW w, Sound(w), NEW x \in Capacity(w)
    PROVE  /\ Follows(w, x.w)
           /\ x.ok => Cardinality(DOMAIN x.w.bind) + 1 <= MaxRuntimes
<1>1. PICK y \in Collected(w) : x \in IF y.ok THEN Evicted(y.w) ELSE {y}
  BY DEF Capacity
<1>2. Follows(w, y.w) /\ Sound(y.w)
  BY CollectedFollows DEF Follows
<1>3. CASE y.ok
  BY <1>1, <1>2, <1>3, EvictedFollows, FollowsOn
<1>4. CASE ~ y.ok
  BY <1>1, <1>2, <1>4
<1> QED
  BY <1>3, <1>4

-------------------------------------------------------------------------------
\* Collection, closing, touching.

LEMMA UnloadedFollows ==
    ASSUME NEW w, Sound(w), NEW S \in SUBSET w.aband, \A th \in S : ~ PendingOn(th)
    PROVE  Follows(w, Unloaded(w, S)) /\ SameBindings(w, Unloaded(w, S))
<1> DEFINE x == Unloaded(w, S)
<1>1. IsWorld(w)
  BY DEF Sound
<1>2. /\ IsWorld(x) /\ x.bind = w.bind /\ x.disk = w.disk /\ x.older = w.older
      /\ x.idle = w.idle /\ x.live = w.live /\ x.pendrel = w.pendrel /\ x.obs = w.obs
      /\ x.loaded = w.loaded \ S /\ x.claimed = w.claimed \ S /\ x.aband = w.aband \ S
  BY <1>1 DEF IsWorld, Unloaded
<1> HIDE DEF x
<1>3. Sound(x)
  BY <1>2 DEF Sound, InThreads
<1>4. Follows(w, x) /\ SameBindings(w, x)
  BY <1>2, <1>3 DEF Follows, Fewer, KeepsPending, KeepsUsed, KeepsServed, SameBindings
<1> QED
  BY <1>4 DEF x

\* cleanup_abandoned_threads.
LEMMA CleanedUpFollows ==
    ASSUME NEW w, Sound(w), NEW x \in CleanedUp(w)
    PROVE  Follows(w, x.w)
<1> DEFINE free == {th \in w.aband : ~ PendingOn(th)}
<1>1. \E S : S \subseteq free /\ x.w = Unloaded(w, S)
  BY DEF CleanedUp, Ok, Raised
<1>2. PICK S : S \subseteq free /\ x.w = Unloaded(w, S)
  BY <1>1
<1> QED
  BY <1>2, UnloadedFollows

LEMMA SweptFollows ==
    ASSUME gen \in 0 .. GenBound, NEW w, Sound(w), NEW x \in Swept(w)
    PROVE  Follows(w, x.w)
<1> DEFINE unbound == (w.live \cup w.pendrel) \ Bound(w)
           free    == {th \in unbound : ~ Using(w, th)}
<1>1. PICK S, F : S \subseteq free /\ F \subseteq S /\ x.w = Release(w, S, F)
  <2> DEFINE done   == IF free = unbound THEN {Ok(Release(w, unbound, {}))}
                       ELSE {Raised(Release(w, S, {})) : S \in SUBSET free}
             failed == UNION {{Raised(Release(w, S, {th})) : th \in {y \in S : {y} \in MayFail(free)}} :
                                S \in SUBSET free}
  <2>1. x \in done \cup failed
    BY DEF Swept
  <2>2. CASE x \in done
    BY <2>2 DEF Ok, Raised
  <2>3. CASE x \in failed
    <3>1. PICK S \in SUBSET free : x \in {Raised(Release(w, S, {th})) : th \in {y \in S : {y} \in MayFail(free)}}
      BY <2>3
    <3>2. PICK th \in S : x = Raised(Release(w, S, {th}))
      BY <3>1
    <3>3. x.w = Release(w, S, {th})
      BY <3>2 DEF Raised
    <3> QED
      BY <3>3
  <2> HIDE DEF done, failed
  <2> QED
    BY <2>1, <2>2, <2>3
<1>2. /\ \A th \in S : ~ PendingOn(th)
      /\ \A r \in DOMAIN w.bind : active[r] > 0 => w.bind[r].th \notin S
  BY <1>1, UsingPends
<1>3. F \subseteq Threads
  BY <1>1 DEF Sound, InThreads
<1> QED
  BY <1>1, <1>2, <1>3, ReleaseFollows

\* _collect_expired_idle: whatever part of it succeeds.
LEMMA CollectedAllFollows ==
    ASSUME gen \in 0 .. GenBound, NEW w, Sound(w), NEW suppress,
           NEW x \in CollectedAll(w, suppress)
    PROVE  Follows(w, x.w)
<1> DEFINE swept == UNION {IF y.ok THEN Swept(y.w) ELSE {y} : y \in CleanedUp(Synced(w))}
<1>1. Follows(w, Synced(w)) /\ Sound(Synced(w))
  BY SyncedFollows DEF Follows
<1>2. PICK z \in swept : x \in IF z.ok \/ suppress THEN Collected(z.w) ELSE {z}
  BY DEF CollectedAll
<1>3. PICK y \in CleanedUp(Synced(w)) : z \in IF y.ok THEN Swept(y.w) ELSE {y}
  OBVIOUS
<1>4. Follows(w, y.w) /\ Sound(y.w)
  BY <1>1, CleanedUpFollows, FollowsOn DEF Follows
<1>5. Follows(w, z.w) /\ Sound(z.w)
  <2>1. CASE y.ok
    BY <1>3, <1>4, <2>1, SweptFollows, FollowsOn DEF Follows
  <2>2. CASE ~ y.ok
    BY <1>3, <1>4, <2>2
  <2> QED
    BY <2>1, <2>2
<1>6. CASE z.ok \/ suppress
  BY <1>2, <1>5, <1>6, CollectedFollows, FollowsOn
<1>7. CASE ~ (z.ok \/ suppress)
  BY <1>2, <1>5, <1>7
<1> QED
  BY <1>6, <1>7

WithStatus(b, r, s) == [b EXCEPT ![r].status = s]

LEMMA StatusOnly ==
    ASSUME NEW b, AreBindings(b), NEW r \in DOMAIN b, NEW s \in {"ready", "detached"}
    PROVE  /\ AreBindings(WithStatus(b, r, s)) /\ DOMAIN WithStatus(b, r, s) = DOMAIN b
           /\ \A q \in DOMAIN b : /\ WithStatus(b, r, s)[q].th = b[q].th
                                  /\ WithStatus(b, r, s)[q].name = b[q].name
<1> DEFINE c == WithStatus(b, r, s)
<1>1. DOMAIN c = DOMAIN b /\ c = [q \in DOMAIN c |-> c[q]]
  BY DEF AreBindings, WithStatus
<1>2. ASSUME NEW q \in DOMAIN b
      PROVE  IsBinding(c[q]) /\ c[q].th = b[q].th /\ c[q].name = b[q].name
  BY DEF AreBindings, IsBinding, WithStatus
<1> QED
  BY <1>1, <1>2 DEF AreBindings

\* _touch: the file need not be written, since nothing in it changes.
LEMMA TouchedFollows ==
    ASSUME NEW w, Sound(w), NEW r, NEW x \in Touched(w, r)
    PROVE  /\ Follows(w, x) /\ SameBindings(w, x)
           /\ x.live = w.live /\ x.pendrel = w.pendrel /\ x.obs = w.obs
           /\ x.loaded = w.loaded /\ x.claimed = w.claimed /\ x.aband = w.aband
<1>1. CASE r \notin DOMAIN w.bind
  BY <1>1, FollowsItself DEF Touched
<1>2. CASE r \in DOMAIN w.bind
  <2> DEFINE b == [w.bind EXCEPT ![r].status = "ready"]
             y == [w EXCEPT !.bind = b]
             v == UsedNow(y, r)
  <2>13. AreBindings(w.bind)
    BY DEF Sound
  <2>1. /\ AreBindings(b) /\ DOMAIN b = DOMAIN w.bind
        /\ \A q \in DOMAIN b : b[q].th = w.bind[q].th /\ b[q].name = w.bind[q].name
    <3>1. b = WithStatus(w.bind, r, "ready")
      BY DEF WithStatus
    <3> HIDE DEF b
    <3>2. AreBindings(b) /\ DOMAIN b = DOMAIN w.bind
      BY <1>2, <2>13, <3>1, StatusOnly
    <3>3. \A q \in DOMAIN b : b[q].th = w.bind[q].th
      BY <3>2, <1>2, <2>13, <3>1, StatusOnly
    <3>4. \A q \in DOMAIN b : b[q].name = w.bind[q].name
      BY <3>2, <1>2, <2>13, <3>1, StatusOnly
    <3> QED
      BY <3>2, <3>3, <3>4
  <2>2. Stored(b) = w.disk
    BY <2>1, StoredSame DEF Sound
  <2>3. x \in {[v EXCEPT !.disk = Stored(b)]} \cup Fault("save", {v})
    BY <1>2 DEF Touched
  <2>4. x = v \/ x = [v EXCEPT !.disk = Stored(b)]
    BY <2>3 DEF Fault
  <2> HIDE DEF b
  <2>5. /\ IsWorld(y) /\ y.bind = b /\ y.disk = w.disk /\ y.older = w.older
        /\ y.idle = w.idle /\ y.live = w.live /\ y.pendrel = w.pendrel /\ y.obs = w.obs
        /\ y.loaded = w.loaded /\ y.claimed = w.claimed /\ y.aband = w.aband
    BY DEF Sound, IsWorld
  <2> HIDE DEF y
  <2>6. Sound(y)
    BY <2>1, <2>2, <2>5 DEF Sound, InThreads
  <2>7. Follows(w, y) /\ SameBindings(w, y)
    BY <2>1, <2>5, <2>6 DEF Follows, Fewer, KeepsPending, KeepsUsed, KeepsServed, SameBindings
  <2>8. Follows(y, v) /\ SameBindings(y, v)
    BY <1>2, <2>1, <2>5, <2>6, UsedNowFollows
  <2>9. /\ IsWorld(v) /\ v.bind = y.bind /\ v.disk = y.disk
        /\ v.live = y.live /\ v.pendrel = y.pendrel /\ v.obs = y.obs
        /\ v.loaded = y.loaded /\ v.claimed = y.claimed /\ v.aband = y.aband
    BY <2>5 DEF UsedNow, IsWorld
  <2> HIDE DEF v
  <2>10. Follows(w, v) /\ SameBindings(w, v)
    BY <2>7, <2>8, FollowsOn, SameOn
  <2>11. /\ IsWorld(x) /\ x.bind = v.bind /\ x.disk = v.disk /\ x.older = v.older /\ x.idle = v.idle
         /\ x.live = v.live /\ x.pendrel = v.pendrel /\ x.obs = v.obs
         /\ x.loaded = v.loaded /\ x.claimed = v.claimed /\ x.aband = v.aband
    <3>1. CASE x = v
      BY <2>9, <3>1
    <3>2. CASE x = [v EXCEPT !.disk = Stored(b)]
      <4>1. v.disk = Stored(b)
        BY <2>2, <2>5, <2>9
      <4> QED
        BY <2>9, <3>2, <4>1 DEF IsWorld
    <3> QED
      BY <2>4, <3>1, <3>2
  <2>12. Sound(x)
    BY <2>10, <2>11 DEF Sound, InThreads, Follows
  <2> QED
    BY <2>5, <2>9, <2>10, <2>11, <2>12 DEF Follows, Fewer, KeepsPending, KeepsUsed, KeepsServed, SameBindings
<1> QED
  BY <1>1, <1>2

\* close_runtime keeps the binding.
LEMMA ClosedFollows ==
    ASSUME gen \in 0 .. GenBound, NEW w, Sound(w), NEW r \in DOMAIN w.bind, NEW release,
           NEW x \in Closed(w, r, release)
    PROVE  Follows(w, x.w) /\ SameBindings(w, x.w)
<1> DEFINE detached(y) == [y.w.bind EXCEPT ![r].status = "detached"]
<1>1. PICK y \in IF release THEN ReleaseOne(w, w.bind[r].th) ELSE {Ok(w)} :
           x \in IF y.ok THEN {IF z.ok THEN Ok(UsedNow(z.w, r)) ELSE z : z \in Saved(y.w, detached(y))}
                 ELSE {y}
  BY DEF Closed
<1>2. w.bind[r].th \in Threads
  BY DEF Sound, AreBindings, IsBinding
<1>3. Follows(w, y.w) /\ SameBindings(w, y.w) /\ Sound(y.w) /\ r \in DOMAIN y.w.bind
  <2>1. CASE release
    BY <1>1, <1>2, <2>1, ReleaseOneFollows DEF Follows, SameBindings
  <2>2. CASE ~ release
    BY <1>1, <2>2, FollowsItself DEF Ok
  <2> QED
    BY <2>1, <2>2 DEF Follows, SameBindings
<1>4. CASE ~ y.ok
  BY <1>1, <1>3, <1>4
<1>5. CASE y.ok
  <2>1. PICK z \in Saved(y.w, detached(y)) : x = IF z.ok THEN Ok(UsedNow(z.w, r)) ELSE z
    BY <1>1, <1>5
  <2> DEFINE b == detached(y)
  <2>8. AreBindings(y.w.bind)
    BY <1>3 DEF Sound
  <2>2. /\ AreBindings(b) /\ DOMAIN b = DOMAIN y.w.bind
        /\ \A q \in DOMAIN b : b[q].th = y.w.bind[q].th /\ b[q].name = y.w.bind[q].name
    <3>1. b = WithStatus(y.w.bind, r, "detached")
      BY DEF WithStatus
    <3> HIDE DEF b
    <3>2. AreBindings(b) /\ DOMAIN b = DOMAIN y.w.bind
      BY <1>3, <2>8, <3>1, StatusOnly
    <3>3. \A q \in DOMAIN b : b[q].th = y.w.bind[q].th
      BY <3>2, <1>3, <2>8, <3>1, StatusOnly
    <3>4. \A q \in DOMAIN b : b[q].name = y.w.bind[q].name
      BY <3>2, <1>3, <2>8, <3>1, StatusOnly
    <3> QED
      BY <3>2, <3>3, <3>4
  <2>9. z \in Saved(y.w, b)
    BY <2>1
  <2> HIDE DEF b
  <2>3. Follows(y.w, z.w) /\ (z.ok => z.w.bind = b)
    BY <1>3, <2>9, <2>2, SavedFollows
  <2>4. SameBindings(y.w, z.w)
    <3>1. CASE z.ok
      BY <2>2, <2>3, <3>1 DEF SameBindings
    <3>2. CASE ~ z.ok
      BY <2>1, <3>2, SavedIs DEF SameBindings
    <3> QED
      BY <3>1, <3>2
  <2>5. Follows(w, z.w) /\ SameBindings(w, z.w) /\ Sound(z.w) /\ r \in DOMAIN z.w.bind
    BY <1>3, <2>3, <2>4, FollowsOn, SameOn DEF Follows, SameBindings
  <2>6. CASE z.ok
    <3>1. x.w = UsedNow(z.w, r)
      BY <2>1, <2>6 DEF Ok
    <3> QED
      BY <2>5, <3>1, UsedNowFollows, FollowsOn, SameOn
  <2>7. CASE ~ z.ok
    BY <2>1, <2>5, <2>7
  <2> QED
    BY <2>6, <2>7
<1> QED
  BY <1>4, <1>5

-------------------------------------------------------------------------------
\* A binding that is entered, new or for its old runtime.
LEMMA EnteredSound ==
    ASSUME NEW w, Sound(w), NEW r \in Runtimes, NEW th \in Threads, NEW name \in BOOLEAN,
           NEW x \in Entered(w, r, th, name)
    PROVE  /\ Sound(x.w) /\ x.w.loaded = w.loaded /\ x.w.aband = w.aband
           /\ ~ x.ok => x.w.bind = w.bind
           /\ x.ok => /\ DOMAIN x.w.bind = DOMAIN w.bind \cup {r}
                      /\ x.w.bind[r].th = th /\ x.w.bind[r].name = name
                      /\ \A q \in DOMAIN w.bind \ {r} : x.w.bind[q] = w.bind[q]
<1> DEFINE b == [q \in DOMAIN w.bind \cup {r} |->
                    IF q = r THEN [th |-> th, status |-> "ready", name |-> name] ELSE w.bind[q]]
           v == [w EXCEPT !.live = @ \cup {th}]
<1>1. PICK y \in Saved(v, b) : x = IF y.ok THEN Ok(UsedNow(y.w, r)) ELSE y
  BY DEF Entered
<1>2. /\ IsWorld(v) /\ v.bind = w.bind /\ v.disk = w.disk /\ v.older = w.older /\ v.idle = w.idle
      /\ v.live = w.live \cup {th} /\ v.pendrel = w.pendrel /\ v.obs = w.obs
      /\ v.loaded = w.loaded /\ v.claimed = w.claimed /\ v.aband = w.aband
  BY DEF Sound, IsWorld
<1>3. DOMAIN b = DOMAIN w.bind \cup {r} /\ b = [q \in DOMAIN b |-> b[q]]
  OBVIOUS
<1>4. b[r].th = th /\ b[r].name = name /\ IsBinding(b[r])
  BY DEF IsBinding
<1>5. \A q \in DOMAIN w.bind \ {r} : b[q] = w.bind[q]
  OBVIOUS
<1> HIDE DEF b, v
<1>6. AreBindings(b)
  BY <1>3, <1>4, <1>5 DEF Sound, AreBindings
<1>7. CASE ~ y.ok
  <2>1. x.w = v /\ ~ x.ok
    BY <1>1, <1>7, SavedIs
  <2>2. Sound(v)
    BY <1>2 DEF Sound, InThreads
  <2> QED
    BY <1>2, <2>1, <2>2
<1>8. CASE y.ok
  <2> DEFINE z == SavedWorld(v, b)
             u == UsedNow(z, r)
  <2>1. x.w = u /\ x.ok
    BY <1>1, <1>8, SavedIs DEF Ok
  <2>2. /\ IsWorld(z) /\ z.bind = b /\ z.disk = Stored(b)
        /\ z.older = Among(v.older, DOMAIN b) /\ z.idle = v.idle \cap DOMAIN b
        /\ z.live = v.live /\ z.pendrel = v.pendrel /\ z.obs = v.obs
        /\ z.loaded = v.loaded /\ z.claimed = v.claimed /\ z.aband = v.aband
    BY <1>2, SavedFields
  <2> HIDE DEF z
  <2>3. /\ IsWorld(u) /\ u.bind = z.bind /\ u.disk = z.disk /\ u.idle = z.idle \ {r}
        /\ u.older = Among(z.older, DOMAIN z.bind \ {r}) \cup ((DOMAIN z.bind \ {r}) \X {r})
        /\ u.live = z.live /\ u.pendrel = z.pendrel /\ u.obs = z.obs
        /\ u.loaded = z.loaded /\ u.claimed = z.claimed /\ u.aband = z.aband
    BY <2>2 DEF UsedNow, IsWorld
  <2> HIDE DEF u
  <2>4. IsOrder(u.older, DOMAIN u.bind)
    <3>1. IsOrder(w.older, DOMAIN w.bind)
      BY DEF Sound
    <3>2. Among(z.older, DOMAIN b \ {r}) = Among(w.older, DOMAIN b \ {r})
      BY <1>2, <2>2 DEF Among
    <3>3. DOMAIN b \ {r} \subseteq DOMAIN w.bind /\ r \in DOMAIN b
      BY <1>3
    <3>4. IsOrder(Among(w.older, DOMAIN b \ {r}) \cup ((DOMAIN b \ {r}) \X {r}), DOMAIN b)
      BY <3>1, <3>3, UsedNowOrders
    <3>5. u.older = Among(w.older, DOMAIN b \ {r}) \cup ((DOMAIN b \ {r}) \X {r})
      BY <2>2, <2>3, <3>2
    <3>6. DOMAIN u.bind = DOMAIN b
      BY <2>2, <2>3
    <3> QED
      BY <3>4, <3>5, <3>6
  <2>5. Sound(u)
    <3>1. InThreads(u)
      BY <1>2, <2>2, <2>3 DEF Sound, InThreads
    <3>2. u.bind = b /\ u.disk = Stored(b) /\ u.idle \subseteq DOMAIN b
      BY <2>2, <2>3
    <3> QED
      BY <1>6, <2>3, <2>4, <3>1, <3>2 DEF Sound
  <2>6. u.bind = b /\ u.loaded = w.loaded /\ u.aband = w.aband
    BY <1>2, <2>2, <2>3
  <2> QED
    BY <1>3, <1>4, <1>5, <2>1, <2>5, <2>6
<1> QED
  BY <1>7, <1>8

-------------------------------------------------------------------------------
(***************************************************************************)
(* The inductive invariant. Whoever allocates holds _allocation_lock, and  *)
(* what it looked up stays so until it enters its binding (Reserved); the  *)
(* slots taken and the requests registered are those of the tools that are *)
(* between taking and giving back (Counted).                               *)
(***************************************************************************)
AllocPlaces == {"capacity", "slot", "request", "sync1", "lookup", "sync2", "commit",
                "undo", "replaced"}
Taking      == AllocPlaces \ {"undo", "replaced"}
Asking      == {"capacity", "slot", "request", "sync1", "lookup"}
Slotted     == {"request", "send", "upstream"}
Registered  == {"send", "upstream"}

Locals == [rt : Maybe(Runtimes), th : Maybe(Threads), prev : Maybe(Threads), reused : BOOLEAN,
           name : BOOLEAN, kind : Kinds \cup {"none"}, gen : 0 .. GenBound]

Server ==
    /\ up \in BOOLEAN /\ gen \in 0 .. GenBound /\ (~ up => gen < GenBound)
    /\ unclaimed \subseteq Threads
    /\ late \subseteq [th : Threads, resume : BOOLEAN] /\ stuck \subseteq Tools \X Threads
    /\ threads \in 0 .. ThreadBound /\ runtimes \in 0 .. RuntimeBound

ToolsTyped == pc \in [Tools -> Places] /\ loc \in [Tools -> Locals]

Drawn ==
    /\ \A r \in DOMAIN bind : r <= runtimes /\ bind[r].th <= threads
    /\ OneBindingEach /\ CapacityHolds

LockHeld ==
    /\ alloc \in Tools \cup {Nobody}
    /\ \A t \in Tools : pc[t] \in AllocPlaces <=> alloc = t

InSlots    == {t \in Tools : pc[t] \in Slotted}
Requests(r) == {t \in Tools : pc[t] \in Registered /\ loc[t].rt = r}
Counted ==
    /\ slots = Cardinality(InSlots) /\ slots <= MaxSlots
    /\ active = [r \in Runtimes |-> Cardinality(Requests(r))]

\* Nobody else has a binding of the thread, nor of the name.
Alone(t) ==
    \A q \in DOMAIN bind : q # loc[t].rt =>
        /\ loc[t].th # None => bind[q].th # loc[t].th
        /\ loc[t].name => ~ bind[q].name

Reserved(t) ==
    /\ loc[t].th <= threads
    /\ pc[t] \in Taking => /\ loc[t].rt = None => runtimes < RuntimeBound
                           /\ loc[t].rt # None => loc[t].rt \in DOMAIN bind
                           /\ Alone(t)
    /\ pc[t] \in Asking /\ (loc[t].th = None \/ loc[t].th \in Harness) => threads < ThreadBound
    /\ pc[t] \in {"sync1", "lookup", "sync2", "commit", "undo", "replaced"} => loc[t].th # None
    /\ pc[t] = "replaced" => loc[t].prev # None
    /\ pc[t] = "capacity" => loc[t].rt = None /\ loc[t].th = None
    /\ pc[t] \in {"useSlot", "send", "upstream"} => loc[t].rt # None /\ loc[t].th # None

CInv ==
    /\ Sound(World) /\ Server /\ ToolsTyped /\ Drawn /\ LockHeld /\ Counted
    /\ \A t \in Tools : Reserved(t)

LEMMA WorldFields ==
    /\ IsWorld(World)
    /\ World.bind = bind /\ World.disk = disk /\ World.older = older /\ World.idle = idle
    /\ World.live = live /\ World.pendrel = pendrel /\ World.obs = obs
    /\ World.loaded = loaded /\ World.claimed = claimed /\ World.aband = aband
BY DEF World, IsWorld

\* What Sound says of the variables.
Soundly ==
    /\ AreBindings(bind) /\ disk = Stored(bind)
    /\ idle \subseteq DOMAIN bind /\ IsOrder(older, DOMAIN bind)
    /\ live \subseteq Threads /\ pendrel \subseteq Threads /\ loaded \subseteq Threads
    /\ claimed \subseteq Threads /\ aband \subseteq Threads /\ obs \in 0 .. GenBound

LEMMA SoundIsSoundly == Sound(World) <=> Soundly
BY WorldFields DEF Sound, Soundly, InThreads

\* The bindings that a step leaves, and those it keeps.
Shrinks ==
    /\ DOMAIN bind' \subseteq DOMAIN bind
    /\ \A r \in DOMAIN bind' : bind'[r].th = bind[r].th /\ bind'[r].name = bind[r].name
Keeps == Shrinks /\ DOMAIN bind' = DOMAIN bind

\* The variables a world stands for.
BecomeServer == UNCHANGED <<up, gen, late, stuck>> /\ unclaimed' \subseteq Threads

LEMMA BecomeSound ==
    ASSUME Sound(World), unclaimed \subseteq Threads, NEW w, Sound(w), Become(w)
    PROVE  Soundly' /\ BecomeServer /\ bind' = w.bind /\ loaded' = w.loaded
<1>1. /\ bind' = w.bind /\ disk' = w.disk /\ older' = w.older /\ idle' = w.idle
      /\ live' = w.live /\ pendrel' = w.pendrel /\ obs' = w.obs /\ loaded' = w.loaded
      /\ UNCHANGED <<up, gen, late, stuck>>
  BY DEF Become
<1>2. claimed' \subseteq Threads /\ aband' \subseteq Threads /\ unclaimed' \subseteq Threads
  <2>1. CASE w.loaded = loaded
    BY <2>1 DEF Become, Sound, InThreads
  <2>2. CASE w.loaded # loaded
    BY <2>2 DEF Become, Sound, InThreads
  <2> QED
    BY <2>1, <2>2
<1>3. AreBindings(bind')
  BY <1>1 DEF Sound
<1>4. disk' = Stored(bind')
  BY <1>1 DEF Sound
<1>5. idle' \subseteq DOMAIN bind' /\ IsOrder(older', DOMAIN bind')
  BY <1>1 DEF Sound
<1>6. /\ live' \subseteq Threads /\ pendrel' \subseteq Threads /\ loaded' \subseteq Threads
      /\ obs' \in 0 .. GenBound
  BY <1>1 DEF Sound, InThreads
<1> QED
  BY <1>1, <1>2, <1>3, <1>4, <1>5, <1>6 DEF Soundly, BecomeServer

LEMMA FollowsShrinks ==
    ASSUME Sound(World), unclaimed \subseteq Threads, NEW w, Follows(World, w), Become(w)
    PROVE  Soundly' /\ BecomeServer /\ Shrinks /\ bind' = w.bind
<1>1. Soundly' /\ BecomeServer /\ bind' = w.bind
  BY BecomeSound DEF Follows
<1>2. Shrinks
  BY <1>1, WorldFields DEF Follows, Fewer, Shrinks
<1> QED
  BY <1>1, <1>2

LEMMA FollowsKeeps ==
    ASSUME Sound(World), unclaimed \subseteq Threads, NEW w, Follows(World, w),
           SameBindings(World, w), Become(w)
    PROVE  Soundly' /\ BecomeServer /\ Keeps /\ bind' = w.bind
BY FollowsShrinks, WorldFields DEF SameBindings, Keeps

LEMMA ServerStays ==
    ASSUME Server, BecomeServer, UNCHANGED <<threads, runtimes>>
    PROVE  Server'
BY DEF Server, BecomeServer

LEMMA BindingsFinite ==
    ASSUME Soundly
    PROVE  IsFiniteSet(DOMAIN bind) /\ Cardinality(DOMAIN bind) \in Nat
BY CountsOfWorld, SoundIsSoundly, WorldFields

\* A step that drops bindings and adds none.
LEMMA DrawnShrinks ==
    ASSUME Soundly, Server, Drawn, Shrinks, threads' \in Nat, threads <= threads', runtimes' = runtimes,
           Soundly'
    PROVE  Drawn'
<1>1. \A r \in DOMAIN bind' : r <= runtimes' /\ bind'[r].th <= threads'
  <2> SUFFICES ASSUME NEW r \in DOMAIN bind'
               PROVE  r <= runtimes' /\ bind'[r].th <= threads'
    OBVIOUS
  <2>1. r \in DOMAIN bind /\ bind'[r].th = bind[r].th
    BY DEF Shrinks
  <2>2. bind[r].th \in Nat
    BY <2>1, LimitsAssumption DEF Soundly, AreBindings, IsBinding, Threads
  <2>3. threads \in Nat
    BY DEF Server
  <2> QED
    BY <2>1, <2>2, <2>3 DEF Drawn
<1>2. OneBindingEach'
  BY DEF Shrinks, Drawn, OneBindingEach
<1>3. CapacityHolds'
  <2>1. IsFiniteSet(DOMAIN bind) /\ Cardinality(DOMAIN bind) \in Nat
    BY BindingsFinite
  <2>2. DOMAIN bind' \subseteq DOMAIN bind
    BY DEF Shrinks
  <2>3. Cardinality(DOMAIN bind') <= Cardinality(DOMAIN bind) /\ Cardinality(DOMAIN bind') \in Nat
    BY <2>1, <2>2, FS_Subset, FS_CardinalityType
  <2> QED
    BY <2>1, <2>3, LimitsAssumption DEF Drawn, CapacityHolds
<1> QED
  BY <1>1, <1>2, <1>3 DEF Drawn

\* What a tool has looked up stays so as long as nobody else allocates.
LEMMA ReservedStays ==
    ASSUME Server, ToolsTyped, NEW u \in Tools, Reserved(u), pc'[u] = pc[u], loc'[u] = loc[u],
           threads' \in Nat, threads <= threads',
           pc[u] \in AllocPlaces => Keeps /\ threads' = threads /\ runtimes' = runtimes
    PROVE  Reserved(u)'
<1>1. loc[u].th \in Nat /\ threads \in Nat
  BY LimitsAssumption DEF ToolsTyped, Locals, Maybe, Threads, Server, None
<1>2. loc'[u].th <= threads'
  BY <1>1 DEF Reserved
<1>3. CASE pc[u] \in AllocPlaces
  <2>1. Alone(u) => Alone(u)'
    BY <1>3 DEF Alone, Keeps, Shrinks
  <2>2. Keeps /\ threads' = threads /\ runtimes' = runtimes
    BY <1>3
  <2> QED
    BY <1>2, <2>1, <2>2 DEF Reserved, Keeps
<1>4. CASE pc[u] \notin AllocPlaces
  BY <1>2, <1>4 DEF Reserved, AllocPlaces, Taking, Asking
<1> QED
  BY <1>3, <1>4

-------------------------------------------------------------------------------
\* One tool moves: the lock, the slots and the requests follow.

Moves(t) == \A u \in Tools : u # t => pc'[u] = pc[u] /\ loc'[u] = loc[u]

LEMMA GoMoves ==
    ASSUME ToolsTyped, NEW t \in Tools, NEW place \in Places, NEW locals,
           Go(t, place, locals), locals \in Locals
    PROVE  ToolsTyped' /\ Moves(t) /\ pc'[t] = place /\ loc'[t] = locals
BY DEF ToolsTyped, Go, Moves

LEMMA IdleIsLocals == Idle \in Locals /\ Idle.th = None /\ Idle.rt = None /\ Idle.prev = None
BY LimitsAssumption DEF Idle, Locals, Maybe, None

\* The holder of the lock is alone among the allocation's places.
LEMMA HolderIsAlone ==
    ASSUME LockHeld, NEW u \in Tools, pc[u] \in AllocPlaces
    PROVE  alloc = u /\ alloc # Nobody
BY ToolsAssumption DEF LockHeld, Nobody

LEMMA LockSame ==
    ASSUME LockHeld, NEW t \in Tools, Moves(t), alloc' = alloc,
           pc'[t] \in AllocPlaces <=> pc[t] \in AllocPlaces
    PROVE  LockHeld'
BY DEF LockHeld, Moves

LEMMA LockTaken ==
    ASSUME LockHeld, NEW t \in Tools, Moves(t), alloc = Nobody, alloc' = t, pc'[t] \in AllocPlaces
    PROVE  LockHeld'
BY ToolsAssumption DEF LockHeld, Moves, Nobody

LEMMA LockLeft ==
    ASSUME LockHeld, NEW t \in Tools, Moves(t), pc'[t] = "idle",
           alloc' = IF alloc = t THEN Nobody ELSE alloc
    PROVE  LockHeld'
<1>1. pc'[t] \notin AllocPlaces
  BY DEF AllocPlaces
<1> QED
  BY <1>1, ToolsAssumption DEF LockHeld, Moves, Nobody

LEMMA SetsOfTools ==
    ASSUME NEW S, S \subseteq Tools
    PROVE  IsFiniteSet(S) /\ Cardinality(S) \in Nat
BY ToolsAssumption, FS_Subset, FS_CardinalityType

LEMMA OneMore ==
    ASSUME NEW S, S \subseteq Tools, NEW t \in Tools, t \notin S
    PROVE  Cardinality(S \cup {t}) = Cardinality(S) + 1
BY SetsOfTools, FS_AddElement

LEMMA OneLess ==
    ASSUME NEW S, S \subseteq Tools, NEW t \in S
    PROVE  Cardinality(S \ {t}) = Cardinality(S) - 1
BY SetsOfTools, FS_RemoveElement

SlotsCounted  == slots = Cardinality(InSlots) /\ slots <= MaxSlots
ActiveCounted == active = [r \in Runtimes |-> Cardinality(Requests(r))]

LEMMA SlotsSame ==
    ASSUME SlotsCounted, NEW t \in Tools, Moves(t), slots' = slots,
           pc'[t] \in Slotted <=> pc[t] \in Slotted
    PROVE  SlotsCounted'
<1>1. InSlots' = InSlots
  BY DEF InSlots, Moves
<1> QED
  BY <1>1 DEF SlotsCounted

LEMMA SlotTaken ==
    ASSUME SlotsCounted, NEW t \in Tools, Moves(t), slots < MaxSlots, slots' = slots + 1,
           pc[t] \notin Slotted, pc'[t] \in Slotted
    PROVE  SlotsCounted'
<1>1. InSlots' = InSlots \cup {t} /\ t \notin InSlots /\ InSlots \subseteq Tools
  BY DEF InSlots, Moves
<1>2. Cardinality(InSlots') = Cardinality(InSlots) + 1 /\ Cardinality(InSlots) \in Nat
  BY <1>1, OneMore, SetsOfTools
<1> QED
  BY <1>2, LimitsAssumption DEF SlotsCounted

LEMMA SlotGiven ==
    ASSUME SlotsCounted, NEW t \in Tools, Moves(t), slots' = slots - 1,
           pc[t] \in Slotted, pc'[t] \notin Slotted
    PROVE  SlotsCounted'
<1>1. InSlots' = InSlots \ {t} /\ t \in InSlots /\ InSlots \subseteq Tools
  BY DEF InSlots, Moves
<1>2. Cardinality(InSlots') = Cardinality(InSlots) - 1 /\ Cardinality(InSlots) \in Nat
  BY <1>1, OneLess, SetsOfTools
<1> QED
  BY <1>2, LimitsAssumption DEF SlotsCounted

LEMMA ActiveSame ==
    ASSUME ActiveCounted, NEW t \in Tools, Moves(t), active' = active,
           pc'[t] \in Registered <=> pc[t] \in Registered,
           pc[t] \in Registered => loc'[t].rt = loc[t].rt
    PROVE  ActiveCounted'
<1>1. \A r : Requests(r)' = Requests(r)
  BY DEF Requests, Moves
<1> QED
  BY <1>1 DEF ActiveCounted

LEMMA RequestMade ==
    ASSUME ActiveCounted, NEW t \in Tools, Moves(t), loc'[t] = loc[t], loc[t].rt \in Runtimes,
           active' = [active EXCEPT ![loc[t].rt] = @ + 1],
           pc[t] \notin Registered, pc'[t] \in Registered
    PROVE  ActiveCounted'
<1> DEFINE q == loc[t].rt
<1>1. Requests(q)' = Requests(q) \cup {t} /\ t \notin Requests(q) /\ Requests(q) \subseteq Tools
  BY DEF Requests, Moves
<1>2. \A r \in Runtimes : r # q => Requests(r)' = Requests(r)
  BY DEF Requests, Moves
<1>3. Cardinality(Requests(q)') = Cardinality(Requests(q)) + 1
  BY <1>1, OneMore
<1> QED
  BY <1>2, <1>3 DEF ActiveCounted

LEMMA RequestEnded ==
    ASSUME ActiveCounted, NEW t \in Tools, Moves(t), loc[t].rt \in Runtimes,
           active' = [active EXCEPT ![loc[t].rt] = @ - 1],
           pc[t] \in Registered, pc'[t] \notin Registered
    PROVE  ActiveCounted'
<1>4. PICK q \in Runtimes : q = loc[t].rt
  OBVIOUS
<1>1. Requests(q)' = Requests(q) \ {t} /\ t \in Requests(q) /\ Requests(q) \subseteq Tools
  BY <1>4 DEF Requests, Moves
<1>2. \A r \in Runtimes : r # q => Requests(r)' = Requests(r)
  BY <1>4 DEF Requests, Moves
<1>3. Cardinality(Requests(q)') = Cardinality(Requests(q)) - 1
  BY <1>1, OneLess
<1> QED
  BY <1>2, <1>3, <1>4 DEF ActiveCounted

\* What is left of the invariant when a tool has moved and its own part is known.
LEMMA Stepped ==
    ASSUME CInv, NEW t \in Tools, Moves(t), Soundly', Server', ToolsTyped', Drawn', LockHeld',
           SlotsCounted', ActiveCounted', threads <= threads', Reserved(t)',
           \/ alloc = t \/ alloc = Nobody
           \/ Keeps /\ threads' = threads /\ runtimes' = runtimes
    PROVE  CInv'
<1>1. threads' \in Nat
  BY DEF Server
<1>2. ASSUME NEW u \in Tools, u # t
      PROVE  Reserved(u)'
  <2>1. pc[u] \in AllocPlaces => Keeps /\ threads' = threads /\ runtimes' = runtimes
    BY <1>2, HolderIsAlone DEF CInv
  <2>2. pc'[u] = pc[u] /\ loc'[u] = loc[u]
    BY <1>2 DEF Moves
  <2> QED
    BY <1>1, <2>1, <2>2, ReservedStays DEF CInv
<1>3. \A u \in Tools : Reserved(u)'
  BY <1>2
<1>4. Sound(World)'
  BY SoundIsSoundly, PTL
<1> QED
  BY <1>3, <1>4 DEF CInv, Counted, SlotsCounted, ActiveCounted

\* No tool moves.
LEMMA Framed ==
    ASSUME CInv, UNCHANGED <<toolVars, drawn>>, Soundly', Server', Shrinks,
           alloc = Nobody \/ Keeps
    PROVE  CInv'
<1>1. /\ pc' = pc /\ loc' = loc /\ alloc' = alloc /\ slots' = slots /\ active' = active
      /\ threads' = threads /\ runtimes' = runtimes
  BY DEF toolVars, drawn
<1>2. \A u \in Tools : Reserved(u)'
  <2> SUFFICES ASSUME NEW u \in Tools
               PROVE  Reserved(u)'
    OBVIOUS
  <2>1. pc[u] \in AllocPlaces => Keeps
    BY HolderIsAlone DEF CInv
  <2>2. threads' \in Nat /\ threads <= threads'
    BY <1>1 DEF CInv, Server
  <2> QED
    BY <1>1, <2>1, <2>2, ReservedStays DEF CInv
<1>3. Drawn'
  <2>1. threads' \in Nat /\ threads <= threads'
    BY <1>1 DEF CInv, Server
  <2> QED
    BY <1>1, <2>1, DrawnShrinks, SoundIsSoundly DEF CInv
<1>4. ToolsTyped' /\ LockHeld'
  BY <1>1 DEF CInv, ToolsTyped, LockHeld
<1>5. Counted'
  <2>1. InSlots' = InSlots /\ \A r : Requests(r)' = Requests(r)
    BY <1>1 DEF InSlots, Requests
  <2> QED
    BY <1>1, <2>1 DEF CInv, Counted
<1>6. Sound(World)'
  BY SoundIsSoundly, PTL
<1> QED
  BY <1>2, <1>3, <1>4, <1>5, <1>6 DEF CInv

-------------------------------------------------------------------------------
\* Steps that move no tool.

LEMMA FirstGeneration == 0 \in 0 .. GenBound /\ 0 < GenBound
<1>1. GenBound \in Nat /\ GenBound # 0
  BY LimitsAssumption
<1>2. 0 < GenBound
  BY <1>1
<1>3. 0 \in 0 .. GenBound
  BY <1>1
<1> QED
  BY <1>2, <1>3

LEMMA InitCInv == ASSUME Init PROVE CInv
<1>1. Soundly
  <2>1. bind = << >> /\ disk = << >> /\ older = {} /\ idle = {} /\ live = {} /\ pendrel = {}
        /\ loaded = {} /\ claimed = {} /\ aband = {} /\ obs = 0
    BY DEF Init
  <2>2. DOMAIN bind = {}
    BY <2>1
  <2>3. AreBindings(bind) /\ disk = Stored(bind)
    <3>1. bind = [r \in {} |-> bind[r]] /\ Stored(bind) = [r \in {} |-> r]
      BY <2>1, <2>2 DEF Stored
    <3>2. << >> = [r \in {} |-> r]
      OBVIOUS
    <3> QED
      BY <2>1, <2>2, <3>1, <3>2 DEF AreBindings
  <2>4. IsOrder(older, DOMAIN bind)
    BY <2>1, <2>2 DEF IsOrder
  <2> QED
    BY <2>1, <2>2, <2>3, <2>4, LimitsAssumption DEF Soundly
<1>2. Server
  <2>1. /\ GenBound \in Nat /\ GenBound # 0 /\ ThreadBound \in Nat /\ RuntimeBound \in Nat
    BY LimitsAssumption
  <2>2. up = FALSE /\ gen = 0 /\ unclaimed = {} /\ late = {} /\ stuck = {} /\ threads = 0 /\ runtimes = 0
    BY DEF Init
  <2>3. up \in BOOLEAN /\ gen \in 0 .. GenBound /\ gen < GenBound
    BY <2>2, FirstGeneration
  <2>4. threads \in 0 .. ThreadBound /\ runtimes \in 0 .. RuntimeBound
    BY <2>1, <2>2
  <2>5. /\ unclaimed \subseteq Threads
        /\ late \subseteq [th : Threads, resume : BOOLEAN] /\ stuck \subseteq Tools \X Threads
    BY <2>2
  <2> QED
    BY <2>3, <2>4, <2>5 DEF Server
<1>3. ToolsTyped
  BY IdleIsLocals DEF Init, ToolsTyped, Places
<1>4. Drawn
  <2>1. DOMAIN bind = {}
    BY DEF Init
  <2> QED
    BY <2>1, FS_EmptySet, LimitsAssumption DEF Drawn, OneBindingEach, CapacityHolds
<1>5. LockHeld
  BY ToolsAssumption DEF Init, LockHeld, AllocPlaces, Nobody
<1>6. Counted
  <2>1. InSlots = {} /\ \A r : Requests(r) = {}
    BY DEF Init, InSlots, Requests, Slotted, Registered
  <2> QED
    <3>1. slots = 0 /\ active = [r \in Runtimes |-> 0] /\ MaxSlots \in Nat
      BY LimitsAssumption DEF Init
    <3>2. Cardinality(InSlots) = 0 /\ \A r : Cardinality(Requests(r)) = 0
      BY <2>1, FS_EmptySet
    <3> QED
      BY <3>1, <3>2 DEF Counted
<1>7. \A t \in Tools : Reserved(t)
  BY IdleIsLocals DEF Init, Reserved, Taking, AllocPlaces, Asking, None
<1> QED
  BY <1>1, <1>2, <1>3, <1>4, <1>5, <1>6, <1>7, SoundIsSoundly DEF CInv

LEMMA CInvFacts ==
    ASSUME CInv
    PROVE  /\ Soundly /\ Sound(World) /\ unclaimed \subseteq Threads /\ gen \in 0 .. GenBound
           /\ SlotsCounted /\ ActiveCounted /\ Server /\ ToolsTyped /\ Drawn /\ LockHeld
BY SoundIsSoundly DEF CInv, Counted, SlotsCounted, ActiveCounted, Server

LEMMA CollectStep ==
    ASSUME CInv, Collect
    PROVE  CInv'
<1>1. PICK x \in CollectedAll(World, TRUE) : Become(x.w)
  BY DEF Collect
<1>3. Follows(World, x.w)
  BY CInvFacts, CollectedAllFollows
<1>4. Soundly' /\ BecomeServer /\ Shrinks
  BY <1>1, <1>3, CInvFacts, FollowsShrinks
<1>5. UNCHANGED <<toolVars, drawn>> /\ UNCHANGED <<threads, runtimes>> /\ alloc = Nobody
  BY DEF Collect, drawn
<1>6. Server'
  BY <1>4, <1>5, CInvFacts, ServerStays
<1> QED
  BY <1>4, <1>5, <1>6, Framed

\* A binding whose server is down is noted as detached.
LEMMA DetachKeeps ==
    ASSUME Soundly, NEW r, Detach(r), UNCHANGED <<disk, older, idle, live, pendrel, obs>>,
           UNCHANGED <<loaded, claimed, aband>>
    PROVE  Soundly' /\ Keeps
<1>1. CASE r \in DOMAIN bind /\ ~ up
  <2>1. bind' = WithStatus(bind, r, "detached")
    BY <1>1 DEF Detach, WithStatus
  <2>2. AreBindings(bind)
    BY DEF Soundly
  <2>3. AreBindings(bind') /\ DOMAIN bind' = DOMAIN bind
    BY <1>1, <2>1, <2>2, StatusOnly
  <2>4. \A q \in DOMAIN bind : bind'[q].th = bind[q].th
    BY <1>1, <2>1, <2>2, StatusOnly
  <2>5. \A q \in DOMAIN bind : bind'[q].name = bind[q].name
    BY <1>1, <2>1, <2>2, StatusOnly
  <2>6. Stored(bind') = Stored(bind)
    BY <2>3, <2>4, <2>5, StoredSame
  <2> QED
    BY <2>3, <2>4, <2>5, <2>6 DEF Soundly, Keeps, Shrinks
<1>2. CASE ~ (r \in DOMAIN bind /\ ~ up)
  BY <1>2 DEF Detach, Soundly, Keeps, Shrinks
<1> QED
  BY <1>1, <1>2

LEMMA StatusStep ==
    ASSUME CInv, NEW r, Status(r)
    PROVE  CInv'
<1>1. /\ UNCHANGED <<disk, older, idle, live, pendrel, obs>>
      /\ UNCHANGED <<loaded, claimed, aband>> /\ UNCHANGED <<up, gen, unclaimed, late, stuck>>
      /\ UNCHANGED <<threads, runtimes>> /\ UNCHANGED <<toolVars, drawn>> /\ Detach(r)
  BY DEF Status, serverVars, drawn
<1>2. Soundly' /\ Keeps
  BY <1>1, CInvFacts, DetachKeeps
<1>3. Server'
  BY <1>1, CInvFacts DEF Server
<1> QED
  BY <1>1, <1>2, <1>3, Framed DEF Keeps

\* The App Server and its answers leave the bindings alone.
LEMMA ServerStep ==
    ASSUME CInv, UNCHANGED <<bindVars, toolVars, drawn>>, Server',
           loaded' \subseteq Threads, claimed' \subseteq Threads, aband' \subseteq Threads
    PROVE  CInv'
<1>1. bind' = bind /\ disk' = disk /\ older' = older /\ idle' = idle /\ live' = live
      /\ pendrel' = pendrel /\ obs' = obs /\ UNCHANGED <<toolVars, drawn>>
  BY DEF bindVars
<1>2. Soundly' /\ Keeps
  BY <1>1, CInvFacts DEF Soundly, Keeps, Shrinks
<1> QED
  BY <1>1, <1>2, Framed DEF Keeps

LEMMA ClaimStep == ASSUME CInv, Claim PROVE CInv'
<1>1. UNCHANGED <<bindVars, toolVars, drawn>>
  BY DEF Claim
<1>2. Server'
  BY CInvFacts DEF Claim, Server, drawn
<1>3. loaded' \subseteq Threads /\ claimed' \subseteq Threads /\ aband' \subseteq Threads
  BY CInvFacts DEF Claim, Soundly
<1> QED
  BY <1>1, <1>2, <1>3, ServerStep

LEMMA LateStep ==
    ASSUME CInv, NEW x \in late, LateAnswer(x) \/ LateError(x)
    PROVE  CInv'
<1>1. UNCHANGED <<bindVars, toolVars, drawn>>
  BY DEF LateAnswer, LateError
<1>2. Server'
  BY CInvFacts DEF LateAnswer, LateError, Server, drawn
<1>3. loaded' \subseteq Threads /\ claimed' \subseteq Threads /\ aband' \subseteq Threads
  <2>1. x.th \in Threads
    BY CInvFacts DEF Server
  <2> QED
    BY <2>1, CInvFacts DEF LateAnswer, LateError, Soundly
<1> QED
  BY <1>1, <1>2, <1>3, ServerStep

LEMMA StuckStep ==
    ASSUME CInv, NEW x \in stuck, StuckAnswer(x)
    PROVE  CInv'
<1>1. UNCHANGED <<bindVars, toolVars, drawn>>
  BY DEF StuckAnswer
<1>2. Server'
  BY CInvFacts DEF StuckAnswer, Server, drawn
<1>3. loaded' \subseteq Threads /\ claimed' \subseteq Threads /\ aband' \subseteq Threads
  BY CInvFacts DEF StuckAnswer, Soundly
<1> QED
  BY <1>1, <1>2, <1>3, ServerStep

LEMMA DiesStep == ASSUME CInv, Dies PROVE CInv'
<1>1. UNCHANGED <<bindVars, toolVars, drawn>>
  BY DEF Dies
<1>2. Server'
  BY CInvFacts DEF Dies, Server, drawn
<1>3. loaded' \subseteq Threads /\ claimed' \subseteq Threads /\ aband' \subseteq Threads
  BY DEF Dies
<1> QED
  BY <1>1, <1>2, <1>3, ServerStep

LEMMA AgesStep ==
    ASSUME CInv, NEW r, Ages(r)
    PROVE  CInv'
<1>1. UNCHANGED <<toolVars, drawn>>
  BY DEF Ages
<1>2. Server'
  BY CInvFacts DEF Ages, Server, serverVars, drawn
<1>3. Soundly' /\ Keeps
  BY CInvFacts DEF Ages, Soundly, Keeps, Shrinks, serverVars
<1> QED
  BY <1>1, <1>2, <1>3, Framed DEF Keeps

LEMMA RestartStep == ASSUME CInv, Restart PROVE CInv'
<1>1. Soundly'
  <2>1. /\ bind' = [r \in DOMAIN disk |-> [th |-> disk[r].th, name |-> disk[r].name,
                                           status |-> "detached"]]
        /\ disk' = disk /\ idle' = idle /\ live' = {} /\ pendrel' = {} /\ obs' = 0
        /\ loaded' = {} /\ claimed' = {} /\ aband' = {}
    BY DEF Restart
  <2>2. disk = Stored(bind) /\ DOMAIN disk = DOMAIN bind
    BY CInvFacts DEF Soundly, Stored
  <2>3. \A r \in DOMAIN bind : disk[r].th = bind[r].th /\ disk[r].name = bind[r].name
    BY <2>2 DEF Stored
  <2>4. DOMAIN bind' = DOMAIN bind /\ bind' = [r \in DOMAIN bind' |-> bind'[r]]
    BY <2>1, <2>2
  <2>5. \A r \in DOMAIN bind : /\ IsBinding(bind'[r])
                               /\ bind'[r].th = bind[r].th /\ bind'[r].name = bind[r].name
    <3> SUFFICES ASSUME NEW r \in DOMAIN bind
                 PROVE  /\ IsBinding(bind'[r])
                        /\ bind'[r].th = bind[r].th /\ bind'[r].name = bind[r].name
      OBVIOUS
    <3>1. bind'[r] = [th |-> bind[r].th, name |-> bind[r].name, status |-> "detached"]
      BY <2>1, <2>2, <2>3
    <3>2. IsBinding(bind[r])
      BY CInvFacts DEF Soundly, AreBindings
    <3> QED
      BY <3>1, <3>2 DEF IsBinding
  <2>6. AreBindings(bind')
    BY <2>4, <2>5, CInvFacts DEF AreBindings, Soundly
  <2>7. disk' = Stored(bind')
    BY <2>1, <2>2, <2>4, <2>5, StoredSame
  <2>8. IsOrder(older', DOMAIN bind')
    <3>1. CASE "save" \in Faults
      BY <2>2, <2>4, <3>1 DEF Restart, Orders
    <3>2. CASE "save" \notin Faults
      BY <2>4, <3>2, CInvFacts DEF Restart, Soundly
    <3> QED
      BY <3>1, <3>2
  <2> QED
    BY <2>1, <2>4, <2>6, <2>7, <2>8, CInvFacts, FirstGeneration DEF Soundly
<1>2. Keeps
  <2>1. DOMAIN disk = DOMAIN bind
    BY CInvFacts DEF Soundly, Stored
  <2>2. \A r \in DOMAIN bind : disk[r].th = bind[r].th /\ disk[r].name = bind[r].name
    BY CInvFacts DEF Soundly, Stored
  <2> QED
    BY <2>1, <2>2 DEF Restart, Keeps, Shrinks
<1>3. Server'
  <2>1. GenBound \in Nat /\ GenBound # 0
    BY LimitsAssumption
  <2>2. up' = FALSE /\ gen' = 0 /\ unclaimed' = {} /\ late' = {} /\ stuck' = {}
        /\ threads' = threads /\ runtimes' = runtimes
    BY DEF Restart, drawn
  <2>3. up' \in BOOLEAN /\ gen' \in 0 .. GenBound /\ gen' < GenBound
    BY <2>2, FirstGeneration
  <2> QED
    BY <2>2, <2>3, CInvFacts DEF Server
<1>4. /\ pc' = [t \in Tools |-> "idle"] /\ loc' = [t \in Tools |-> Idle]
      /\ slots' = 0 /\ active' = [r \in Runtimes |-> 0] /\ alloc' = Nobody
      /\ threads' = threads /\ runtimes' = runtimes
  BY DEF Restart, drawn
<1>5. ToolsTyped' /\ LockHeld'
  BY <1>4, IdleIsLocals, ToolsAssumption DEF ToolsTyped, Places, LockHeld, AllocPlaces, Nobody
<1>6. Counted'
  <2>1. InSlots' = {} /\ \A r : Requests(r)' = {}
    BY <1>4 DEF InSlots, Requests, Slotted, Registered
  <2>2. Cardinality(InSlots') = 0 /\ \A r : Cardinality(Requests(r)') = 0
    BY <2>1, FS_EmptySet
  <2>3. MaxSlots \in Nat
    BY LimitsAssumption
  <2> QED
    BY <1>4, <2>2, <2>3 DEF Counted
<1>7. Drawn'
  <2>1. threads' \in Nat /\ threads <= threads'
    BY <1>4, CInvFacts DEF Server
  <2> QED
    BY <1>1, <1>2, <1>4, <2>1, CInvFacts, DrawnShrinks DEF Keeps
<1>8. \A t \in Tools : Reserved(t)'
  <2>1. threads' \in Nat
    BY <1>4, CInvFacts DEF Server
  <2> QED
    BY <1>4, <2>1, IdleIsLocals DEF Reserved, Taking, AllocPlaces, Asking, None
<1>9. Sound(World)'
  BY <1>1, SoundIsSoundly, PTL
<1> QED
  BY <1>3, <1>5, <1>6, <1>7, <1>8, <1>9 DEF CInv

-------------------------------------------------------------------------------
\* Steps of an allocation.

LEMMA PlacesOf ==
    /\ AllocPlaces \cup Slotted \cup Registered
          \cup {"idle", "lock", "useSlot", "touch"} \subseteq Places
    /\ "idle" \notin AllocPlaces /\ "idle" \notin Slotted /\ "idle" \notin Registered
    /\ "lock" \notin AllocPlaces /\ "lock" \notin Slotted /\ "lock" \notin Registered
BY DEF AllocPlaces, Slotted, Registered, Places

\* The world is unchanged.
LEMMA WorldStays ==
    ASSUME CInv, UNCHANGED bindVars, UNCHANGED serverVars, UNCHANGED drawn
    PROVE  /\ Soundly' /\ Keeps /\ Server' /\ Drawn'
           /\ threads' = threads /\ runtimes' = runtimes /\ threads <= threads' /\ bind' = bind
<1>1. /\ bind' = bind /\ disk' = disk /\ older' = older /\ idle' = idle /\ live' = live
      /\ pendrel' = pendrel /\ obs' = obs /\ up' = up /\ gen' = gen /\ loaded' = loaded
      /\ unclaimed' = unclaimed /\ claimed' = claimed /\ aband' = aband /\ late' = late
      /\ stuck' = stuck /\ threads' = threads /\ runtimes' = runtimes
  BY DEF bindVars, serverVars, drawn
<1>2. Soundly' /\ Keeps
  BY <1>1, CInvFacts DEF Soundly, Keeps, Shrinks
<1>3. Server' /\ threads <= threads'
  BY <1>1, CInvFacts DEF Server
<1>4. Drawn'
  BY <1>1, CInvFacts DEF Drawn, OneBindingEach, CapacityHolds
<1> QED
  BY <1>1, <1>2, <1>3, <1>4

\* A section under _lock that keeps every binding.
LEMMA SectionKeeps ==
    ASSUME CInv, NEW w, Follows(World, w), SameBindings(World, w), Become(w),
           threads' = threads, runtimes' = runtimes
    PROVE  Soundly' /\ Keeps /\ Server' /\ Drawn' /\ threads <= threads' /\ bind' = w.bind
<1>1. Soundly' /\ BecomeServer /\ Keeps /\ bind' = w.bind
  BY CInvFacts, FollowsKeeps
<1>2. Server' /\ threads <= threads' /\ threads' \in Nat
  BY <1>1, CInvFacts, ServerStays DEF Server
<1>3. Drawn'
  BY <1>1, <1>2, CInvFacts, DrawnShrinks DEF Keeps
<1> QED
  BY <1>1, <1>2, <1>3

LEMMA SectionShrinks ==
    ASSUME CInv, NEW w, Follows(World, w), Become(w), threads' = threads, runtimes' = runtimes
    PROVE  Soundly' /\ Shrinks /\ Server' /\ Drawn' /\ threads <= threads' /\ bind' = w.bind
<1>1. Soundly' /\ BecomeServer /\ Shrinks /\ bind' = w.bind
  BY CInvFacts, FollowsShrinks
<1>2. Server' /\ threads <= threads' /\ threads' \in Nat
  BY <1>1, CInvFacts, ServerStays DEF Server
<1>3. Drawn'
  BY <1>1, <1>2, CInvFacts, DrawnShrinks
<1> QED
  BY <1>1, <1>2, <1>3

\* A tool that has left, or waits for the lock, has nothing reserved.
LEMMA IdleReserves ==
    ASSUME NEW t \in Tools, pc'[t] \in {"idle", "lock", "touch"}, loc'[t].th <= threads'
    PROVE  Reserved(t)'
BY DEF Reserved, Taking, AllocPlaces, Asking

LEMMA AloneStays ==
    ASSUME NEW t \in Tools, Alone(t), Shrinks, loc'[t].rt = loc[t].rt, loc'[t].th = loc[t].th,
           loc'[t].name = loc[t].name
    PROVE  Alone(t)'
BY DEF Alone, Shrinks

LEMMA LocalsOf ==
    ASSUME ToolsTyped, NEW t \in Tools
    PROVE  /\ loc[t] \in Locals /\ loc[t].th \in Nat /\ loc[t].prev \in Nat
           /\ loc[t].th # None => loc[t].th \in Threads
           /\ loc[t].prev # None => loc[t].prev \in Threads
           /\ loc[t].rt # None => loc[t].rt \in Runtimes
           /\ loc[t].name \in BOOLEAN
BY LimitsAssumption DEF ToolsTyped, Locals, Maybe, Threads, Runtimes, None

LEMMA BoundTyped ==
    ASSUME Soundly, NEW r \in DOMAIN bind
    PROVE  /\ r \in Runtimes /\ r # None /\ bind[r].th \in Threads /\ bind[r].th # None
           /\ bind[r].name \in BOOLEAN
<1>1. IsBinding(bind[r]) /\ r \in Runtimes
  BY DEF Soundly, AreBindings
<1> QED
  BY <1>1 DEF IsBinding, Runtimes, Threads, None

LEMMA Located ==
    ASSUME NEW r \in Maybe(Runtimes), NEW h \in Maybe(Threads), NEW n \in BOOLEAN
    PROVE  LET l == [rt |-> r, th |-> h, prev |-> None, reused |-> FALSE, name |-> n,
                     kind |-> "none", gen |-> 0]
           IN  l \in Locals /\ l.rt = r /\ l.th = h /\ l.name = n
BY FirstGeneration DEF Locals, Maybe, None

LEMMA NamedLocals ==
    ASSUME NEW n, NEW l, l = [Idle EXCEPT !.name = n]
    PROVE  l = [rt |-> None, th |-> None, prev |-> None, reused |-> FALSE, name |-> n,
                kind |-> "none", gen |-> 0]
BY DEF Idle

LEMMA BoundLocals ==
    ASSUME NEW r, NEW h, NEW n, NEW l, l = [Idle EXCEPT !.rt = r, !.name = n, !.th = h]
    PROVE  l = [rt |-> r, th |-> h, prev |-> None, reused |-> FALSE, name |-> n,
                kind |-> "none", gen |-> 0]
BY DEF Idle

LEMMA Leaving ==
    ASSUME CInv, NEW t \in Tools, Leaves(t), threads' \in Nat
    PROVE  /\ ToolsTyped' /\ Moves(t) /\ LockHeld' /\ pc'[t] = "idle" /\ loc'[t] = Idle
           /\ Reserved(t)'
<1>1. Go(t, "idle", Idle) /\ alloc' = IF alloc = t THEN Nobody ELSE alloc
  BY DEF Leaves
<1>2. ToolsTyped' /\ Moves(t) /\ pc'[t] = "idle" /\ loc'[t] = Idle
  BY <1>1, GoMoves, IdleIsLocals, PlacesOf, CInvFacts
<1>3. LockHeld'
  BY <1>1, <1>2, LockLeft, CInvFacts
<1>4. Reserved(t)'
  BY <1>2, IdleIsLocals, IdleReserves DEF None
<1> QED
  BY <1>2, <1>3, <1>4

\* A tool without a slot and without a request leaves.
LEMMA LeavesStep ==
    ASSUME CInv, NEW t \in Tools, Leaves(t), pc[t] \notin Slotted, pc[t] \notin Registered,
           active' = active, slots' = slots,
           Soundly', Server', Drawn', threads' = threads, runtimes' = runtimes,
           \/ alloc = t \/ alloc = Nobody \/ Keeps
    PROVE  CInv'
<1>1. threads' \in Nat /\ threads <= threads'
  BY CInvFacts DEF Server
<1>2. /\ ToolsTyped' /\ Moves(t) /\ LockHeld' /\ pc'[t] = "idle" /\ loc'[t] = Idle
      /\ Reserved(t)'
  BY <1>1, Leaving
<1>3. SlotsCounted' /\ ActiveCounted'
  BY <1>2, PlacesOf, CInvFacts, SlotsSame, ActiveSame
<1> QED
  BY <1>1, <1>2, <1>3, Stepped

LEMMA WaitStep ==
    ASSUME CInv, NEW t \in Tools, Wait(t)
    PROVE  CInv'
<1>1. /\ pc[t] = "idle" /\ Go(t, "lock", Idle)
      /\ active' = active /\ slots' = slots /\ alloc' = alloc
      /\ UNCHANGED bindVars /\ UNCHANGED serverVars /\ UNCHANGED drawn
  BY DEF Wait
<1>2. /\ Soundly' /\ Keeps /\ Server' /\ Drawn' /\ threads' = threads /\ runtimes' = runtimes
      /\ threads <= threads' /\ threads' \in Nat
  BY <1>1, WorldStays, CInvFacts DEF Server
<1>3. ToolsTyped' /\ Moves(t) /\ pc'[t] = "lock" /\ loc'[t] = Idle
  BY <1>1, GoMoves, IdleIsLocals, PlacesOf, CInvFacts
<1>4. LockHeld'
  BY <1>1, <1>3, LockSame, PlacesOf, CInvFacts
<1>5. SlotsCounted' /\ ActiveCounted'
  BY <1>1, <1>3, PlacesOf, CInvFacts, SlotsSame, ActiveSame
<1>6. Reserved(t)'
  BY <1>2, <1>3, IdleIsLocals, IdleReserves DEF None
<1> QED
  BY <1>2, <1>3, <1>4, <1>5, <1>6, Stepped

\* What one section does that needs the lock and does not keep it.
LEMMA GivenStep ==
    ASSUME CInv, NEW t \in Tools, Given(t), Leaves(t), active' = active, slots' = slots,
           Soundly', Server', Drawn', threads' = threads, runtimes' = runtimes
    PROVE  CInv'
<1>1. pc[t] \notin Slotted /\ pc[t] \notin Registered /\ alloc = Nobody
  BY PlacesOf DEF Given
<1> QED
  BY <1>1, LeavesStep

LEMMA CloseStep ==
    ASSUME CInv, NEW t \in Tools, NEW r \in Runtimes, NEW release, Close(t, r, release)
    PROVE  CInv'
<1>1. PICK x \in Closed(World, r, release) : Become(x.w)
  BY DEF Close
<1>2. /\ Given(t) /\ Leaves(t) /\ active' = active /\ slots' = slots
      /\ threads' = threads /\ runtimes' = runtimes /\ r \in DOMAIN World.bind
  BY WorldFields DEF Close, drawn
<1>3. Follows(World, x.w) /\ SameBindings(World, x.w)
  BY <1>2, CInvFacts, ClosedFollows
<1>4. Soundly' /\ Server' /\ Drawn'
  BY <1>1, <1>2, <1>3, SectionKeeps
<1> QED
  BY <1>2, <1>4, GivenStep

LEMMA ListStep ==
    ASSUME CInv, NEW t \in Tools, NEW suppress, List(t, suppress)
    PROVE  CInv'
<1>1. PICK x \in CollectedAll(World, suppress) : Become(x.w)
  BY DEF List
<1>2. /\ Given(t) /\ Leaves(t) /\ active' = active /\ slots' = slots
      /\ threads' = threads /\ runtimes' = runtimes
  BY DEF List, drawn
<1>3. Follows(World, x.w)
  BY CInvFacts, CollectedAllFollows
<1>4. Soundly' /\ Server' /\ Drawn'
  BY <1>1, <1>2, <1>3, SectionShrinks
<1> QED
  BY <1>2, <1>4, GivenStep

LEMMA RefusedStep ==
    ASSUME CInv, NEW t \in Tools, Refused(t)
    PROVE  CInv'
<1>1. /\ Given(t) /\ Leaves(t) /\ active' = active /\ slots' = slots
      /\ UNCHANGED bindVars /\ UNCHANGED serverVars /\ UNCHANGED drawn
  BY DEF Refused
<1>2. Soundly' /\ Server' /\ Drawn' /\ threads' = threads /\ runtimes' = runtimes
  BY <1>1, WorldStays
<1> QED
  BY <1>1, <1>2, GivenStep

\* The holder of the lock goes on, without taking or giving a slot.
LEMMA HolderStep ==
    ASSUME CInv, NEW t \in Tools, NEW place \in AllocPlaces, NEW locals \in Locals,
           Go(t, place, locals), pc[t] \in AllocPlaces, alloc' = alloc,
           place \notin Slotted, pc[t] \notin Slotted, active' = active, slots' = slots,
           Soundly', Server', Drawn', threads <= threads', Reserved(t)'
    PROVE  CInv'
<1>1. place \in Places /\ place \notin Registered /\ pc[t] \notin Registered
  BY PlacesOf DEF AllocPlaces, Registered
<1>2. ToolsTyped' /\ Moves(t) /\ pc'[t] = place /\ loc'[t] = locals
  BY <1>1, GoMoves, CInvFacts
<1>3. LockHeld'
  BY <1>2, LockSame, CInvFacts
<1>4. SlotsCounted' /\ ActiveCounted'
  BY <1>1, <1>2, CInvFacts, SlotsSame, ActiveSame
<1>5. alloc = t
  BY HolderIsAlone, CInvFacts
<1> QED
  BY <1>2, <1>3, <1>4, <1>5, Stepped

LEMMA TakesLock ==
    ASSUME CInv, NEW t \in Tools, NEW place \in Taking, NEW locals \in Locals,
           Go(t, place, locals), pc[t] = "lock", alloc = Nobody, alloc' = t,
           place \notin Slotted, active' = active, slots' = slots,
           Soundly', Server', Drawn', threads <= threads', Reserved(t)'
    PROVE  CInv'
<1>1. place \in Places /\ place \notin Registered /\ place \in AllocPlaces
  BY PlacesOf DEF AllocPlaces, Registered, Taking
<1>2. ToolsTyped' /\ Moves(t) /\ pc'[t] = place /\ loc'[t] = locals
  BY <1>1, GoMoves, CInvFacts
<1>3. LockHeld'
  BY <1>1, <1>2, LockTaken, CInvFacts
<1>4. SlotsCounted' /\ ActiveCounted'
  BY <1>1, <1>2, PlacesOf, CInvFacts, SlotsSame, ActiveSame
<1> QED
  BY <1>2, <1>3, <1>4, Stepped

LEMMA OpenStep ==
    ASSUME CInv, NEW t \in Tools, Open(t)
    PROVE  CInv'
<1>1. /\ Go(t, "capacity", Idle) /\ pc[t] = "lock" /\ alloc = Nobody /\ alloc' = t
      /\ active' = active /\ slots' = slots /\ threads < ThreadBound /\ runtimes < RuntimeBound
      /\ UNCHANGED bindVars /\ UNCHANGED serverVars /\ UNCHANGED drawn
  BY DEF Open, Allocates, Given, Room
<1>2. /\ Soundly' /\ Keeps /\ Server' /\ Drawn' /\ threads' = threads /\ runtimes' = runtimes
      /\ threads <= threads'
  BY <1>1, WorldStays
<1>3. pc'[t] = "capacity" /\ loc'[t] = Idle
  BY <1>1, GoMoves, CInvFacts, IdleIsLocals DEF Places
<1>4. Reserved(t)'
  <2>1. Alone(t)'
    BY <1>3 DEF Alone, Idle
  <2>2. threads \in Nat
    BY CInvFacts DEF Server
  <2> QED
    BY <1>1, <1>2, <1>3, <2>1, <2>2 DEF Reserved, Taking, AllocPlaces, Asking, None, Idle
<1> QED
  BY <1>1, <1>2, <1>4, IdleIsLocals, TakesLock DEF Taking, AllocPlaces, Slotted

LEMMA AcquireStep ==
    ASSUME CInv, NEW t \in Tools, Acquire(t)
    PROVE  CInv'
<1>1. PICK x \in CollectedAll(World, FALSE) :
          /\ Become(x.w)
          /\ IF ~ x.ok THEN Leaves(t)
             ELSE /\ alloc' = t
                  /\ IF Named(x.w) = {}
                     THEN Room /\ Go(t, "capacity", [Idle EXCEPT !.name = TRUE])
                     ELSE \E r \in Named(x.w) :
                            /\ MayLose(x.w.bind[r].th)
                            /\ Go(t, "sync1", [Idle EXCEPT !.rt = r, !.name = TRUE,
                                               !.th = x.w.bind[r].th])
  BY DEF Acquire
<1>2. /\ pc[t] = "lock" /\ alloc = Nobody /\ active' = active /\ slots' = slots
      /\ threads' = threads /\ runtimes' = runtimes
  BY DEF Acquire, Given, drawn
<1>3. Follows(World, x.w)
  BY CInvFacts, CollectedAllFollows
<1>4. Soundly' /\ Shrinks /\ Server' /\ Drawn' /\ threads <= threads' /\ bind' = x.w.bind
  BY <1>1, <1>2, <1>3, SectionShrinks
<1>5. threads' \in Nat
  BY <1>4 DEF Server
<1>6. CASE ~ x.ok
  BY <1>1, <1>2, <1>4, <1>6, PlacesOf, LeavesStep
<1>7. CASE x.ok /\ Named(x.w) = {}
  <2> DEFINE l == [Idle EXCEPT !.name = TRUE]
  <2>1. l \in Locals /\ l.th = None /\ l.rt = None /\ l.name = TRUE
    <3>1. l = [rt |-> None, th |-> None, prev |-> None, reused |-> FALSE, name |-> TRUE,
               kind |-> "none", gen |-> 0]
      BY NamedLocals, Zenon
    <3>2. None \in Maybe(Runtimes) /\ None \in Maybe(Threads)
      BY DEF Maybe
    <3> HIDE DEF l
    <3> QED
      BY <3>1, <3>2, Located
  <2>2. Go(t, "capacity", l) /\ alloc' = t /\ Room
    BY <1>1, <1>7
  <2> HIDE DEF l
  <2>3. pc'[t] = "capacity" /\ loc'[t] = l
    BY <2>1, <2>2, GoMoves, CInvFacts DEF Places
  <2>4. \A q \in DOMAIN bind' : ~ bind'[q].name
    BY <1>4, <1>7 DEF Named
  <2>5. Alone(t)'
    BY <2>1, <2>3, <2>4 DEF Alone
  <2>6. Reserved(t)'
    BY <1>2, <1>5, <2>1, <2>2, <2>3, <2>5 DEF Reserved, Taking, AllocPlaces, Asking, None, Room
  <2> QED
    BY <1>2, <1>4, <2>1, <2>2, <2>6, TakesLock DEF Taking, AllocPlaces, Slotted
<1>8. CASE x.ok /\ Named(x.w) # {}
  <2>1. PICK r \in Named(x.w) :
            /\ MayLose(x.w.bind[r].th)
            /\ Go(t, "sync1", [Idle EXCEPT !.rt = r, !.name = TRUE, !.th = x.w.bind[r].th])
    BY <1>1, <1>8
  <2> DEFINE h == x.w.bind[r].th
             l == [Idle EXCEPT !.rt = r, !.name = TRUE, !.th = h]
  <2>2. r \in DOMAIN bind' /\ bind'[r].name /\ h = bind'[r].th
    BY <1>4 DEF Named
  <2>3. r \in Runtimes /\ r # None /\ h \in Threads /\ h # None /\ h <= threads'
    <3>1. IsBinding(bind'[r]) /\ r \in Runtimes
      BY <1>4, <2>2 DEF Soundly, AreBindings
    <3>2. h <= threads'
      BY <1>4, <2>2 DEF Drawn
    <3> HIDE DEF h
    <3> QED
      BY <2>2, <3>1, <3>2 DEF IsBinding, Runtimes, Threads, None
  <2>4. Go(t, "sync1", l) /\ alloc' = t /\ MayLose(h)
    BY <1>1, <1>8, <2>1
  <2> HIDE DEF h
  <2>5. l \in Locals /\ l.th = h /\ l.rt = r /\ l.name = TRUE
    <3>1. l = [rt |-> r, th |-> h, prev |-> None, reused |-> FALSE, name |-> TRUE,
               kind |-> "none", gen |-> 0]
      BY BoundLocals, Zenon
    <3>2. r \in Maybe(Runtimes) /\ h \in Maybe(Threads)
      BY <2>3 DEF Maybe
    <3> HIDE DEF l
    <3> QED
      BY <3>1, <3>2, Located
  <2> HIDE DEF l
  <2>6. pc'[t] = "sync1" /\ loc'[t] = l
    BY <2>4, <2>5, GoMoves, CInvFacts DEF Places
  <2>7. Alone(t)'
    BY <1>4, <2>2, <2>5, <2>6 DEF Alone, Drawn, OneBindingEach
  <2>8. Reserved(t)'
    BY <1>2, <2>2, <2>3, <2>4, <2>5, <2>6, <2>7
       DEF Reserved, Taking, AllocPlaces, Asking, MayLose
  <2> QED
    BY <1>2, <1>4, <2>4, <2>5, <2>8, TakesLock DEF Taking, AllocPlaces, Slotted
<1> QED
  BY <1>6, <1>7, <1>8

LEMMA ResumeStep ==
    ASSUME CInv, NEW t \in Tools, NEW th \in 1 .. threads, Resume(t, th)
    PROVE  CInv'
<1>1. PICK l : /\ Allocates(t, "sync1", l)
               /\ \/ th \notin Bound(World) /\ l = [Idle EXCEPT !.th = th]
                  \/ \E r \in DOMAIN bind : /\ bind[r].th = th
                                            /\ l = [Idle EXCEPT !.th = th, !.rt = r,
                                                                !.name = bind[r].name]
  BY DEF Resume
<1>2. /\ Go(t, "sync1", l) /\ pc[t] = "lock" /\ alloc = Nobody /\ alloc' = t
      /\ active' = active /\ slots' = slots /\ MayLose(th)
      /\ (th \in Bound(World) \/ runtimes < RuntimeBound)
      /\ UNCHANGED bindVars /\ UNCHANGED serverVars /\ UNCHANGED drawn
  BY <1>1 DEF Resume, Allocates, Given
<1>3. /\ Soundly' /\ Keeps /\ Server' /\ Drawn' /\ threads' = threads /\ runtimes' = runtimes
      /\ threads <= threads' /\ bind' = bind
  BY <1>2, WorldStays
<1>4. th \in Threads /\ th # None /\ th <= threads
  BY CInvFacts, LimitsAssumption DEF Server, Threads, None
<1>5. /\ l \in Locals /\ l.th = th
      /\ (l.rt = None => runtimes < RuntimeBound)
      /\ (l.rt # None => l.rt \in DOMAIN bind)
      /\ \A q \in DOMAIN bind : q # l.rt =>
            bind[q].th # th /\ (l.name => ~ bind[q].name)
  <2>1. CASE th \notin Bound(World) /\ l = [Idle EXCEPT !.th = th]
    <3>1. l \in Locals /\ l.th = th /\ l.rt = None /\ l.name = FALSE
      <4>1. l = [rt |-> None, th |-> th, prev |-> None, reused |-> FALSE, name |-> FALSE,
                 kind |-> "none", gen |-> 0]
        BY <2>1 DEF Idle
      <4>2. None \in Maybe(Runtimes) /\ th \in Maybe(Threads)
        BY <1>4 DEF Maybe
      <4> QED
        BY <4>1, <4>2, Located
    <3>2. \A q \in DOMAIN bind : bind[q].th # th
      BY <2>1, WorldFields DEF Bound
    <3> QED
      BY <1>2, <2>1, <3>1, <3>2
  <2>2. CASE \E r \in DOMAIN bind : /\ bind[r].th = th
                                    /\ l = [Idle EXCEPT !.th = th, !.rt = r,
                                                        !.name = bind[r].name]
    <3>1. PICK r \in DOMAIN bind : /\ bind[r].th = th
                                   /\ l = [Idle EXCEPT !.th = th, !.rt = r,
                                                       !.name = bind[r].name]
      BY <2>2
    <3>2. r \in Runtimes /\ r # None /\ bind[r].name \in BOOLEAN
      BY CInvFacts, BoundTyped
    <3>3. l \in Locals /\ l.th = th /\ l.rt = r /\ l.name = bind[r].name
      <4>1. l = [rt |-> r, th |-> th, prev |-> None, reused |-> FALSE, name |-> bind[r].name,
                 kind |-> "none", gen |-> 0]
        BY <3>1 DEF Idle
      <4>2. r \in Maybe(Runtimes) /\ th \in Maybe(Threads)
        BY <1>4, <3>2 DEF Maybe
      <4> QED
        BY <3>2, <4>1, <4>2, Located
    <3>4. \A q \in DOMAIN bind : q # r => bind[q].th # th /\ (bind[r].name => ~ bind[q].name)
      BY <3>1, CInvFacts DEF Drawn, OneBindingEach
    <3> QED
      BY <3>2, <3>3, <3>4
  <2> QED
    BY <1>1, <2>1, <2>2
<1>6. pc'[t] = "sync1" /\ loc'[t] = l
  BY <1>2, <1>5, GoMoves, CInvFacts DEF Places
<1>7. Alone(t)'
  BY <1>3, <1>5, <1>6 DEF Alone
<1>8. Reserved(t)'
  BY <1>2, <1>3, <1>4, <1>5, <1>6, <1>7 DEF Reserved, Taking, AllocPlaces, Asking, MayLose
<1> QED
  BY <1>2, <1>3, <1>5, <1>8, TakesLock DEF Taking, AllocPlaces, Slotted

LEMMA EnsureCapacityStep ==
    ASSUME CInv, NEW t \in Tools, EnsureCapacity(t)
    PROVE  CInv'
<1>1. PICK x \in Capacity(World) :
          Become(x.w) /\ IF x.ok THEN Go(t, "slot", loc[t]) /\ UNCHANGED alloc ELSE Leaves(t)
  BY DEF EnsureCapacity
<1>2. /\ pc[t] = "capacity" /\ active' = active /\ slots' = slots
      /\ threads' = threads /\ runtimes' = runtimes
  BY DEF EnsureCapacity, drawn
<1>3. Follows(World, x.w)
  BY CInvFacts, CapacityFollows
<1>4. Soundly' /\ Shrinks /\ Server' /\ Drawn' /\ threads <= threads'
  BY <1>1, <1>2, <1>3, SectionShrinks
<1>5. pc[t] \in AllocPlaces /\ pc[t] \notin Slotted /\ pc[t] \notin Registered
  BY <1>2 DEF AllocPlaces, Slotted, Registered
<1>6. alloc = t
  BY <1>5, HolderIsAlone, CInvFacts
<1>7. CASE ~ x.ok
  BY <1>1, <1>2, <1>4, <1>5, <1>6, <1>7, LeavesStep
<1>8. CASE x.ok
  <2>1. Go(t, "slot", loc[t]) /\ alloc' = alloc
    BY <1>1, <1>8
  <2>2. pc'[t] = "slot" /\ loc'[t] = loc[t]
    BY <2>1, GoMoves, LocalsOf, CInvFacts DEF Places
  <2>3. Reserved(t)
    BY DEF CInv
  <2>4. Alone(t)'
    BY <1>2, <1>4, <2>2, <2>3, AloneStays DEF Reserved, Taking, AllocPlaces
  <2>5. Reserved(t)'
    BY <1>2, <2>2, <2>3, <2>4 DEF Reserved, Taking, AllocPlaces, Asking
  <2> QED
    BY <1>2, <1>4, <1>5, <2>1, <2>5, LocalsOf, CInvFacts, HolderStep DEF AllocPlaces, Slotted
<1> QED
  BY <1>7, <1>8

LEMMA SyncedSection ==
    ASSUME CInv, Become(Synced(World)), threads' = threads, runtimes' = runtimes
    PROVE  Soundly' /\ Keeps /\ Server' /\ Drawn' /\ threads <= threads'
BY SyncedFollows, SectionKeeps, CInvFacts

LEMMA SyncBeforeStep ==
    ASSUME CInv, NEW t \in Tools, SyncBefore(t)
    PROVE  CInv'
<1>1. /\ pc[t] = "sync1" /\ active' = active /\ slots' = slots /\ alloc' = alloc
      /\ threads' = threads /\ runtimes' = runtimes /\ Go(t, "lookup", loc[t])
      /\ Become(Synced(World))
  BY DEF SyncBefore, drawn
<1>2. Soundly' /\ Keeps /\ Server' /\ Drawn' /\ threads <= threads'
  BY <1>1, SyncedSection
<1>3. pc'[t] = "lookup" /\ loc'[t] = loc[t]
  BY <1>1, GoMoves, LocalsOf, CInvFacts DEF Places
<1>4. Reserved(t)
  BY DEF CInv
<1>5. Alone(t)'
  BY <1>1, <1>2, <1>3, <1>4, AloneStays DEF Reserved, Taking, AllocPlaces, Keeps
<1>6. Reserved(t)'
  BY <1>1, <1>2, <1>3, <1>4, <1>5 DEF Reserved, Taking, AllocPlaces, Asking, Keeps
<1> QED
  BY <1>1, <1>2, <1>6, LocalsOf, CInvFacts, HolderStep DEF AllocPlaces, Slotted

LEMMA SyncAfterStep ==
    ASSUME CInv, NEW t \in Tools, SyncAfter(t)
    PROVE  CInv'
<1>1. /\ pc[t] = "sync2" /\ active' = active /\ slots' = slots /\ alloc' = alloc
      /\ threads' = threads /\ runtimes' = runtimes /\ Go(t, "commit", loc[t])
      /\ Become(Synced(World))
  BY DEF SyncAfter, drawn
<1>2. Soundly' /\ Keeps /\ Server' /\ Drawn' /\ threads <= threads'
  BY <1>1, SyncedSection
<1>3. pc'[t] = "commit" /\ loc'[t] = loc[t]
  BY <1>1, GoMoves, LocalsOf, CInvFacts DEF Places
<1>4. Reserved(t)
  BY DEF CInv
<1>5. Alone(t)'
  BY <1>1, <1>2, <1>3, <1>4, AloneStays DEF Reserved, Taking, AllocPlaces, Keeps
<1>6. Reserved(t)'
  BY <1>1, <1>2, <1>3, <1>4, <1>5 DEF Reserved, Taking, AllocPlaces, Asking, Keeps
<1> QED
  BY <1>1, <1>2, <1>6, LocalsOf, CInvFacts, HolderStep DEF AllocPlaces, Slotted

\* _release_thread_locked of a thread that has an id.
LEMMA ReleaseSection ==
    ASSUME CInv, NEW th \in Threads, NEW x \in ReleaseOne(World, th), Become(x.w),
           threads' = threads, runtimes' = runtimes
    PROVE  Soundly' /\ Keeps /\ Server' /\ Drawn' /\ threads <= threads'
BY ReleaseOneFollows, SectionKeeps, CInvFacts

LEMMA LookupStep ==
    ASSUME CInv, NEW t \in Tools, Lookup(t)
    PROVE  CInv'
<1>1. /\ pc[t] = "lookup" /\ active' = active /\ slots' = slots
      /\ threads' = threads /\ runtimes' = runtimes
  BY DEF Lookup, drawn
<1>2. PICK x \in IF loc[t].th \in pendrel THEN ReleaseOne(World, loc[t].th) ELSE {Ok(World)} :
          /\ Become(x.w)
          /\ IF ~ x.ok THEN Leaves(t)
             ELSE LET reused == loc[t].rt # None /\ up /\ loc[t].th \in x.w.live
                  IN  /\ Go(t, IF reused THEN "sync2" ELSE "slot",
                               [loc[t] EXCEPT !.reused = reused])
                      /\ UNCHANGED alloc
  BY DEF Lookup
<1>3. Reserved(t) /\ loc[t].th # None /\ loc[t].th \in Threads
  <2>1. Reserved(t)
    BY DEF CInv
  <2> QED
    BY <1>1, <2>1, LocalsOf, CInvFacts DEF Reserved
<1>4. Soundly' /\ Keeps /\ Server' /\ Drawn' /\ threads <= threads'
  <2>1. CASE loc[t].th \in pendrel
    BY <1>1, <1>2, <1>3, <2>1, ReleaseSection
  <2>2. CASE loc[t].th \notin pendrel
    <3>1. x.w = World
      BY <1>2, <2>2 DEF Ok
    <3>2. Follows(World, World) /\ SameBindings(World, World)
      BY CInvFacts, FollowsItself
    <3> QED
      BY <1>1, <1>2, <3>1, <3>2, SectionKeeps
  <2> QED
    BY <2>1, <2>2
<1>5. pc[t] \in AllocPlaces /\ pc[t] \notin Slotted /\ pc[t] \notin Registered
  BY <1>1 DEF AllocPlaces, Slotted, Registered
<1>6. CASE ~ x.ok
  BY <1>1, <1>2, <1>4, <1>5, <1>6, LeavesStep
<1>7. CASE x.ok
  <2>1. PICK reused \in BOOLEAN : reused = (loc[t].rt # None /\ up /\ loc[t].th \in x.w.live)
    OBVIOUS
  <2> DEFINE place == IF reused THEN "sync2" ELSE "slot"
             l     == [loc[t] EXCEPT !.reused = reused]
  <2>2. Go(t, place, l) /\ alloc' = alloc
    BY <1>2, <1>7, <2>1
  <2>3. loc[t] \in Locals
    BY CInvFacts, LocalsOf
  <2>4. l \in Locals /\ l.rt = loc[t].rt /\ l.th = loc[t].th /\ l.name = loc[t].name
    BY <2>3 DEF Locals
  <2>5. place \in {"sync2", "slot"}
    OBVIOUS
  <2> HIDE DEF l, place
  <2>6. pc'[t] = place /\ loc'[t] = l
    BY <2>2, <2>4, <2>5, GoMoves, CInvFacts DEF Places
  <2>7. Alone(t)'
    BY <1>1, <1>3, <1>4, <2>4, <2>6, AloneStays DEF Reserved, Taking, AllocPlaces, Keeps
  <2>8. Reserved(t)'
    BY <1>1, <1>3, <1>4, <2>4, <2>5, <2>6, <2>7 DEF Reserved, Taking, AllocPlaces, Asking, Keeps
  <2>9. place \in AllocPlaces /\ place \notin Slotted
    BY <2>5 DEF AllocPlaces, Slotted
  <2> QED
    BY <1>1, <1>4, <1>5, <2>2, <2>4, <2>8, <2>9, HolderStep
<1> QED
  BY <1>6, <1>7

LEMMA NoSlotStep ==
    ASSUME CInv, NEW t \in Tools, NoSlot(t)
    PROVE  CInv'
<1>1. /\ pc[t] = "slot" /\ active' = active /\ slots' = slots /\ Leaves(t)
      /\ UNCHANGED bindVars /\ UNCHANGED serverVars /\ UNCHANGED drawn
  BY DEF NoSlot
<1>2. pc[t] \notin Slotted /\ pc[t] \notin Registered
  BY <1>1 DEF Slotted, Registered
<1> QED
  BY <1>1, <1>2, WorldStays, LeavesStep

LEMMA TakeSlotStep ==
    ASSUME CInv, NEW t \in Tools, TakeSlot(t)
    PROVE  CInv'
<1>1. /\ pc[t] = "slot" /\ active' = active /\ slots < MaxSlots /\ slots' = slots + 1
      /\ Go(t, "request", loc[t]) /\ alloc' = alloc
      /\ UNCHANGED bindVars /\ UNCHANGED serverVars /\ UNCHANGED drawn
  BY DEF TakeSlot
<1>2. /\ Soundly' /\ Keeps /\ Server' /\ Drawn' /\ threads' = threads /\ runtimes' = runtimes
      /\ threads <= threads'
  BY <1>1, WorldStays
<1>3. ToolsTyped' /\ Moves(t) /\ pc'[t] = "request" /\ loc'[t] = loc[t]
  BY <1>1, GoMoves, LocalsOf, CInvFacts DEF Places
<1>4. Reserved(t)
  BY DEF CInv
<1>5. Alone(t)'
  BY <1>1, <1>2, <1>3, <1>4, AloneStays DEF Reserved, Taking, AllocPlaces, Keeps
<1>6. Reserved(t)'
  BY <1>1, <1>2, <1>3, <1>4, <1>5 DEF Reserved, Taking, AllocPlaces, Asking, Keeps
<1>7. LockHeld'
  BY <1>1, <1>3, LockSame, CInvFacts DEF AllocPlaces
<1>8. SlotsCounted'
  BY <1>1, <1>3, SlotTaken, CInvFacts DEF Slotted
<1>9. ActiveCounted'
  BY <1>1, <1>3, ActiveSame, CInvFacts DEF Registered
<1> QED
  BY <1>2, <1>3, <1>6, <1>7, <1>8, <1>9, Stepped

\* The bindings while the App Server is asked.
LEMMA AskedBindings ==
    ASSUME CInv, UNCHANGED bindVars, loaded' \subseteq Threads, claimed' \subseteq Threads,
           aband' \subseteq Threads, threads' \in Nat, threads <= threads', runtimes' = runtimes
    PROVE  Soundly' /\ Keeps /\ Drawn' /\ bind' = bind
<1>1. bind' = bind /\ disk' = disk /\ older' = older /\ idle' = idle /\ live' = live
      /\ pendrel' = pendrel /\ obs' = obs
  BY DEF bindVars
<1>2. Soundly' /\ Keeps
  BY <1>1, CInvFacts DEF Soundly, Keeps, Shrinks
<1>3. Drawn'
  BY <1>2, CInvFacts, DrawnShrinks DEF Keeps
<1> QED
  BY <1>1, <1>2, <1>3

LEMMA StartsTyped ==
    ASSUME Server, up' = TRUE, gen' = IF up THEN gen ELSE gen + 1
    PROVE  up' \in BOOLEAN /\ gen' \in 0 .. GenBound
BY LimitsAssumption DEF Server

\* A request of an allocation ends, with its slot.
LEMMA RequestGoes ==
    ASSUME CInv, NEW t \in Tools, pc[t] = "request", slots' = slots - 1, active' = active,
           Soundly', Server', Drawn', threads <= threads',
           \/ Leaves(t)
           \/ \E l \in Locals : Go(t, "sync2", l) /\ alloc' = alloc /\ Reserved(t)'
    PROVE  CInv'
<1>1. pc[t] \in AllocPlaces /\ pc[t] \in Slotted /\ pc[t] \notin Registered
  BY DEF AllocPlaces, Slotted, Registered
<1>2. alloc = t
  BY <1>1, HolderIsAlone, CInvFacts
<1>3. threads' \in Nat
  BY DEF Server
<1>4. ToolsTyped' /\ Moves(t) /\ LockHeld' /\ Reserved(t)' /\ pc'[t] \in {"idle", "sync2"}
  <2>1. CASE Leaves(t)
    BY <1>3, <2>1, Leaving
  <2>2. CASE \E l \in Locals : Go(t, "sync2", l) /\ alloc' = alloc /\ Reserved(t)'
    <3>1. PICK l \in Locals : Go(t, "sync2", l) /\ alloc' = alloc /\ Reserved(t)'
      BY <2>2
    <3>2. ToolsTyped' /\ Moves(t) /\ pc'[t] = "sync2"
      BY <3>1, GoMoves, CInvFacts DEF Places
    <3>3. LockHeld'
      BY <1>1, <3>1, <3>2, LockSame, CInvFacts DEF AllocPlaces
    <3> QED
      BY <3>1, <3>2, <3>3
  <2> QED
    BY <2>1, <2>2
<1>5. SlotsCounted'
  BY <1>1, <1>4, SlotGiven, CInvFacts DEF Slotted
<1>6. ActiveCounted'
  BY <1>1, <1>4, ActiveSame, CInvFacts DEF Registered
<1> QED
  BY <1>2, <1>4, <1>5, <1>6, Stepped

\* A thread is asked for when one more may be started, or when one can be resumed.
LEMMA AskingThread ==
    ASSUME CInv, NEW t \in Tools, pc[t] = "request"
    PROVE  /\ Reserved(t) /\ loc[t] \in Locals /\ Alone(t)
           /\ (loc[t].th = None \/ loc[t].th \in Harness) =>
                 threads + 1 \in Threads /\ threads + 1 \in 0 .. ThreadBound
           /\ threads \in Nat
<1>1. Reserved(t) /\ loc[t] \in Locals
  BY LocalsOf, CInvFacts DEF CInv
<1>2. (loc[t].th = None \/ loc[t].th \in Harness) => threads < ThreadBound
  BY <1>1 DEF Reserved, Asking
<1>3. Alone(t)
  BY <1>1 DEF Reserved, Taking, AllocPlaces
<1>4. threads \in Nat /\ ThreadBound \in Nat
  BY CInvFacts, LimitsAssumption DEF Server
<1> QED
  BY <1>1, <1>2, <1>3, <1>4 DEF Threads

LEMMA StartThreadStep ==
    ASSUME CInv, NEW t \in Tools, StartThread(t)
    PROVE  CInv'
<1> DEFINE l == [loc[t] EXCEPT !.th = threads + 1, !.prev = loc[t].th]
<1>1. /\ pc[t] = "request" /\ (loc[t].th = None \/ Lost(loc[t].th))
      /\ up' = TRUE /\ gen' = (IF up THEN gen ELSE gen + 1)
      /\ UNCHANGED bindVars /\ aband' = aband /\ late' = late /\ stuck' = stuck
      /\ claimed' = claimed /\ threads' = threads + 1 /\ loaded' = loaded \cup {threads + 1}
      /\ unclaimed' = {threads + 1} /\ Go(t, "sync2", l) /\ slots' = slots - 1
      /\ active' = active /\ alloc' = alloc /\ runtimes' = runtimes
  BY DEF StartThread, WantsNew, Starts
<1>2. /\ Reserved(t) /\ loc[t] \in Locals /\ Alone(t)
      /\ threads + 1 \in Threads /\ threads + 1 \in 0 .. ThreadBound /\ threads \in Nat
  BY <1>1, AskingThread DEF Lost
<1>3. up' \in BOOLEAN /\ gen' \in 0 .. GenBound
  BY <1>1, CInvFacts, StartsTyped
<1>4. Server'
  BY <1>1, <1>2, <1>3, CInvFacts DEF Server
<1>5. Soundly' /\ Keeps /\ Drawn' /\ bind' = bind /\ threads <= threads'
  <2>1. loaded' \subseteq Threads /\ claimed' \subseteq Threads /\ aband' \subseteq Threads
    BY <1>1, <1>2, CInvFacts DEF Soundly
  <2>2. threads' \in Nat /\ threads <= threads'
    BY <1>1, <1>2
  <2> QED
    BY <1>1, <2>1, <2>2, AskedBindings
<1>6. /\ l \in Locals /\ l.th = threads + 1 /\ l.rt = loc[t].rt /\ l.name = loc[t].name
  BY <1>2 DEF Locals, Maybe
<1> HIDE DEF l
<1>7. pc'[t] = "sync2" /\ loc'[t] = l
  BY <1>1, <1>6, GoMoves, CInvFacts DEF Places
<1>8. Alone(t)'
  <2>1. \A q \in DOMAIN bind : bind[q].th # threads + 1
    <3>1. \A q \in DOMAIN bind : bind[q].th \in Nat /\ bind[q].th <= threads
      BY CInvFacts, BoundTyped, LimitsAssumption DEF Drawn, Threads
    <3> QED
      BY <1>2, <3>1
  <2> QED
    BY <1>2, <1>5, <1>6, <1>7, <2>1 DEF Alone
<1>9. Reserved(t)'
  BY <1>1, <1>2, <1>5, <1>6, <1>7, <1>8 DEF Reserved, Taking, AllocPlaces, Asking, None
<1> QED
  BY <1>1, <1>4, <1>5, <1>6, <1>9, RequestGoes

LEMMA ResumeThreadStep ==
    ASSUME CInv, NEW t \in Tools, ResumeThread(t)
    PROVE  CInv'
<1>1. /\ pc[t] = "request" /\ loc[t].th # None
      /\ up' = TRUE /\ gen' = (IF up THEN gen ELSE gen + 1)
      /\ UNCHANGED bindVars /\ aband' = aband /\ late' = late /\ stuck' = stuck
      /\ claimed' = claimed /\ threads' = threads /\ loaded' = loaded \cup {loc[t].th}
      /\ unclaimed' = {loc[t].th} /\ Go(t, "sync2", loc[t]) /\ slots' = slots - 1
      /\ active' = active /\ alloc' = alloc /\ runtimes' = runtimes
  BY DEF ResumeThread, WantsNew, Starts, drawn
<1>2. Reserved(t) /\ loc[t] \in Locals /\ Alone(t) /\ threads \in Nat /\ loc[t].th \in Threads
  BY <1>1, AskingThread, LocalsOf, CInvFacts
<1>3. up' \in BOOLEAN /\ gen' \in 0 .. GenBound
  BY <1>1, CInvFacts, StartsTyped
<1>4. Server'
  BY <1>1, <1>2, <1>3, CInvFacts DEF Server
<1>5. Soundly' /\ Keeps /\ Drawn' /\ bind' = bind /\ threads <= threads'
  <2>1. loaded' \subseteq Threads /\ claimed' \subseteq Threads /\ aband' \subseteq Threads
    BY <1>1, <1>2, CInvFacts DEF Soundly
  <2>2. threads' \in Nat /\ threads <= threads'
    BY <1>1, <1>2
  <2> QED
    BY <1>1, <2>1, <2>2, AskedBindings
<1>7. pc'[t] = "sync2" /\ loc'[t] = loc[t]
  BY <1>1, <1>2, GoMoves, CInvFacts DEF Places
<1>8. Alone(t)'
  BY <1>2, <1>5, <1>7 DEF Alone
<1>9. Reserved(t)'
  BY <1>1, <1>2, <1>5, <1>7, <1>8 DEF Reserved, Taking, AllocPlaces, Asking
<1> QED
  BY <1>1, <1>2, <1>4, <1>5, <1>9, RequestGoes

LEMMA MismatchedThreadStep ==
    ASSUME CInv, NEW t \in Tools, MismatchedThread(t)
    PROVE  CInv'
<1>1. /\ pc[t] = "request"
      /\ up' = TRUE /\ gen' = (IF up THEN gen ELSE gen + 1)
      /\ UNCHANGED bindVars /\ aband' = aband /\ late' = late /\ stuck' = stuck
      /\ claimed' = claimed /\ loaded' = loaded \cup unclaimed'
      /\ Leaves(t) /\ slots' = slots - 1 /\ active' = active /\ runtimes' = runtimes
  BY DEF MismatchedThread, Starts
<1>2. /\ unclaimed' \subseteq Threads /\ threads' \in 0 .. ThreadBound
      /\ threads' \in Nat /\ threads <= threads'
  <2>1. CASE WantsNew(t)
    <3>1. threads' = threads + 1 /\ unclaimed' = {threads + 1}
      BY <2>1 DEF MismatchedThread
    <3>2. threads + 1 \in Threads /\ threads + 1 \in 0 .. ThreadBound /\ threads \in Nat
      BY <1>1, <2>1, AskingThread DEF WantsNew, Lost
    <3> QED
      BY <3>1, <3>2
  <2>2. CASE ~ WantsNew(t)
    <3>1. threads' = threads /\ unclaimed' = {loc[t].th} /\ loc[t].th # None
      BY <2>2 DEF MismatchedThread, WantsNew
    <3>2. loc[t].th \in Threads /\ threads \in Nat /\ threads \in 0 .. ThreadBound
      BY <3>1, LocalsOf, CInvFacts DEF Server
    <3> QED
      BY <3>1, <3>2
  <2> QED
    BY <2>1, <2>2
<1>3. up' \in BOOLEAN /\ gen' \in 0 .. GenBound
  BY <1>1, CInvFacts, StartsTyped
<1>4. Server'
  BY <1>1, <1>2, <1>3, CInvFacts DEF Server
<1>5. Soundly' /\ Keeps /\ Drawn' /\ threads <= threads'
  <2>1. loaded' \subseteq Threads /\ claimed' \subseteq Threads /\ aband' \subseteq Threads
    BY <1>1, <1>2, CInvFacts DEF Soundly
  <2> QED
    BY <1>1, <1>2, <2>1, AskedBindings
<1> QED
  BY <1>1, <1>4, <1>5, RequestGoes

\* The process is there, or a new one, or there is none and none starts.
LEMMA StartedOrNot ==
    ASSUME CInv, UNCHANGED bindVars, UNCHANGED drawn,
           \/ Starts /\ UNCHANGED <<loaded, unclaimed, claimed>>
           \/ StartFails
    PROVE  /\ Soundly' /\ Keeps /\ Server' /\ Drawn' /\ threads <= threads' /\ threads' \in Nat
           /\ gen' \in 0 .. GenBound /\ runtimes' = runtimes
<1>1. CASE Starts /\ UNCHANGED <<loaded, unclaimed, claimed>>
  <2>1. /\ up' = TRUE /\ gen' = (IF up THEN gen ELSE gen + 1)
        /\ aband' = aband /\ late' = late /\ stuck' = stuck
        /\ claimed' = claimed /\ threads' = threads /\ loaded' = loaded
        /\ unclaimed' = unclaimed /\ runtimes' = runtimes
    BY <1>1 DEF Starts, drawn
  <2>2. up' \in BOOLEAN /\ gen' \in 0 .. GenBound
    BY <2>1, CInvFacts, StartsTyped
  <2>3. Server' /\ threads' \in Nat /\ threads <= threads'
    BY <2>1, <2>2, CInvFacts DEF Server
  <2>4. loaded' \subseteq Threads /\ claimed' \subseteq Threads /\ aband' \subseteq Threads
    BY <2>1, CInvFacts DEF Soundly
  <2> QED
    BY <2>1, <2>2, <2>3, <2>4, AskedBindings
<1>2. CASE StartFails
  <2>1. UNCHANGED serverVars /\ gen' = gen
    BY <1>2 DEF StartFails, serverVars
  <2> QED
    BY <2>1, CInvFacts, WorldStays DEF Server
<1> QED
  BY <1>1, <1>2

LEMMA ThreadErrorStep ==
    ASSUME CInv, NEW t \in Tools, ThreadError(t)
    PROVE  CInv'
<1>1. /\ pc[t] = "request" /\ UNCHANGED bindVars /\ UNCHANGED drawn
      /\ \/ Starts /\ UNCHANGED <<loaded, unclaimed, claimed>>
         \/ StartFails
      /\ Leaves(t) /\ slots' = slots - 1 /\ active' = active
  BY DEF ThreadError, Starts, StartFails
<1>2. Soundly' /\ Server' /\ Drawn' /\ threads <= threads'
  BY <1>1, StartedOrNot
<1> QED
  BY <1>1, <1>2, RequestGoes

LEMMA ThreadTimeoutStep ==
    ASSUME CInv, NEW t \in Tools, ThreadTimeout(t)
    PROVE  CInv'
<1>1. /\ pc[t] = "request"
      /\ up' = TRUE /\ gen' = (IF up THEN gen ELSE gen + 1)
      /\ UNCHANGED bindVars /\ aband' = aband /\ stuck' = stuck
      /\ claimed' = claimed /\ loaded' = loaded
      /\ unclaimed' = unclaimed /\ Leaves(t) /\ slots' = slots - 1
      /\ active' = active /\ runtimes' = runtimes
  BY DEF ThreadTimeout
<1>2. /\ threads \in Nat /\ threads' \in 0 .. ThreadBound /\ threads <= threads'
      /\ late' \subseteq [th : Threads, resume : BOOLEAN]
  <2>1. CASE /\ WantsNew(t) /\ threads' = threads + 1
             /\ late' = late \cup {[th |-> threads + 1, resume |-> FALSE]}
    <3>1. threads + 1 \in Threads /\ threads + 1 \in 0 .. ThreadBound /\ threads \in Nat
      BY <1>1, <2>1, AskingThread DEF WantsNew, Lost
    <3>2. threads' = threads + 1 /\ late' = late \cup {[th |-> threads + 1, resume |-> FALSE]}
      BY <2>1
    <3>3. late \subseteq [th : Threads, resume : BOOLEAN]
      BY CInvFacts DEF Server
    <3>4. [th |-> threads + 1, resume |-> FALSE] \in [th : Threads, resume : BOOLEAN]
      BY <3>1
    <3>5. late' \subseteq [th : Threads, resume : BOOLEAN]
      BY <3>2, <3>3, <3>4
    <3> QED
      BY <3>1, <3>2, <3>5
  <2>2. CASE /\ loc[t].th # None /\ UNCHANGED threads
             /\ late' = late \cup {[th |-> loc[t].th, resume |-> TRUE]}
    <3>1. loc[t].th \in Threads
      BY <2>2, LocalsOf, CInvFacts
    <3>2. threads' = threads /\ late' = late \cup {[th |-> loc[t].th, resume |-> TRUE]}
      BY <2>2
    <3>3. late \subseteq [th : Threads, resume : BOOLEAN] /\ threads \in 0 .. ThreadBound
      BY CInvFacts DEF Server
    <3>4. [th |-> loc[t].th, resume |-> TRUE] \in [th : Threads, resume : BOOLEAN]
      BY <3>1
    <3>5. late' \subseteq [th : Threads, resume : BOOLEAN]
      BY <3>2, <3>3, <3>4
    <3> QED
      BY <3>2, <3>3, <3>5
  <2> QED
    BY <2>1, <2>2 DEF ThreadTimeout
<1>3. up' \in BOOLEAN /\ gen' \in 0 .. GenBound
  BY <1>1, CInvFacts, StartsTyped
<1>4. Server'
  BY <1>1, <1>2, <1>3, CInvFacts DEF Server
<1>5. Soundly' /\ Keeps /\ Drawn'
  <2>1. loaded' \subseteq Threads /\ claimed' \subseteq Threads /\ aband' \subseteq Threads
    BY <1>1, CInvFacts DEF Soundly
  <2>2. threads' \in Nat
    BY <1>2
  <2> QED
    BY <1>1, <1>2, <2>1, <2>2, AskedBindings
<1> QED
  BY <1>1, <1>2, <1>4, <1>5, RequestGoes

\* A thread that is not kept is released.
LEMMA ReleaseThenStep ==
    ASSUME CInv, NEW t \in Tools, NEW place \in {"undo", "replaced"}, NEW th \in Threads,
           ReleaseThen(t, place, th)
    PROVE  CInv'
<1>1. /\ pc[t] = place /\ Leaves(t) /\ active' = active /\ slots' = slots
      /\ threads' = threads /\ runtimes' = runtimes
      /\ \E x \in ReleaseOne(World, th) : Become(x.w)
  BY DEF ReleaseThen, drawn
<1>2. Soundly' /\ Keeps /\ Server' /\ Drawn' /\ threads <= threads'
  BY <1>1, ReleaseSection
<1>3. pc[t] \notin Slotted /\ pc[t] \notin Registered
  BY <1>1 DEF Slotted, Registered
<1> QED
  BY <1>1, <1>2, <1>3, LeavesStep

LEMMA UndoStep ==
    ASSUME CInv, NEW t \in Tools, Undo(t) \/ Replaced(t)
    PROVE  CInv'
<1>1. Reserved(t)
  BY DEF CInv
<1>2. CASE Undo(t)
  <2>1. pc[t] = "undo" /\ ReleaseThen(t, "undo", loc[t].th)
    BY <1>2 DEF Undo, ReleaseThen
  <2>2. loc[t].th \in Threads
    BY <1>1, <2>1, LocalsOf, CInvFacts DEF Reserved
  <2> QED
    BY <2>1, <2>2, ReleaseThenStep
<1>3. CASE Replaced(t)
  <2>1. pc[t] = "replaced" /\ ReleaseThen(t, "replaced", loc[t].prev)
    BY <1>3 DEF Replaced, ReleaseThen
  <2>2. loc[t].prev \in Threads
    BY <1>1, <2>1, LocalsOf, CInvFacts DEF Reserved
  <2> QED
    BY <2>1, <2>2, ReleaseThenStep
<1> QED
  BY <1>2, <1>3

-------------------------------------------------------------------------------
\* The binding is entered.

LEMMA CommitIs ==
    ASSUME NEW t, Commit(t)
    PROVE  LET new == loc[t].rt = None
               r   == IF new THEN runtimes + 1 ELSE loc[t].rt
           IN  \E y, x :
                  /\ y \in IF new THEN Capacity(World) ELSE {Ok(World)}
                  /\ x \in IF ~ y.ok THEN {y} ELSE Entered(y.w, r, loc[t].th, loc[t].name)
                  /\ Become(x.w)
                  /\ IF x.ok
                     THEN /\ runtimes' = IF new THEN r ELSE runtimes
                          /\ IF loc[t].prev # None
                             THEN Go(t, "replaced", loc[t]) /\ UNCHANGED alloc
                             ELSE Leaves(t)
                     ELSE /\ UNCHANGED runtimes
                          /\ IF loc[t].reused THEN Leaves(t)
                             ELSE Go(t, "undo", loc[t]) /\ UNCHANGED alloc
BY DEF Commit

LEMMA Committing ==
    ASSUME CInv, NEW t \in Tools, pc[t] = "commit"
    PROVE  /\ Reserved(t) /\ Alone(t) /\ loc[t] \in Locals /\ loc[t].th \in Threads
           /\ loc[t].th <= threads /\ loc[t].name \in BOOLEAN
           /\ pc[t] \in AllocPlaces /\ pc[t] \notin Slotted /\ pc[t] \notin Registered
           /\ alloc = t
           /\ loc[t].rt = None => /\ runtimes + 1 \in Runtimes /\ runtimes + 1 \in 0 .. RuntimeBound
                                  /\ runtimes + 1 \notin DOMAIN bind
           /\ loc[t].rt # None => loc[t].rt \in DOMAIN bind /\ loc[t].rt \in Runtimes
<1>1. Reserved(t)
  BY DEF CInv
<1>2. pc[t] \in Taking /\ pc[t] \in AllocPlaces /\ pc[t] \notin Slotted /\ pc[t] \notin Registered
  BY DEF Taking, AllocPlaces, Slotted, Registered
<1>3. Alone(t) /\ loc[t].th \in Threads /\ loc[t].th <= threads /\ loc[t].name \in BOOLEAN
      /\ loc[t] \in Locals
  BY <1>1, <1>2, LocalsOf, CInvFacts DEF Reserved
<1>4. ASSUME loc[t].rt = None
      PROVE  /\ runtimes + 1 \in Runtimes /\ runtimes + 1 \in 0 .. RuntimeBound
             /\ runtimes + 1 \notin DOMAIN bind
  <2>1. runtimes \in Nat /\ RuntimeBound \in Nat /\ runtimes < RuntimeBound
    BY <1>1, <1>2, <1>4, CInvFacts, LimitsAssumption DEF Reserved, Server
  <2>2. \A r \in DOMAIN bind : r <= runtimes
    BY CInvFacts DEF Drawn
  <2>3. runtimes + 1 \in Runtimes /\ runtimes + 1 \in 0 .. RuntimeBound
    BY <2>1 DEF Runtimes
  <2>4. ~ (runtimes + 1 <= runtimes)
    BY <2>1
  <2> QED
    BY <2>2, <2>3, <2>4
<1>5. loc[t].rt # None => loc[t].rt \in DOMAIN bind /\ loc[t].rt \in Runtimes
  BY <1>1, <1>2, LocalsOf, CInvFacts DEF Reserved
<1>6. alloc = t
  BY <1>2, HolderIsAlone, CInvFacts
<1> QED
  BY <1>1, <1>2, <1>3, <1>4, <1>5, <1>6

\* A commit that fails changes no binding but those its room has cost.
LEMMA CommitFails ==
    ASSUME CInv, NEW t \in Tools, pc[t] = "commit", active' = active, slots' = slots,
           threads' = threads, runtimes' = runtimes,
           NEW y, Follows(World, y), NEW x, Sound(x), x.bind = y.bind, Become(x),
           IF loc[t].reused THEN Leaves(t) ELSE Go(t, "undo", loc[t]) /\ UNCHANGED alloc
    PROVE  CInv'
<1>1. /\ Reserved(t) /\ loc[t] \in Locals /\ loc[t].th \in Threads /\ loc[t].th <= threads
      /\ pc[t] \in AllocPlaces /\ pc[t] \notin Slotted /\ pc[t] \notin Registered /\ alloc = t
  BY Committing
<1>2. Soundly' /\ BecomeServer /\ bind' = y.bind
  BY CInvFacts, BecomeSound
<1>3. Shrinks
  BY <1>2, WorldFields DEF Follows, Fewer, Shrinks
<1>4. Server' /\ threads' \in Nat /\ threads <= threads'
  BY <1>2, ServerStays, CInvFacts DEF Server
<1>5. Drawn'
  BY <1>2, <1>3, <1>4, CInvFacts, DrawnShrinks
<1>6. CASE loc[t].reused
  BY <1>1, <1>2, <1>4, <1>5, <1>6, LeavesStep
<1>7. CASE ~ loc[t].reused
  <2>1. Go(t, "undo", loc[t]) /\ alloc' = alloc
    BY <1>7
  <2>2. pc'[t] = "undo" /\ loc'[t] = loc[t]
    BY <1>1, <2>1, GoMoves, CInvFacts DEF Places
  <2>3. Reserved(t)'
    BY <1>1, <1>4, <2>2 DEF Reserved, Taking, AllocPlaces, Asking, Threads, None
  <2> QED
    BY <1>1, <1>2, <1>4, <1>5, <2>1, <2>3, HolderStep DEF AllocPlaces, Slotted
<1> QED
  BY <1>6, <1>7

\* One binding more, or one with another thread: the room was made, the thread and
\* the name are nobody else's.
LEMMA CommitDrawn ==
    ASSUME CInv, NEW t \in Tools, pc[t] = "commit", NEW y, Follows(World, y),
           NEW r \in Runtimes,
           loc[t].rt = None => /\ r = runtimes + 1 /\ runtimes' = r
                               /\ Cardinality(DOMAIN y.bind) + 1 <= MaxRuntimes,
           loc[t].rt # None => r = loc[t].rt /\ runtimes' = runtimes /\ y.bind = bind,
           threads' = threads,
           DOMAIN bind' = DOMAIN y.bind \cup {r},
           bind'[r].th = loc[t].th, bind'[r].name = loc[t].name,
           \A q \in DOMAIN y.bind \ {r} : bind'[q] = y.bind[q]
    PROVE  Drawn'
<1>1. /\ Alone(t) /\ loc[t].th \in Threads /\ loc[t].th <= threads
      /\ loc[t].rt = None => runtimes + 1 \notin DOMAIN bind
      /\ loc[t].rt # None => loc[t].rt \in DOMAIN bind
  BY Committing
<1>2. /\ DOMAIN y.bind \subseteq DOMAIN bind
      /\ \A q \in DOMAIN y.bind : y.bind[q].th = bind[q].th /\ y.bind[q].name = bind[q].name
  BY WorldFields DEF Follows, Fewer
<1>3. \A q \in DOMAIN bind' \ {r} : /\ q \in DOMAIN bind /\ q # loc[t].rt
                                    /\ bind'[q].th = bind[q].th /\ bind'[q].name = bind[q].name
  <2> SUFFICES ASSUME NEW q \in DOMAIN bind' \ {r}
               PROVE  /\ q \in DOMAIN bind /\ q # loc[t].rt
                      /\ bind'[q].th = bind[q].th /\ bind'[q].name = bind[q].name
    OBVIOUS
  <2>1. q \in DOMAIN y.bind \ {r} /\ q \in DOMAIN bind
    BY <1>2
  <2>2. q # None
    BY <2>1, BoundTyped, CInvFacts
  <2> QED
    BY <1>2, <2>1, <2>2
<1>4. \A q \in DOMAIN bind' : q <= runtimes' /\ bind'[q].th <= threads'
  <2> SUFFICES ASSUME NEW q \in DOMAIN bind'
               PROVE  q <= runtimes' /\ bind'[q].th <= threads'
    OBVIOUS
  <2>1. runtimes \in Nat
    BY CInvFacts DEF Server
  <2>2. CASE q = r
    <3>1. CASE loc[t].rt = None
      BY <1>1, <2>1, <2>2, <3>1
    <3>2. CASE loc[t].rt # None
      BY <1>1, <2>2, <3>2, CInvFacts DEF Drawn
    <3> QED
      BY <3>1, <3>2
  <2>3. CASE q # r
    <3>1. q \in DOMAIN bind /\ bind'[q].th = bind[q].th
      BY <1>3, <2>3
    <3>2. q <= runtimes /\ bind[q].th <= threads /\ q \in Nat
      BY <3>1, BoundTyped, CInvFacts, LimitsAssumption DEF Drawn, Runtimes
    <3>3. runtimes' = runtimes \/ runtimes' = runtimes + 1
      OBVIOUS
    <3> QED
      BY <2>1, <3>1, <3>2, <3>3
  <2> QED
    BY <2>2, <2>3
<1>5. OneBindingEach'
  <2>1. \A q \in DOMAIN bind' \ {r} : /\ bind'[q].th # loc[t].th
                                      /\ ~ (bind'[q].name /\ loc[t].name)
    BY <1>1, <1>3 DEF Alone, Threads, None
  <2>2. ASSUME NEW q \in DOMAIN bind', NEW p \in DOMAIN bind', q # p
        PROVE  bind'[q].th # bind'[p].th /\ ~ (bind'[q].name /\ bind'[p].name)
    <3>1. CASE q = r
      BY <2>1, <2>2, <3>1
    <3>2. CASE p = r
      BY <2>1, <2>2, <3>2
    <3>3. CASE q # r /\ p # r
      <4>1. /\ q \in DOMAIN bind /\ bind'[q].th = bind[q].th /\ bind'[q].name = bind[q].name
            /\ p \in DOMAIN bind /\ bind'[p].th = bind[p].th /\ bind'[p].name = bind[p].name
        BY <1>3, <3>3
      <4> QED
        BY <2>2, <4>1, CInvFacts DEF Drawn, OneBindingEach
    <3> QED
      BY <3>1, <3>2, <3>3
  <2> QED
    BY <2>2 DEF OneBindingEach
<1>6. CapacityHolds'
  <2>1. /\ IsFiniteSet(DOMAIN y.bind) /\ Cardinality(DOMAIN y.bind) \in Nat
    BY CountsOfWorld DEF Follows
  <2>2. MaxRuntimes \in Nat
    BY LimitsAssumption
  <2>3. CASE loc[t].rt = None
    <3>1. Cardinality(DOMAIN y.bind \cup {r}) <= Cardinality(DOMAIN y.bind) + 1
      <4>1. r \notin DOMAIN y.bind
        BY <1>1, <1>2, <2>3
      <4> QED
        BY <2>1, <4>1, FS_AddElement
    <3>2. Cardinality(DOMAIN y.bind \cup {r}) \in Nat
      BY <2>1, FS_AddElement, FS_CardinalityType
    <3> QED
      BY <2>1, <2>2, <2>3, <3>1, <3>2 DEF CapacityHolds
  <2>4. CASE loc[t].rt # None
    <3>1. DOMAIN bind' = DOMAIN bind
      BY <1>1, <2>4
    <3> QED
      BY <3>1, CInvFacts DEF Drawn, CapacityHolds
  <2> QED
    BY <2>3, <2>4
<1> QED
  BY <1>4, <1>5, <1>6 DEF Drawn

LEMMA CommitStep ==
    ASSUME CInv, NEW t \in Tools, Commit(t)
    PROVE  CInv'
<1> DEFINE new == loc[t].rt = None
           r   == IF new THEN runtimes + 1 ELSE loc[t].rt
<1>1. /\ pc[t] = "commit" /\ active' = active /\ slots' = slots /\ threads' = threads
  BY DEF Commit
<1>2. PICK y, x :
          /\ y \in IF new THEN Capacity(World) ELSE {Ok(World)}
          /\ x \in IF ~ y.ok THEN {y} ELSE Entered(y.w, r, loc[t].th, loc[t].name)
          /\ Become(x.w)
          /\ IF x.ok
             THEN /\ runtimes' = IF new THEN r ELSE runtimes
                  /\ IF loc[t].prev # None
                     THEN Go(t, "replaced", loc[t]) /\ UNCHANGED alloc
                     ELSE Leaves(t)
             ELSE /\ UNCHANGED runtimes
                  /\ IF loc[t].reused THEN Leaves(t)
                     ELSE Go(t, "undo", loc[t]) /\ UNCHANGED alloc
  BY CommitIs
<1>3. /\ Reserved(t) /\ Alone(t) /\ loc[t] \in Locals /\ loc[t].th \in Threads
      /\ loc[t].th <= threads /\ loc[t].name \in BOOLEAN
      /\ pc[t] \in AllocPlaces /\ pc[t] \notin Slotted /\ pc[t] \notin Registered
      /\ alloc = t
      /\ loc[t].rt = None => /\ runtimes + 1 \in Runtimes /\ runtimes + 1 \in 0 .. RuntimeBound
                             /\ runtimes + 1 \notin DOMAIN bind
      /\ loc[t].rt # None => loc[t].rt \in DOMAIN bind /\ loc[t].rt \in Runtimes
  BY <1>1, Committing
<1>4. /\ Follows(World, y.w)
      /\ new /\ y.ok => Cardinality(DOMAIN y.w.bind) + 1 <= MaxRuntimes
      /\ ~ new => y.w = World
  <2>1. CASE new
    BY <1>2, <2>1, CInvFacts, CapacityFollows
  <2>2. CASE ~ new
    BY <1>2, <2>2, CInvFacts, FollowsItself DEF Ok
  <2> QED
    BY <2>1, <2>2
<1>5. Sound(y.w)
  BY <1>4 DEF Follows
<1>6. r \in Runtimes
  BY <1>3
<1>7. CASE ~ x.ok
  <2>1. Sound(x.w) /\ x.w.bind = y.w.bind
    <3>1. CASE y.ok
      <4>1. x \in Entered(y.w, r, loc[t].th, loc[t].name)
        BY <1>2, <3>1
      <4> HIDE DEF r
      <4> QED
        BY <1>3, <1>5, <1>6, <1>7, <4>1, EnteredSound
    <3>2. CASE ~ y.ok
      BY <1>2, <1>5, <3>2
    <3> QED
      BY <3>1, <3>2
  <2>2. /\ runtimes' = runtimes /\ Become(x.w)
        /\ IF loc[t].reused THEN Leaves(t) ELSE Go(t, "undo", loc[t]) /\ UNCHANGED alloc
    BY <1>2, <1>7
  <2> HIDE DEF r, new
  <2> QED
    BY <1>1, <1>4, <2>1, <2>2, CommitFails
<1>8. CASE x.ok
  <2>1. y.ok /\ x \in Entered(y.w, r, loc[t].th, loc[t].name)
    BY <1>2, <1>8
  <2>2. /\ Sound(x.w) /\ DOMAIN x.w.bind = DOMAIN y.w.bind \cup {r}
        /\ x.w.bind[r].th = loc[t].th /\ x.w.bind[r].name = loc[t].name
        /\ \A q \in DOMAIN y.w.bind \ {r} : x.w.bind[q] = y.w.bind[q]
    <3> HIDE DEF r
    <3> QED
      BY <1>3, <1>5, <1>6, <1>8, <2>1, EnteredSound
  <2>3. Soundly' /\ BecomeServer /\ bind' = x.w.bind
    BY <1>2, <2>2, CInvFacts, BecomeSound
  <2>4. runtimes' = IF new THEN r ELSE runtimes
    BY <1>2, <1>8
  <2>5. runtimes' \in 0 .. RuntimeBound
    <3>1. CASE new
      BY <1>3, <2>4, <3>1
    <3>2. CASE ~ new
      BY <2>4, <3>2, CInvFacts DEF Server
    <3> QED
      BY <3>1, <3>2
  <2>6. Server' /\ threads <= threads' /\ threads' \in Nat
    BY <1>1, <2>3, <2>5, CInvFacts DEF Server, BecomeServer
  <2>7. Drawn'
    <3>1. loc[t].rt = None => /\ r = runtimes + 1 /\ runtimes' = r
                              /\ Cardinality(DOMAIN y.w.bind) + 1 <= MaxRuntimes
      BY <1>4, <2>1, <2>4
    <3>2. loc[t].rt # None => r = loc[t].rt /\ runtimes' = runtimes /\ y.w.bind = bind
      BY <1>4, <2>4, WorldFields
    <3>3. /\ DOMAIN bind' = DOMAIN y.w.bind \cup {r}
          /\ bind'[r].th = loc[t].th /\ bind'[r].name = loc[t].name
          /\ \A q \in DOMAIN y.w.bind \ {r} : bind'[q] = y.w.bind[q]
      BY <2>2, <2>3
    <3> HIDE DEF r
    <3> QED
      BY <1>1, <1>4, <1>6, <3>1, <3>2, <3>3, CommitDrawn
  <2>8. CASE loc[t].prev # None
    <3>1. Go(t, "replaced", loc[t]) /\ alloc' = alloc
      BY <1>2, <1>8, <2>8
    <3>2. pc'[t] = "replaced" /\ loc'[t] = loc[t]
      BY <1>3, <3>1, GoMoves, CInvFacts DEF Places
    <3>3. Reserved(t)'
      BY <1>1, <1>3, <2>8, <3>2 DEF Reserved, Taking, AllocPlaces, Asking, Threads, None
    <3> QED
      BY <1>1, <1>3, <2>3, <2>6, <2>7, <3>1, <3>3, HolderStep DEF AllocPlaces, Slotted
  <2>9. CASE loc[t].prev = None
    <3>1. Leaves(t)
      BY <1>2, <1>8, <2>9
    <3>2. /\ ToolsTyped' /\ Moves(t) /\ LockHeld' /\ pc'[t] = "idle" /\ loc'[t] = Idle
          /\ Reserved(t)'
      BY <2>6, <3>1, Leaving
    <3>3. SlotsCounted' /\ ActiveCounted'
      BY <1>1, <1>3, <3>2, PlacesOf, CInvFacts, SlotsSame, ActiveSame
    <3> QED
      BY <1>3, <2>3, <2>6, <2>7, <3>2, <3>3, Stepped
  <2> QED
    BY <2>8, <2>9
<1> QED
  BY <1>7, <1>8

-------------------------------------------------------------------------------
\* Requests that use a runtime.

LEMMA UseLocals ==
    ASSUME NEW r, NEW h, NEW kind, NEW l, l = [Idle EXCEPT !.rt = r, !.th = h, !.kind = kind]
    PROVE  l = [rt |-> r, th |-> h, prev |-> None, reused |-> FALSE, name |-> FALSE,
                kind |-> kind, gen |-> 0]
BY DEF Idle

LEMMA UseStepOf ==
    ASSUME CInv, NEW t \in Tools, NEW r \in Runtimes, NEW kind \in Kinds, Use(t, r, kind)
    PROVE  CInv'
<1> DEFINE l == [Idle EXCEPT !.rt = r, !.th = bind[r].th, !.kind = kind]
<1>1. /\ pc[t] = "idle" /\ r \in DOMAIN bind /\ Go(t, "useSlot", l)
      /\ active' = active /\ slots' = slots /\ alloc' = alloc
      /\ UNCHANGED bindVars /\ UNCHANGED serverVars /\ UNCHANGED drawn
  BY DEF Use, Usable
<1>2. /\ Soundly' /\ Keeps /\ Server' /\ Drawn' /\ threads' = threads /\ runtimes' = runtimes
      /\ threads <= threads'
  BY <1>1, WorldStays
<1>3. r \in Runtimes /\ r # None /\ bind[r].th \in Threads /\ bind[r].th # None
      /\ bind[r].th <= threads
  BY <1>1, BoundTyped, CInvFacts DEF Drawn
<1>4. l \in Locals /\ l.rt = r /\ l.th = bind[r].th
  <2>1. l = [rt |-> r, th |-> bind[r].th, prev |-> None, reused |-> FALSE, name |-> FALSE,
             kind |-> kind, gen |-> 0]
    BY UseLocals, Zenon
  <2> HIDE DEF l
  <2> QED
    BY <1>3, <2>1, FirstGeneration DEF Locals, Maybe, None
<1> HIDE DEF l
<1>5. ToolsTyped' /\ Moves(t) /\ pc'[t] = "useSlot" /\ loc'[t] = l
  BY <1>1, <1>4, GoMoves, CInvFacts DEF Places
<1>6. LockHeld'
  BY <1>1, <1>5, LockSame, CInvFacts DEF AllocPlaces
<1>7. SlotsCounted'
  BY <1>1, <1>5, SlotsSame, CInvFacts DEF Slotted
<1>8. ActiveCounted'
  BY <1>1, <1>5, ActiveSame, CInvFacts DEF Registered
<1>9. Reserved(t)'
  BY <1>2, <1>3, <1>4, <1>5 DEF Reserved, Taking, AllocPlaces, Asking
<1> QED
  BY <1>2, <1>5, <1>6, <1>7, <1>8, <1>9, Stepped

LEMMA UseSlotStep ==
    ASSUME CInv, NEW t \in Tools, UseSlot(t)
    PROVE  CInv'
<1>1. /\ pc[t] = "useSlot" /\ slots < MaxSlots /\ slots' = slots + 1 /\ alloc' = alloc
      /\ active' = [active EXCEPT ![loc[t].rt] = @ + 1] /\ Go(t, "send", loc[t])
      /\ UNCHANGED bindVars /\ UNCHANGED serverVars /\ UNCHANGED drawn
  BY DEF UseSlot
<1>2. /\ Soundly' /\ Keeps /\ Server' /\ Drawn' /\ threads' = threads /\ runtimes' = runtimes
      /\ threads <= threads'
  BY <1>1, WorldStays
<1>3. Reserved(t) /\ loc[t].rt # None /\ loc[t].rt \in Runtimes /\ loc[t] \in Locals
  <2>1. Reserved(t)
    BY DEF CInv
  <2> QED
    BY <1>1, <2>1, LocalsOf, CInvFacts DEF Reserved
<1>5. ToolsTyped' /\ Moves(t) /\ pc'[t] = "send" /\ loc'[t] = loc[t]
  BY <1>1, <1>3, GoMoves, CInvFacts DEF Places
<1>6. LockHeld'
  BY <1>1, <1>5, LockSame, CInvFacts DEF AllocPlaces
<1>7. SlotsCounted'
  BY <1>1, <1>5, SlotTaken, CInvFacts DEF Slotted
<1>8. ActiveCounted'
  BY <1>1, <1>3, <1>5, RequestMade, CInvFacts DEF Registered
<1>9. Reserved(t)'
  BY <1>1, <1>2, <1>3, <1>5 DEF Reserved, Taking, AllocPlaces, Asking
<1> QED
  BY <1>2, <1>5, <1>6, <1>7, <1>8, <1>9, Stepped

LEMMA UseRefusedStep ==
    ASSUME CInv, NEW t \in Tools, UseRefused(t)
    PROVE  CInv'
<1>1. /\ pc[t] = "useSlot" /\ Leaves(t) /\ active' = active /\ slots' = slots
      /\ UNCHANGED <<disk, older, idle, live, pendrel, obs>>
      /\ UNCHANGED <<loaded, claimed, aband>> /\ UNCHANGED <<up, gen, unclaimed, late, stuck>>
      /\ UNCHANGED <<threads, runtimes>> /\ (UNCHANGED bindVars \/ Detach(loc[t].rt))
  BY DEF UseRefused, serverVars, drawn, bindVars
<1>2. Soundly' /\ Keeps
  <2>1. CASE UNCHANGED bindVars
    BY <1>1, <2>1, CInvFacts DEF bindVars, Soundly, Keeps, Shrinks
  <2>2. CASE Detach(loc[t].rt)
    <3>1. PICK r : r = loc[t].rt
      OBVIOUS
    <3>2. Detach(r)
      BY <2>2, <3>1 DEF Detach
    <3> QED
      BY <1>1, <3>2, CInvFacts, DetachKeeps
  <2> QED
    BY <1>1, <2>1, <2>2
<1>3. Server'
  BY <1>1, CInvFacts DEF Server
<1>4. threads' = threads /\ runtimes' = runtimes /\ threads' \in Nat /\ threads <= threads'
  BY <1>1, CInvFacts DEF Server
<1>5. Drawn'
  BY <1>2, <1>4, CInvFacts, DrawnShrinks DEF Keeps
<1>6. pc[t] \notin Slotted /\ pc[t] \notin Registered
  BY <1>1 DEF Slotted, Registered
<1> QED
  BY <1>1, <1>2, <1>3, <1>4, <1>5, <1>6, LeavesStep

LEMMA SendStep ==
    ASSUME CInv, NEW t \in Tools, Send(t)
    PROVE  CInv'
<1>1. /\ pc[t] = "send" /\ UNCHANGED bindVars /\ UNCHANGED drawn
      /\ \/ Starts /\ UNCHANGED <<loaded, unclaimed, claimed>>
         \/ StartFails
      /\ Go(t, "upstream", [loc[t] EXCEPT !.gen = gen'])
      /\ slots' = slots /\ alloc' = alloc /\ active' = active
      /\ threads' = threads /\ runtimes' = runtimes
  BY DEF Send, Starts, StartFails, drawn
<1>2. /\ Soundly' /\ Keeps /\ Server' /\ Drawn' /\ threads <= threads' /\ threads' \in Nat
      /\ gen' \in 0 .. GenBound
  BY <1>1, StartedOrNot
<1>3. Reserved(t) /\ loc[t] \in Locals
  BY LocalsOf, CInvFacts DEF CInv
<1>4. PICK g \in 0 .. GenBound : g = gen'
  BY <1>2
<1> DEFINE l == [loc[t] EXCEPT !.gen = g]
<1>5. l \in Locals /\ l.rt = loc[t].rt /\ l.th = loc[t].th
  BY <1>3 DEF Locals
<1>6. Go(t, "upstream", l)
  BY <1>1, <1>4 DEF Go
<1> HIDE DEF l
<1>7. ToolsTyped' /\ Moves(t) /\ pc'[t] = "upstream" /\ loc'[t] = l
  BY <1>5, <1>6, GoMoves, CInvFacts DEF Places
<1>8. LockHeld'
  BY <1>1, <1>7, LockSame, CInvFacts DEF AllocPlaces
<1>9. SlotsCounted'
  BY <1>1, <1>7, SlotsSame, CInvFacts DEF Slotted
<1>10. ActiveCounted'
  BY <1>1, <1>5, <1>7, ActiveSame, CInvFacts DEF Registered
<1>11. Reserved(t)'
  BY <1>1, <1>3, <1>5, <1>7 DEF Reserved, Taking, AllocPlaces, Asking
<1> QED
  BY <1>1, <1>2, <1>7, <1>8, <1>9, <1>10, <1>11, Stepped

\* A request ends, however it does.
LEMMA UseEndsStep ==
    ASSUME CInv, NEW t \in Tools, NEW place \in {"idle", "touch"}, NEW left,
           left \subseteq Tools \X Threads, UseEnds(t, place, left)
    PROVE  CInv'
<1> DEFINE l == IF place = "idle" THEN Idle ELSE [Idle EXCEPT !.rt = loc[t].rt]
<1>1. PICK w \in Touched(World, loc[t].rt) :
          bind' = w.bind /\ disk' = w.disk /\ older' = w.older /\ idle' = w.idle
  BY DEF UseEnds
<1>2. /\ pc[t] = "upstream" /\ stuck' = stuck \cup left
      /\ active' = [active EXCEPT ![loc[t].rt] = @ - 1] /\ slots' = slots - 1
      /\ Go(t, place, l) /\ live' = live /\ pendrel' = pendrel /\ obs' = obs /\ up' = up /\ gen' = gen
      /\ loaded' = loaded /\ unclaimed' = unclaimed /\ claimed' = claimed /\ aband' = aband
      /\ late' = late /\ alloc' = alloc /\ threads' = threads /\ runtimes' = runtimes
  BY DEF UseEnds, drawn
<1>3. Follows(World, w) /\ SameBindings(World, w)
  BY CInvFacts, TouchedFollows
<1>4. Soundly'
  BY <1>1, <1>2, <1>3, CInvFacts DEF Soundly, Follows, Sound
<1>5. Keeps
  BY <1>1, <1>3, WorldFields DEF SameBindings, Keeps, Shrinks
<1>6. Server' /\ threads' \in Nat /\ threads <= threads'
  BY <1>2, CInvFacts DEF Server
<1>7. Drawn'
  BY <1>2, <1>4, <1>5, <1>6, CInvFacts, DrawnShrinks DEF Keeps
<1>8. /\ Reserved(t) /\ loc[t] \in Locals /\ loc[t].rt \in Runtimes /\ loc[t].th \in Nat
  <2>1. Reserved(t)
    BY DEF CInv
  <2> QED
    BY <1>2, <2>1, LocalsOf, CInvFacts DEF Reserved
<1>9. l \in Locals /\ l.th <= threads
  <2>1. [Idle EXCEPT !.rt = loc[t].rt] \in Locals /\ [Idle EXCEPT !.rt = loc[t].rt].th = None
    BY <1>8, IdleIsLocals DEF Idle, Locals, Maybe
  <2>2. threads \in Nat
    BY CInvFacts DEF Server
  <2> QED
    BY <2>1, <2>2, IdleIsLocals DEF None
<1>10. ToolsTyped' /\ Moves(t) /\ pc'[t] = place /\ loc'[t] = l
  <2> HIDE DEF l
  <2> QED
    BY <1>2, <1>9, GoMoves, CInvFacts DEF Places
<1>11. LockHeld'
  BY <1>2, <1>10, LockSame, CInvFacts DEF AllocPlaces
<1>12. SlotsCounted'
  BY <1>2, <1>10, SlotGiven, CInvFacts DEF Slotted
<1>13. ActiveCounted'
  BY <1>2, <1>8, <1>10, RequestEnded, CInvFacts DEF Registered
<1>14. Reserved(t)'
  <2> HIDE DEF l
  <2> QED
    BY <1>2, <1>9, <1>10, IdleReserves
<1> QED
  BY <1>2, <1>4, <1>5, <1>6, <1>7, <1>10, <1>11, <1>12, <1>13, <1>14, Stepped

LEMMA UseAnsweredStep ==
    ASSUME CInv, NEW t \in Tools, UseAnswered(t) \/ UseFails(t) \/ UseTimesOut(t)
    PROVE  CInv'
<1>1. CASE UseAnswered(t)
  BY <1>1, UseEndsStep DEF UseAnswered
<1>2. CASE UseFails(t)
  BY <1>2, UseEndsStep DEF UseFails
<1>3. CASE UseTimesOut(t)
  <2>1. PICK left : /\ left = IF loc[t].kind = "call" THEN {<<t, loc[t].th>>} ELSE {}
                    /\ UseEnds(t, "idle", left)
    BY <1>3 DEF UseTimesOut
  <2>2. loc[t].th \in Threads
    <3>1. Reserved(t) /\ pc[t] = "upstream"
      BY <2>1 DEF CInv, UseEnds
    <3> QED
      BY <3>1, LocalsOf, CInvFacts DEF Reserved
  <2>3. left \subseteq Tools \X Threads
    BY <2>1, <2>2
  <2> QED
    BY <2>1, <2>3, UseEndsStep
<1> QED
  BY <1>1, <1>2, <1>3

LEMMA TouchAfterStep ==
    ASSUME CInv, NEW t \in Tools, TouchAfter(t)
    PROVE  CInv'
<1>1. PICK w \in Touched(World, loc[t].rt) : Become(w)
  BY DEF TouchAfter
<1>2. /\ pc[t] = "touch" /\ Leaves(t) /\ active' = active /\ slots' = slots
      /\ threads' = threads /\ runtimes' = runtimes
  BY DEF TouchAfter, drawn
<1>3. Follows(World, w) /\ SameBindings(World, w)
  BY CInvFacts, TouchedFollows
<1>4. Soundly' /\ Keeps /\ Server' /\ Drawn' /\ threads <= threads'
  BY <1>1, <1>2, <1>3, SectionKeeps
<1>5. pc[t] \notin Slotted /\ pc[t] \notin Registered
  BY <1>2 DEF Slotted, Registered
<1> QED
  BY <1>2, <1>4, <1>5, LeavesStep

LEMMA StutterStep == ASSUME CInv, UNCHANGED vars PROVE CInv'
<1>1. /\ UNCHANGED bindVars /\ UNCHANGED serverVars /\ UNCHANGED drawn
      /\ UNCHANGED <<toolVars, drawn>>
  BY DEF vars
<1> QED
  BY <1>1, WorldStays, Framed DEF Keeps

-------------------------------------------------------------------------------
\* The theorems.

LEMMA NextCInv ==
    ASSUME CInv, [Next]_vars
    PROVE  CInv'
<1>1. ASSUME NEW t \in Tools, Request(t)
      PROVE  CInv'
  BY <1>1, WaitStep, UseStepOf DEF Request
<1>2. ASSUME NEW t \in Tools, AllocationStep(t)
      PROVE  CInv'
  BY <1>2, EnsureCapacityStep, SyncBeforeStep, LookupStep, TakeSlotStep, NoSlotStep,
     StartThreadStep, ResumeThreadStep, SyncAfterStep, CommitStep, UndoStep DEF AllocationStep
<1>3. ASSUME NEW t \in Tools, AllocationFault(t)
      PROVE  CInv'
  BY <1>3, MismatchedThreadStep, ThreadErrorStep, ThreadTimeoutStep DEF AllocationFault
<1>4. ASSUME NEW t \in Tools, UseStep(t)
      PROVE  CInv'
  BY <1>4, UseSlotStep, UseRefusedStep, SendStep, UseAnsweredStep, TouchAfterStep DEF UseStep
<1>5. ASSUME NEW r \in Runtimes, Status(r) \/ Ages(r)
      PROVE  CInv'
  BY <1>5, StatusStep, AgesStep
<1>6. ASSUME NEW x \in late, LateAnswer(x) \/ LateError(x)
      PROVE  CInv'
  BY <1>6, LateStep
<1>7. ASSUME NEW x \in stuck, StuckAnswer(x)
      PROVE  CInv'
  BY <1>7, StuckStep
<1>8. ASSUME NEW t \in Tools, Admitted(t)
      PROVE  CInv'
  BY <1>8, OpenStep, AcquireStep, RefusedStep, ResumeStep, CloseStep, ListStep DEF Admitted
<1>9. CASE Collect \/ Claim \/ Dies \/ Restart
  BY <1>9, CollectStep, ClaimStep, DiesStep, RestartStep
<1>10. CASE UNCHANGED vars
  BY <1>10, StutterStep
<1> QED
  BY <1>1, <1>2, <1>3, <1>4, <1>5, <1>6, <1>7, <1>8, <1>9, <1>10 DEF Next

LEMMA CodexInvariant == Spec => []CInv
<1>1. Init => CInv
  BY InitCInv
<1>2. CInv /\ [Next]_vars => CInv'
  BY NextCInv
<1> QED
  BY <1>1, <1>2, PTL DEF Spec

LEMMA CInvTyped == ASSUME CInv PROVE TypeOK
<1>1. \A r \in DOMAIN bind :
         bind[r] \in [th : Threads, status : {"ready", "detached"}, name : BOOLEAN]
  BY CInvFacts DEF Soundly, AreBindings, IsBinding
<1>2. DOMAIN bind \subseteq Runtimes /\ DOMAIN disk = DOMAIN bind
  BY CInvFacts DEF Soundly, AreBindings, Stored
<1>3. active \in [Runtimes -> 0 .. Cardinality(Tools)]
  <2>1. \A r \in Runtimes : Cardinality(Requests(r)) \in 0 .. Cardinality(Tools)
    <3> SUFFICES ASSUME NEW r \in Runtimes
                 PROVE  Cardinality(Requests(r)) \in 0 .. Cardinality(Tools)
      OBVIOUS
    <3>1. Requests(r) \subseteq Tools /\ IsFiniteSet(Tools)
      BY ToolsAssumption DEF Requests
    <3>2. /\ Cardinality(Requests(r)) \in Nat /\ Cardinality(Tools) \in Nat
          /\ Cardinality(Requests(r)) <= Cardinality(Tools)
      BY <3>1, FS_Subset, FS_CardinalityType
    <3> QED
      BY <3>2
  <2> QED
    BY <2>1, CInvFacts DEF ActiveCounted
<1>4. slots \in 0 .. MaxSlots
  <2>1. InSlots \subseteq Tools /\ MaxSlots \in Nat
    BY LimitsAssumption DEF InSlots
  <2>2. Cardinality(InSlots) \in Nat
    BY <2>1, SetsOfTools
  <2> QED
    BY <2>1, <2>2, CInvFacts DEF SlotsCounted
<1>5. UNION {live, pendrel, loaded, unclaimed, claimed, aband} \subseteq Threads
  BY CInvFacts DEF Soundly
<1>6. /\ idle \subseteq DOMAIN bind /\ IsOrder(older, DOMAIN bind) /\ obs \in 0 .. GenBound
  BY CInvFacts DEF Soundly
<1>7. /\ gen \in 0 .. GenBound /\ up \in BOOLEAN
      /\ late \subseteq [th : Threads, resume : BOOLEAN] /\ stuck \subseteq Tools \X Threads
      /\ threads \in 0 .. ThreadBound /\ runtimes \in 0 .. RuntimeBound
  BY CInvFacts DEF Server
<1>8. alloc \in Tools \cup {Nobody} /\ pc \in [Tools -> Places]
  BY CInvFacts DEF LockHeld, ToolsTyped
<1>9. loc \in [Tools -> [rt : Maybe(Runtimes), th : Maybe(Threads), prev : Maybe(Threads),
                         reused : BOOLEAN, name : BOOLEAN, kind : Kinds \cup {"none"},
                         gen : 0 .. GenBound]]
  BY CInvFacts DEF ToolsTyped, Locals
<1> QED
  BY <1>1, <1>2, <1>3, <1>4, <1>5, <1>6, <1>7, <1>8, <1>9 DEF TypeOK

\* However many tools open, acquire, resume and close at once, and whatever fails
\* meanwhile, a thread has one binding, the acquired name has one runtime, and the
\* order of use and the idleness speak of exactly the bound runtimes.
THEOREM BindingsAreSound == Spec => []BindingsSound
<1>1. CInv => BindingsSound
  BY CInvTyped, CInvFacts DEF BindingsSound, Drawn
<1> QED
  BY <1>1, CodexInvariant, PTL

\* max_runtimes bounds the bindings, however many tools ask for room and whatever
\* _ensure_capacity_locked could not release.
THEOREM CapacityKept == Spec => []CapacityHolds
<1>1. CInv => CapacityHolds
  BY CInvFacts DEF Drawn
<1> QED
  BY <1>1, CodexInvariant, PTL

\* The file says what the manager would say, whichever saves have failed.
THEOREM FileIsTrue == Spec => []FileAgrees
<1>1. CInv => FileAgrees
  BY CInvFacts DEF Soundly, FileAgrees
<1> QED
  BY <1>1, CodexInvariant, PTL

-------------------------------------------------------------------------------
(***************************************************************************)
(* What no step takes away. A step is tame when it loads no thread and     *)
(* enters no binding: all but the start and the resumption of a thread,    *)
(* late answers to them, and the entering of a binding.                    *)
(***************************************************************************)
CallKept  == \A th \in Threads : Calling(th) /\ up' => th \in loaded'
UsedStays == \A r \in DOMAIN bind : active[r] > 0 => r \in DOMAIN bind'

\* Where nothing times out nothing is abandoned, and then no registered request
\* loses its thread.
NoneAbandoned == late = {} /\ aband = {}
StaysSo       == NoneAbandoned /\ "timeout" \notin Faults => NoneAbandoned'
RequestKept   ==
    NoneAbandoned =>
        \A r \in DOMAIN bind :
            active[r] > 0 /\ bind[r].th \in loaded /\ up' => bind[r].th \in loaded'

Spares == CallKept /\ UsedStays /\ RequestKept /\ StaysSo
Tame   == loaded' \subseteq loaded /\ late' \subseteq late /\ threads' = threads /\ Shrinks

LEMMA SectionLeaves ==
    ASSUME CInv, NEW w, Follows(World, w), Become(w), threads' = threads
    PROVE  Spares /\ Tame
<1>1. bind' = w.bind /\ loaded' = w.loaded
  BY DEF Become
<1>2. Shrinks /\ late' = late
  BY CInvFacts, FollowsShrinks DEF BecomeServer
<1>3. CallKept /\ UsedStays /\ loaded' \subseteq loaded
  BY <1>1, WorldFields DEF Follows, KeepsPending, KeepsUsed, CallKept, UsedStays, Calling
<1>4. RequestKept
  BY <1>1, WorldFields DEF Follows, KeepsServed, RequestKept, NoneAbandoned
<1>5. StaysSo
  <2> SUFFICES ASSUME NoneAbandoned PROVE aband' = {}
    BY <1>2 DEF StaysSo, NoneAbandoned
  <2>1. w.aband = {}
    BY WorldFields DEF Follows, KeepsServed, NoneAbandoned
  <2> QED
    BY <2>1 DEF Become, NoneAbandoned
<1> QED
  BY <1>2, <1>3, <1>4, <1>5 DEF Spares, Tame

\* The App Server, the reader thread or time changes what is loaded, no binding.
LEMMA LoadingLeaves ==
    ASSUME loaded \subseteq loaded' \/ up' = FALSE, Keeps, StaysSo
    PROVE  Spares
BY DEF Spares, CallKept, UsedStays, RequestKept, Calling, Keeps

LEMMA BindVarsLeave ==
    ASSUME loaded \subseteq loaded' \/ up' = FALSE, UNCHANGED bindVars, StaysSo
    PROVE  Spares
BY DEF Spares, CallKept, UsedStays, RequestKept, Calling, bindVars

LEMMA AbandonsNone ==
    ASSUME late' \subseteq late, aband' \subseteq aband
    PROVE  StaysSo
BY DEF StaysSo, NoneAbandoned

LEMMA NothingLeaves ==
    ASSUME UNCHANGED bindVars, UNCHANGED serverVars, threads' = threads
    PROVE  Spares /\ Tame
<1>1. bind' = bind /\ loaded' = loaded /\ late' = late /\ aband' = aband
  BY DEF bindVars, serverVars
<1> QED
  BY <1>1, BindVarsLeave, AbandonsNone DEF Tame, Shrinks

\* A binding is entered: with a thread that is loaded already, and no other is lost.
LEMMA CommitLeaves ==
    ASSUME CInv, NEW t \in Tools, Commit(t)
    PROVE  /\ Spares
           /\ loaded' \subseteq loaded /\ late' = late /\ threads' = threads
           /\ \A r \in DOMAIN bind' :
                 \/ r \in DOMAIN bind /\ bind'[r].th = bind[r].th
                 \/ /\ bind'[r].th = loc[t].th
                    /\ r = loc[t].rt \/ r \notin DOMAIN bind
<1> DEFINE new == loc[t].rt = None
           r   == IF new THEN runtimes + 1 ELSE loc[t].rt
<1>1. PICK y, x :
          /\ y \in IF new THEN Capacity(World) ELSE {Ok(World)}
          /\ x \in IF ~ y.ok THEN {y} ELSE Entered(y.w, r, loc[t].th, loc[t].name)
          /\ Become(x.w)
  BY CommitIs
<1>2. /\ loc[t].th \in Threads /\ loc[t].name \in BOOLEAN
      /\ loc[t].rt = None => runtimes + 1 \in Runtimes /\ runtimes + 1 \notin DOMAIN bind
      /\ loc[t].rt # None => loc[t].rt \in Runtimes
  BY Committing DEF Commit
<1>3. Follows(World, y.w) /\ Sound(y.w)
  <2>1. CASE new
    BY <1>1, <2>1, CInvFacts, CapacityFollows DEF Follows
  <2>2. CASE ~ new
    BY <1>1, <2>2, CInvFacts, FollowsItself DEF Ok
  <2> QED
    BY <2>1, <2>2
<1>4. r \in Runtimes
  BY <1>2
<1>5. /\ x.w.loaded = y.w.loaded /\ x.w.aband = y.w.aband
      /\ DOMAIN y.w.bind \subseteq DOMAIN x.w.bind
      /\ \A q \in DOMAIN x.w.bind : \/ q \in DOMAIN y.w.bind /\ x.w.bind[q] = y.w.bind[q]
                                    \/ q = r /\ x.w.bind[q].th = loc[t].th
  <2>1. CASE ~ y.ok
    BY <1>1, <2>1
  <2>2. CASE y.ok
    <3>1. x \in Entered(y.w, r, loc[t].th, loc[t].name)
      BY <1>1, <2>2
    <3> HIDE DEF r
    <3>2. /\ x.w.loaded = y.w.loaded /\ x.w.aband = y.w.aband
          /\ ~ x.ok => x.w.bind = y.w.bind
          /\ x.ok => /\ DOMAIN x.w.bind = DOMAIN y.w.bind \cup {r}
                     /\ x.w.bind[r].th = loc[t].th
                     /\ \A q \in DOMAIN y.w.bind \ {r} : x.w.bind[q] = y.w.bind[q]
      BY <1>2, <1>3, <1>4, <3>1, EnteredSound
    <3> QED
      BY <3>2
  <2> QED
    BY <2>1, <2>2
<1>6. /\ bind' = x.w.bind /\ loaded' = x.w.loaded /\ late' = late
      /\ threads' = threads
  BY <1>1 DEF Become, Commit
<1>7. CallKept
  BY <1>3, <1>5, <1>6, WorldFields DEF Follows, KeepsPending, CallKept, Calling
<1>8. UsedStays
  BY <1>3, <1>5, <1>6, WorldFields DEF Follows, KeepsUsed, UsedStays
<1>9. RequestKept
  BY <1>3, <1>5, <1>6, WorldFields DEF Follows, KeepsServed, RequestKept, NoneAbandoned
<1>10. StaysSo
  <2> SUFFICES ASSUME NoneAbandoned PROVE aband' = {}
    BY <1>6 DEF StaysSo, NoneAbandoned
  <2>1. x.w.aband = {}
    BY <1>3, <1>5, WorldFields DEF Follows, KeepsServed, NoneAbandoned
  <2> QED
    BY <1>1, <2>1 DEF Become, NoneAbandoned
<1>11. loaded' \subseteq loaded
  BY <1>3, <1>5, <1>6, WorldFields DEF Follows, KeepsPending
<1>12. ASSUME NEW q \in DOMAIN bind'
       PROVE  \/ q \in DOMAIN bind /\ bind'[q].th = bind[q].th
              \/ bind'[q].th = loc[t].th /\ (q = loc[t].rt \/ q \notin DOMAIN bind)
  <2>1. CASE q \in DOMAIN y.w.bind /\ x.w.bind[q] = y.w.bind[q]
    BY <1>3, <1>6, <2>1, WorldFields DEF Follows, Fewer
  <2>2. CASE q = r /\ x.w.bind[q].th = loc[t].th
    BY <1>2, <1>6, <2>2
  <2> HIDE DEF r
  <2> QED
    BY <1>5, <1>6, <1>12, <2>1, <2>2
<1> HIDE DEF r, new
<1> QED
  BY <1>6, <1>7, <1>8, <1>9, <1>10, <1>11, <1>12 DEF Spares

LEMMA SectionsLeave ==
    ASSUME CInv, NEW t \in Tools,
           \/ Acquire(t) \/ EnsureCapacity(t) \/ SyncBefore(t) \/ SyncAfter(t) \/ Lookup(t)
           \/ Undo(t) \/ Replaced(t) \/ TouchAfter(t)
    PROVE  Spares /\ Tame
<1>8. threads' = threads
  BY DEF Acquire, EnsureCapacity, SyncBefore, SyncAfter, Lookup, Undo, Replaced,
         ReleaseThen, TouchAfter, drawn
<1>1. CASE Acquire(t)
  <2>1. PICK x \in CollectedAll(World, FALSE) : Become(x.w)
    BY <1>1 DEF Acquire
  <2> QED
    BY <1>8, <2>1, CInvFacts, CollectedAllFollows, SectionLeaves
<1>2. CASE EnsureCapacity(t)
  <2>1. PICK x \in Capacity(World) : Become(x.w)
    BY <1>2 DEF EnsureCapacity
  <2> QED
    BY <1>8, <2>1, CInvFacts, CapacityFollows, SectionLeaves
<1>3. CASE SyncBefore(t) \/ SyncAfter(t)
  <2>1. Become(Synced(World)) /\ Follows(World, Synced(World))
    BY <1>3, CInvFacts, SyncedFollows DEF SyncBefore, SyncAfter
  <2> QED
    BY <1>8, <2>1, SectionLeaves
<1>4. CASE Lookup(t)
  <2>1. PICK x \in IF loc[t].th \in pendrel THEN ReleaseOne(World, loc[t].th) ELSE {Ok(World)} :
            Become(x.w)
    BY <1>4 DEF Lookup
  <2>2. CASE loc[t].th \in pendrel
    <3>1. loc[t].th \in Threads
      BY <2>2, CInvFacts DEF Soundly
    <3> QED
      BY <1>8, <2>1, <2>2, <3>1, CInvFacts, ReleaseOneFollows, SectionLeaves
  <2>3. CASE loc[t].th \notin pendrel
    BY <1>8, <2>1, <2>3, CInvFacts, FollowsItself, SectionLeaves DEF Ok
  <2> QED
    BY <2>2, <2>3
<1>5. CASE Undo(t)
  <2>1. PICK x \in ReleaseOne(World, loc[t].th) : Become(x.w) /\ pc[t] = "undo"
    BY <1>5 DEF Undo, ReleaseThen
  <2>2. loc[t].th \in Threads
    <3>1. Reserved(t)
      BY DEF CInv
    <3> QED
      BY <2>1, <3>1, LocalsOf, CInvFacts DEF Reserved
  <2> QED
    BY <1>8, <2>1, <2>2, CInvFacts, ReleaseOneFollows, SectionLeaves
<1>6. CASE Replaced(t)
  <2>1. PICK x \in ReleaseOne(World, loc[t].prev) : Become(x.w) /\ pc[t] = "replaced"
    BY <1>6 DEF Replaced, ReleaseThen
  <2>2. loc[t].prev \in Threads
    <3>1. Reserved(t)
      BY DEF CInv
    <3> QED
      BY <2>1, <3>1, LocalsOf, CInvFacts DEF Reserved
  <2> QED
    BY <1>8, <2>1, <2>2, CInvFacts, ReleaseOneFollows, SectionLeaves
<1>7. CASE TouchAfter(t)
  <2>1. PICK w \in Touched(World, loc[t].rt) : Become(w)
    BY <1>7 DEF TouchAfter
  <2> QED
    BY <1>8, <2>1, CInvFacts, TouchedFollows, SectionLeaves
<1> QED
  BY <1>1, <1>2, <1>3, <1>4, <1>5, <1>6, <1>7

LEMMA CloseLeaves ==
    ASSUME CInv, NEW t \in Tools, NEW r \in Runtimes, NEW release, Close(t, r, release)
    PROVE  Spares /\ Tame
<1>1. PICK x \in Closed(World, r, release) : Become(x.w)
  BY DEF Close
<1>2. r \in DOMAIN World.bind /\ threads' = threads
  BY WorldFields DEF Close, drawn
<1> QED
  BY <1>1, <1>2, CInvFacts, ClosedFollows, SectionLeaves

LEMMA CollectLeaves ==
    ASSUME CInv, Collect \/ \E t \in Tools : \E suppress : List(t, suppress)
    PROVE  Spares /\ Tame
<1>1. PICK suppress : \E x \in CollectedAll(World, suppress) : Become(x.w)
  BY DEF Collect, List
<1>2. PICK x \in CollectedAll(World, suppress) : Become(x.w)
  BY <1>1
<1>3. threads' = threads
  BY DEF Collect, List, drawn
<1> QED
  BY <1>2, <1>3, CInvFacts, CollectedAllFollows, SectionLeaves

LEMMA BindingsStayed ==
    ASSUME DOMAIN bind' = DOMAIN bind, \A r \in DOMAIN bind : /\ bind'[r].th = bind[r].th
                                                              /\ bind'[r].name = bind[r].name,
           loaded' = loaded, late' = late, aband' = aband, threads' = threads
    PROVE  Spares /\ Tame
<1>1. Keeps
  BY DEF Keeps, Shrinks
<1> QED
  BY <1>1, LoadingLeaves, AbandonsNone DEF Tame, Keeps

LEMMA DetachLeaves ==
    ASSUME CInv, NEW r, Detach(r), UNCHANGED <<disk, older, idle, live, pendrel, obs>>,
           UNCHANGED serverVars, threads' = threads
    PROVE  Spares /\ Tame
<1>1. Keeps
  BY DetachKeeps, CInvFacts DEF serverVars
<1> QED
  BY <1>1, BindingsStayed DEF Keeps, Shrinks, serverVars

LEMMA UseEndsLeaves ==
    ASSUME CInv, NEW t \in Tools, NEW place, NEW left, UseEnds(t, place, left)
    PROVE  Spares /\ Tame
<1>1. PICK w \in Touched(World, loc[t].rt) : bind' = w.bind
  BY DEF UseEnds
<1>2. SameBindings(World, w)
  BY CInvFacts, TouchedFollows
<1>3. loaded' = loaded /\ late' = late /\ aband' = aband /\ threads' = threads
  BY DEF UseEnds, drawn
<1> QED
  BY <1>1, <1>2, <1>3, WorldFields, BindingsStayed DEF SameBindings

\* The steps that are neither a start, a resumption nor an entering.
LEMMA AsksLeave ==
    ASSUME CInv, NEW t \in Tools,
           \/ Request(t) \/ Admitted(t) \/ TakeSlot(t) \/ NoSlot(t)
           \/ ThreadError(t) \/ UseStep(t)
    PROVE  Spares /\ Tame
<1>1. CASE Request(t) \/ Admitted(t)
  <2>1. CASE Open(t) \/ Refused(t) \/ Wait(t)
    BY <2>1, NothingLeaves DEF Open, Refused, Wait, drawn
  <2>2. ASSUME NEW th \in 1 .. threads, Resume(t, th)
        PROVE  Spares /\ Tame
    BY <2>2, NothingLeaves DEF Resume, drawn
  <2>3. ASSUME NEW r \in Runtimes, NEW kind \in Kinds, Use(t, r, kind)
        PROVE  Spares /\ Tame
    BY <2>3, NothingLeaves DEF Use, drawn
  <2> QED
    BY <1>1, <2>1, <2>2, <2>3, SectionsLeave, CloseLeaves, CollectLeaves DEF Request, Admitted
<1>2. CASE TakeSlot(t) \/ NoSlot(t)
  BY <1>2, NothingLeaves DEF TakeSlot, NoSlot, drawn
<1>3. CASE ThreadError(t)
  <2>1. UNCHANGED bindVars /\ loaded' = loaded /\ late' = late /\ aband' = aband /\ threads' = threads
    BY <1>3 DEF ThreadError, Starts, StartFails, serverVars, drawn
  <2> QED
    BY <2>1, BindVarsLeave, AbandonsNone DEF Tame, Shrinks, bindVars
<1>4. CASE UseStep(t)
  <2>1. CASE UseSlot(t)
    BY <2>1, NothingLeaves DEF UseSlot, drawn
  <2>2. CASE UseRefused(t)
    <3>0. UNCHANGED <<disk, older, idle, live, pendrel, obs>> /\ UNCHANGED serverVars /\ threads' = threads
      BY <2>2 DEF UseRefused, drawn
    <3>1. CASE UNCHANGED bind
      BY <3>0, <3>1, NothingLeaves DEF bindVars
    <3>2. CASE Detach(loc[t].rt)
      <4>1. PICK r : r = loc[t].rt
        OBVIOUS
      <4>2. Detach(r)
        BY <3>2, <4>1 DEF Detach
      <4> QED
        BY <3>0, <4>2, DetachLeaves
    <3> QED
      BY <2>2, <3>1, <3>2 DEF UseRefused
  <2>3. CASE Send(t)
    <3>1. UNCHANGED bindVars /\ loaded' = loaded /\ late' = late /\ aband' = aband /\ threads' = threads
      BY <2>3 DEF Send, Starts, StartFails, serverVars, drawn
    <3> QED
      BY <3>1, BindVarsLeave, AbandonsNone DEF Tame, Shrinks, bindVars
  <2>4. CASE UseAnswered(t) \/ UseFails(t) \/ UseTimesOut(t)
    <3>1. PICK place, left : UseEnds(t, place, left)
      BY <2>4 DEF UseAnswered, UseFails, UseTimesOut
    <3> QED
      BY <3>1, UseEndsLeaves
  <2> QED
    BY <1>4, <2>1, <2>2, <2>3, <2>4, SectionsLeave DEF UseStep
<1> QED
  BY <1>1, <1>2, <1>3, <1>4

\* What the App Server does to threads that are loaded already, time, and the end
\* of the process.
LEMMA PassingLeaves ==
    ASSUME CInv,
           \/ \E r \in Runtimes : Status(r) \/ Ages(r)
           \/ \E x \in late : LateError(x)
           \/ \E x \in stuck : StuckAnswer(x)
           \/ Collect
           \/ Claim \/ Dies \/ UNCHANGED vars
    PROVE  Spares /\ Tame
<1>1. ASSUME NEW r \in Runtimes, Status(r) \/ Ages(r)
      PROVE  Spares /\ Tame
  <2>1. CASE Status(r)
    BY <2>1, DetachLeaves DEF Status, drawn
  <2>2. CASE Ages(r)
    BY <2>2, BindingsStayed DEF Ages, serverVars, drawn
  <2> QED
    BY <1>1, <2>1, <2>2
<1>2. ASSUME NEW x \in late, LateError(x)
      PROVE  Spares /\ Tame
  <2>1. UNCHANGED bindVars /\ loaded' = loaded /\ late' \subseteq late /\ aband' = aband /\ threads' = threads
    BY <1>2 DEF LateError, drawn
  <2> QED
    BY <2>1, BindVarsLeave, AbandonsNone DEF Tame, Shrinks, bindVars
<1>3. ASSUME NEW x \in stuck, StuckAnswer(x)
      PROVE  Spares /\ Tame
  <2>1. UNCHANGED bindVars /\ loaded' = loaded /\ late' = late /\ aband' = aband /\ threads' = threads
    BY <1>3 DEF StuckAnswer, drawn
  <2> QED
    BY <2>1, BindVarsLeave, AbandonsNone DEF Tame, Shrinks, bindVars
<1>4. CASE Collect
  BY <1>4, CollectLeaves
<1>5. CASE Claim
  <2>1. UNCHANGED bindVars /\ loaded' = loaded /\ late' = late /\ aband' \subseteq aband /\ threads' = threads
    BY <1>5 DEF Claim, drawn
  <2> QED
    BY <2>1, BindVarsLeave, AbandonsNone DEF Tame, Shrinks, bindVars
<1>6. CASE Dies
  <2>1. UNCHANGED bindVars /\ loaded' = {} /\ late' = {} /\ aband' = {} /\ threads' = threads
        /\ up' = FALSE
    BY <1>6 DEF Dies, drawn
  <2> QED
    BY <2>1, BindVarsLeave, AbandonsNone DEF Tame, Shrinks, bindVars
<1>7. CASE UNCHANGED vars
  BY <1>7, NothingLeaves DEF vars, drawn
<1> QED
  BY <1>1, <1>2, <1>3, <1>4, <1>5, <1>6, <1>7

LEMMA RestartLeaves ==
    ASSUME CInv, Restart
    PROVE  Spares /\ Tame
<1>1. DOMAIN disk = DOMAIN bind /\ \A r \in DOMAIN bind : disk[r].th = bind[r].th
                                                         /\ disk[r].name = bind[r].name
  BY CInvFacts DEF Soundly, Stored
<1>2. DOMAIN bind' = DOMAIN bind
      /\ \A r \in DOMAIN bind : bind'[r].th = bind[r].th /\ bind'[r].name = bind[r].name
  BY <1>1 DEF Restart
<1>3. loaded' = {} /\ late' = {} /\ aband' = {} /\ threads' = threads /\ up' = FALSE
  BY DEF Restart, drawn
<1>4. Keeps
  BY <1>2 DEF Keeps, Shrinks
<1> QED
  BY <1>3, <1>4, LoadingLeaves, AbandonsNone DEF Tame, Keeps

LEMMA NextLeaves ==
    ASSUME CInv, [Next]_vars
    PROVE  Spares
<1>1. ASSUME NEW t \in Tools, AllocationStep(t)
      PROVE  Spares
  <2>1. CASE StartThread(t) \/ ResumeThread(t)
    BY <2>1, BindVarsLeave, AbandonsNone DEF StartThread, ResumeThread, Starts
  <2> QED
    BY <1>1, <2>1, AsksLeave, SectionsLeave, CommitLeaves DEF AllocationStep
<1>2. ASSUME NEW t \in Tools, AllocationFault(t)
      PROVE  Spares
  <2>1. CASE MismatchedThread(t)
    BY <2>1, BindVarsLeave, AbandonsNone DEF MismatchedThread, Starts
  <2>2. CASE ThreadTimeout(t)
    <3>1. StaysSo
      BY <2>2 DEF ThreadTimeout, StaysSo
    <3> QED
      BY <2>2, <3>1, BindVarsLeave DEF ThreadTimeout
  <2> QED
    BY <1>2, <2>1, <2>2, AsksLeave DEF AllocationFault
<1>3. ASSUME NEW x \in late, LateAnswer(x)
      PROVE  Spares
  <2>1. StaysSo
    BY DEF StaysSo, NoneAbandoned
  <2> QED
    BY <1>3, <2>1, BindVarsLeave DEF LateAnswer
<1> QED
  BY <1>1, <1>2, <1>3, AsksLeave, PassingLeaves, RestartLeaves DEF Next

\* Nothing the manager does, neither close nor capacity nor collection nor a resume
\* that is undone, unloads a thread under a call that waits for its answer or that
\* has timed out unanswered (has_pending_operations).
THEOREM CallsKeepThread == Spec => CallKeepsThread
<1>1. CInv /\ [Next]_vars => [CallKept]_vars
  BY NextLeaves DEF Spares
<1>2. [CallKept]_vars => [\A th \in Threads : Calling(th) /\ up' => th \in loaded']_vars
  BY DEF CallKept
<1> QED
  BY <1>1, <1>2, CodexInvariant, PTL DEF Spec, CallKeepsThread

\* No binding is dropped while one of its requests is registered, sent or not: what
\* collection and capacity may take from such a runtime is at most its loaded
\* thread (_active_requests, _thread_in_use_locked).
THEOREM UsedBindingStays == Spec => [][UsedStays]_vars
<1>1. CInv /\ [Next]_vars => [UsedStays]_vars
  BY NextLeaves DEF Spares
<1> QED
  BY <1>1, CodexInvariant, PTL DEF Spec

\* Where no request for a thread times out, and so no thread is abandoned to the
\* clean-up, its loaded thread is not taken either: no close, capacity, collection or
\* undone resume unloads it while a request is registered (_thread_in_use_locked).
THEOREM RequestsKeepThread ==
    ASSUME "timeout" \notin Faults
    PROVE  Spec => RequestKeepsThread
<1>1. Init => NoneAbandoned
  BY DEF Init, NoneAbandoned
<1>2. CInv /\ NoneAbandoned /\ [Next]_vars => NoneAbandoned'
  BY NextLeaves DEF Spares, StaysSo
<1>3. CInv /\ NoneAbandoned /\ [Next]_vars => [RequestKept]_vars
  BY NextLeaves DEF Spares
<1>4. NoneAbandoned /\ [RequestKept]_vars =>
          [\A r \in DOMAIN bind :
              active[r] > 0 /\ Reads /\ bind[r].th \in loaded /\ up'
              => bind[r].th \in loaded']_vars
  BY DEF RequestKept
<1> QED
  BY <1>1, <1>2, <1>3, <1>4, CodexInvariant, PTL DEF Spec, RequestKeepsThread


-------------------------------------------------------------------------------
(***************************************************************************)
(* The thread of an answer. A request may be registered while its binding  *)
(* gets another thread, for one that never ran a turn and was unloaded is  *)
(* not resumed but started anew. What makes the answer one of the binding  *)
(* all the same is that such a thread is gone: nothing loads it again,     *)
(* unless a start of it is still unanswered, and then no binding knows it. *)
(***************************************************************************)
Hidden(th) == th \in Harness /\ [th |-> th, resume |-> FALSE] \in late
Gone(th)   == th \in Harness \ loaded /\ th <= threads /\ ~ Hidden(th)

HiddenOnes ==
    /\ \A th \in loaded : th <= threads
    /\ \A x \in late : x.th <= threads
    /\ \A th \in Threads : Hidden(th) => /\ th \notin loaded
                                         /\ \A r \in DOMAIN bind : bind[r].th # th

Followed(t) ==
    /\ pc[t] \in Asking => /\ loc[t].prev = None
                           /\ loc[t].rt # None => bind[loc[t].rt].th = loc[t].th
    /\ pc[t] \in {"sync2", "commit"} =>
          /\ ~ Hidden(loc[t].th)
          /\ loc[t].rt # None =>
                \/ loc[t].prev = None /\ bind[loc[t].rt].th = loc[t].th
                \/ loc[t].prev # None /\ bind[loc[t].rt].th = loc[t].prev /\ Gone(loc[t].prev)
    /\ pc[t] \in Registered => /\ loc[t].rt \in DOMAIN bind
                               /\ bind[loc[t].rt].th = loc[t].th \/ Gone(loc[t].th)

FInv == HiddenOnes /\ \A t \in Tools : Followed(t)

GoneStay   == \A th \in Threads : Gone(th) => Gone(th)'
HiddenStay == \A th \in Threads : th <= threads /\ ~ Hidden(th) => ~ Hidden(th)'

LEMMA TameHides ==
    ASSUME CInv, HiddenOnes, Tame
    PROVE  HiddenOnes' /\ GoneStay /\ HiddenStay
<1>1. loaded' \subseteq loaded /\ late' \subseteq late /\ threads' = threads /\ Shrinks
  BY DEF Tame
<1>2. \A th \in Threads : Hidden(th)' => Hidden(th)
  BY <1>1 DEF Hidden
<1>3. GoneStay /\ HiddenStay
  BY <1>1, <1>2 DEF GoneStay, HiddenStay, Gone
<1>4. HiddenOnes'
  BY <1>1, <1>2 DEF HiddenOnes, Shrinks
<1> QED
  BY <1>3, <1>4

\* A thread is drawn and loaded: by a start, or by one that came back elsewhere.
LEMMA NewThreadHides ==
    ASSUME CInv, HiddenOnes, UNCHANGED bindVars, late' = late, threads' = threads + 1,
           loaded' = loaded \cup {threads + 1}
    PROVE  HiddenOnes' /\ GoneStay /\ HiddenStay /\ ~ Hidden(threads)'
<1>1. threads \in Nat /\ bind' = bind
  BY CInvFacts DEF Server, bindVars
<1>2. ~ Hidden(threads + 1)
  BY <1>1 DEF Hidden, HiddenOnes
<1>3. \A th : Hidden(th)' <=> Hidden(th)
  BY DEF Hidden
<1>4. loaded \subseteq Nat /\ \A x \in late : x.th \in Nat
  BY CInvFacts DEF Soundly, Server, Threads
<1>5. GoneStay
  <2> SUFFICES ASSUME NEW th \in Threads, Gone(th) PROVE Gone(th)'
    BY DEF GoneStay
  <2> QED
    BY <1>1, <1>3 DEF Gone, Threads
<1>6. HiddenStay
  BY <1>3 DEF HiddenStay
<1>7. HiddenOnes'
  <2>1. ASSUME NEW th \in loaded'
        PROVE  th <= threads'
    <3>1. CASE th = threads + 1
      BY <1>1, <3>1
    <3>2. CASE th \in loaded
      <4>1. th \in Nat /\ th <= threads
        BY <1>4, <3>2 DEF HiddenOnes
      <4> QED
        BY <1>1, <4>1
    <3> QED
      BY <2>1, <3>1, <3>2
  <2>2. ASSUME NEW x \in late'
        PROVE  x.th <= threads'
    <3>1. x.th \in Nat /\ x.th <= threads
      BY <1>4, <2>2 DEF HiddenOnes
    <3> QED
      BY <1>1, <3>1
  <2>3. \A th \in Threads : Hidden(th) => th \notin loaded' /\ \A r \in DOMAIN bind : bind[r].th # th
    BY <1>2 DEF HiddenOnes
  <2> QED
    BY <1>1, <1>3, <2>1, <2>2, <2>3 DEF HiddenOnes
<1> QED
  BY <1>2, <1>3, <1>5, <1>6, <1>7

\* A thread is loaded that can be resumed.
LEMMA ResumedHides ==
    ASSUME CInv, HiddenOnes, UNCHANGED bindVars, late' \subseteq late, threads' = threads,
           NEW th \in Threads, th <= threads, ~ Lost(th), loaded' = loaded \cup {th}
    PROVE  HiddenOnes' /\ GoneStay /\ HiddenStay /\ ~ Hidden(th)'
<1>1. bind' = bind
  BY DEF bindVars
<1>2. \A q : Hidden(q)' => Hidden(q)
  BY DEF Hidden
<1>3. ~ Hidden(th)
  BY DEF Hidden, Lost, HiddenOnes
<1>4. GoneStay
  BY <1>2 DEF GoneStay, Gone, Lost
<1>5. HiddenStay
  BY <1>2 DEF HiddenStay
<1>6. HiddenOnes'
  BY <1>1, <1>2, <1>3 DEF HiddenOnes
<1> QED
  BY <1>2, <1>3, <1>4, <1>5, <1>6

LEMMA LateAnswerHides ==
    ASSUME CInv, HiddenOnes, NEW x \in late, LateAnswer(x)
    PROVE  HiddenOnes' /\ GoneStay /\ HiddenStay
<1>1. /\ UNCHANGED bindVars /\ late' = late \ {x} /\ threads' = threads
      /\ loaded' = loaded \cup {x.th} /\ (x.resume => ~ Lost(x.th))
  BY DEF LateAnswer, drawn
<1>2. x \in [th : Threads, resume : BOOLEAN] /\ x.th <= threads
  BY CInvFacts DEF Server, HiddenOnes
<1>3. CASE ~ Lost(x.th)
  BY <1>1, <1>2, <1>3, ResumedHides
<1>4. CASE Lost(x.th)
  <2>1. x = [th |-> x.th, resume |-> FALSE] /\ x.th \in Harness
    BY <1>1, <1>2, <1>4 DEF Lost
  <2>2. Hidden(x.th) /\ ~ Hidden(x.th)'
    BY <1>1, <2>1 DEF Hidden
  <2>3. \A q : Hidden(q)' => Hidden(q)
    BY <1>1 DEF Hidden
  <2>4. GoneStay
    BY <1>1, <2>2, <2>3 DEF GoneStay, Gone
  <2>5. HiddenStay
    BY <2>3 DEF HiddenStay
  <2>6. bind' = bind
    BY <1>1 DEF bindVars
  <2>7. HiddenOnes'
    BY <1>1, <1>2, <2>2, <2>3, <2>6 DEF HiddenOnes
  <2> QED
    BY <2>4, <2>5, <2>7
<1> QED
  BY <1>3, <1>4

\* A request is abandoned: the thread it may start is known to nobody.
LEMMA TimeoutHides ==
    ASSUME CInv, HiddenOnes, NEW t \in Tools, ThreadTimeout(t)
    PROVE  HiddenOnes' /\ GoneStay /\ HiddenStay
<1>1. loaded' = loaded /\ bind' = bind
  BY DEF ThreadTimeout, bindVars
<1>2. threads \in Nat /\ loaded \subseteq Nat /\ (\A x \in late : x.th \in Nat)
      /\ \A r \in DOMAIN bind : bind[r].th <= threads /\ bind[r].th \in Nat
  BY CInvFacts DEF Server, Soundly, Threads, Drawn, AreBindings, IsBinding
<1>3. CASE threads' = threads + 1 /\ late' = late \cup {[th |-> threads + 1, resume |-> FALSE]}
  <2>1. threads' = threads + 1 /\ late' = late \cup {[th |-> threads + 1, resume |-> FALSE]}
    BY <1>3
  <2>2. \A th : Hidden(th)' => Hidden(th) \/ th = threads + 1
    BY <2>1 DEF Hidden
  <2>3. GoneStay
    <3> SUFFICES ASSUME NEW th \in Threads, Gone(th) PROVE Gone(th)'
      BY DEF GoneStay
    <3> QED
      BY <1>1, <1>2, <2>1, <2>2 DEF Gone, Threads
  <2>4. HiddenStay
    BY <1>2, <2>2 DEF HiddenStay, Threads
  <2>5. \A th \in loaded' : th <= threads'
    BY <1>1, <1>2, <2>1 DEF HiddenOnes
  <2>6. \A x \in late' : x.th <= threads'
    BY <1>2, <2>1 DEF HiddenOnes
  <2>7. ASSUME NEW th \in Threads, Hidden(th)'
        PROVE  th \notin loaded' /\ \A r \in DOMAIN bind' : bind'[r].th # th
    <3>1. CASE Hidden(th)
      BY <1>1, <3>1 DEF HiddenOnes
    <3>2. CASE th = threads + 1
      BY <1>1, <1>2, <3>2 DEF HiddenOnes
    <3> QED
      BY <2>2, <2>7, <3>1, <3>2
  <2> QED
    BY <2>3, <2>4, <2>5, <2>6, <2>7 DEF HiddenOnes
<1>4. CASE threads' = threads /\ late' = late \cup {[th |-> loc[t].th, resume |-> TRUE]}
  <2>1. threads' = threads /\ late' = late \cup {[th |-> loc[t].th, resume |-> TRUE]}
    BY <1>4
  <2>2. loc[t].th <= threads
    BY DEF CInv, Reserved
  <2>3. \A th : Hidden(th)' <=> Hidden(th)
    BY <2>1 DEF Hidden
  <2>4. GoneStay /\ HiddenStay
    BY <1>1, <2>1, <2>3 DEF GoneStay, HiddenStay, Gone
  <2>5. HiddenOnes'
    BY <1>1, <2>1, <2>2, <2>3 DEF HiddenOnes
  <2> QED
    BY <2>4, <2>5
<1> QED
  BY <1>3, <1>4 DEF ThreadTimeout

\* What is bound is a thread that is not hidden.
LEMMA CommitHides ==
    ASSUME CInv, FInv, NEW t \in Tools, Commit(t)
    PROVE  HiddenOnes' /\ GoneStay /\ HiddenStay
<1>1. /\ loaded' \subseteq loaded /\ late' = late /\ threads' = threads
      /\ \A r \in DOMAIN bind' :
            \/ r \in DOMAIN bind /\ bind'[r].th = bind[r].th
            \/ bind'[r].th = loc[t].th
  BY CommitLeaves
<1>2. ~ Hidden(loc[t].th)
  BY DEF FInv, Followed, Commit
<1>3. \A q : Hidden(q)' <=> Hidden(q)
  BY <1>1 DEF Hidden
<1>4. GoneStay /\ HiddenStay
  BY <1>1, <1>3 DEF GoneStay, HiddenStay, Gone
<1>5. HiddenOnes'
  BY <1>1, <1>2, <1>3 DEF HiddenOnes, FInv
<1> QED
  BY <1>4, <1>5

\* Tools that stay, or go on with the same binding and thread.
Together(p, q) == p = q \/ {p, q} \subseteq Asking \/ {p, q} \subseteq {"sync2", "commit"}
                        \/ {p, q} \subseteq Registered

LEMMA RegisteredCounts ==
    ASSUME CInv, NEW t \in Tools, pc[t] \in Registered, loc[t].rt \in Runtimes
    PROVE  active[loc[t].rt] > 0
<1> DEFINE S == Requests(loc[t].rt)
<1>1. t \in S /\ S \subseteq Tools
  BY DEF Requests
<1>2. IsFiniteSet(S)
  BY <1>1, ToolsAssumption, FS_Subset
<1>3. Cardinality(S) \in Nat /\ Cardinality(S) # 0
  BY <1>1, <1>2, FS_CardinalityType, FS_EmptySet
<1>4. active[loc[t].rt] = Cardinality(S)
  BY CInvFacts DEF ActiveCounted
<1> QED
  BY <1>3, <1>4

LEMMA FollowedStays ==
    ASSUME CInv, CInv', NEW t \in Tools, Followed(t), Together(pc[t], pc'[t]),
           loc'[t].rt = loc[t].rt, loc'[t].th = loc[t].th, loc'[t].prev = loc[t].prev,
           Shrinks, UsedStays, GoneStay, HiddenStay
    PROVE  Followed(t)'
<1>1. \A r \in DOMAIN bind' : bind'[r].th = bind[r].th
  BY DEF Shrinks
<1>2. pc[t] \in Places /\ pc'[t] \in Places
  BY DEF CInv, ToolsTyped
<1>3. CASE pc'[t] \in Asking
  <2>1. pc[t] \in Asking
    BY <1>3 DEF Together, Asking, Registered
  <2>2. loc'[t].rt # None => loc'[t].rt \in DOMAIN bind'
    BY <1>3 DEF CInv, Reserved, Taking, AllocPlaces, Asking
  <2>3. loc[t].prev = None /\ (loc[t].rt # None => bind[loc[t].rt].th = loc[t].th)
    BY <2>1 DEF Followed
  <2>4. loc'[t].prev = None /\ (loc'[t].rt # None => bind'[loc'[t].rt].th = loc'[t].th)
    BY <1>1, <2>2, <2>3
  <2> QED
    BY <1>3, <2>4 DEF Followed, Asking, Registered
<1>4. CASE pc'[t] \in {"sync2", "commit"}
  <2>1. pc[t] \in {"sync2", "commit"}
    BY <1>4 DEF Together, Asking, Registered
  <2>2. loc'[t].rt # None => loc'[t].rt \in DOMAIN bind'
    BY <1>4 DEF CInv, Reserved, Taking, AllocPlaces
  <2>3. loc[t].th \in Threads /\ loc[t].th <= threads
    <3>1. loc[t].th # None /\ loc[t].th <= threads
      BY <2>1 DEF CInv, Reserved
    <3> QED
      BY <3>1, CInvFacts DEF ToolsTyped, Locals, Maybe
  <2>4. ~ Hidden(loc[t].th)'
    <3>1. ~ Hidden(loc[t].th)
      BY <2>1 DEF Followed
    <3>2. PICK th \in Threads : th = loc[t].th
      BY <2>3
    <3>3. ~ Hidden(th)'
      BY <2>3, <3>1, <3>2 DEF HiddenStay
    <3>4. loc'[t].th = th
      BY <3>2
    <3> QED
      BY <3>3, <3>4 DEF Hidden
  <2>5. ASSUME loc'[t].rt # None, loc'[t].prev = None
        PROVE  bind'[loc'[t].rt].th = loc'[t].th
    BY <1>1, <2>1, <2>2, <2>5 DEF Followed
  <2>6. ASSUME loc'[t].rt # None, loc'[t].prev # None
        PROVE  bind'[loc'[t].rt].th = loc'[t].prev /\ Gone(loc[t].prev)'
    <3>1. bind[loc[t].rt].th = loc[t].prev /\ Gone(loc[t].prev)
      BY <2>1, <2>6 DEF Followed
    <3>2. loc[t].prev \in Threads
      BY <3>1, HarnessAssumption DEF Gone, Threads
    <3>3. PICK th \in Threads : th = loc[t].prev
      BY <3>2
    <3>4. Gone(th)'
      BY <3>1, <3>3 DEF GoneStay
    <3>5. loc'[t].prev = th
      BY <3>3
    <3> QED
      BY <1>1, <2>2, <2>6, <3>1, <3>4, <3>5 DEF Gone, Hidden
  <2> QED
    BY <1>4, <2>4, <2>5, <2>6 DEF Followed, Asking, Registered
<1>5. CASE pc'[t] \in Registered
  <2>1. pc[t] \in Registered
    BY <1>5 DEF Together, Asking, Registered
  <2>2. /\ loc[t].rt \in DOMAIN bind
        /\ bind[loc[t].rt].th = loc[t].th \/ Gone(loc[t].th)
    BY <2>1 DEF Followed
  <2>3. active[loc[t].rt] > 0
    <3>1. loc[t].rt \in Runtimes
      BY <2>2, CInvFacts DEF Soundly, AreBindings
    <3> QED
      BY <2>1, <3>1, RegisteredCounts
  <2>4. loc'[t].rt \in DOMAIN bind'
    BY <2>2, <2>3 DEF UsedStays
  <2>5. CASE bind[loc[t].rt].th = loc[t].th
    <3>1. bind'[loc'[t].rt].th = loc'[t].th
      BY <1>1, <2>4, <2>5
    <3> QED
      BY <1>5, <2>4, <3>1 DEF Followed, Asking, Registered
  <2>6. CASE Gone(loc[t].th)
    <3>1. PICK th \in Threads : th = loc[t].th
      BY <2>6, HarnessAssumption DEF Gone, Threads
    <3>2. Gone(th)' /\ loc'[t].th = th
      BY <2>6, <3>1 DEF GoneStay
    <3>3. Gone(loc[t].th)'
      BY <3>2 DEF Gone, Hidden
    <3> QED
      BY <1>5, <2>4, <3>3 DEF Followed, Asking, Registered
  <2> QED
    BY <2>2, <2>5, <2>6
<1>6. CASE pc'[t] \notin Asking \cup {"sync2", "commit"} \cup Registered
  BY <1>6 DEF Followed
<1> QED
  BY <1>3, <1>4, <1>5, <1>6

LEMMA FollowedNowhere ==
    ASSUME NEW t \in Tools, pc'[t] \in {"idle", "lock", "useSlot", "touch", "undo", "replaced"}
    PROVE  Followed(t)'
BY DEF Followed, Asking, Registered

\* One tool has moved, and all others are where they were.
LEMMA FollowedMoves ==
    ASSUME CInv, CInv', FInv, NEW t \in Tools, Moves(t), Followed(t)',
           Shrinks, UsedStays, HiddenOnes', GoneStay, HiddenStay
    PROVE  FInv'
<1>1. ASSUME NEW u \in Tools, u # t
      PROVE  Followed(u)'
  <2>1. pc'[u] = pc[u] /\ loc'[u] = loc[u]
    BY <1>1 DEF Moves
  <2>2. Followed(u) /\ Together(pc[u], pc'[u])
    BY <2>1 DEF FInv, Together
  <2> QED
    BY <2>1, <2>2, FollowedStays
<1> QED
  BY <1>1 DEF FInv

LEMMA FollowedIdles ==
    ASSUME CInv, CInv', FInv, UNCHANGED <<pc, loc>>,
           Shrinks, UsedStays, HiddenOnes', GoneStay, HiddenStay
    PROVE  FInv'
<1>1. ASSUME NEW u \in Tools
      PROVE  Followed(u)'
  <2>1. pc'[u] = pc[u] /\ loc'[u] = loc[u]
    OBVIOUS
  <2>2. Followed(u) /\ Together(pc[u], pc'[u])
    BY <2>1 DEF FInv, Together
  <2> QED
    BY <2>1, <2>2, FollowedStays
<1> QED
  BY <1>1 DEF FInv

\* What a step makes of the tool that takes it.
Arrives(t) ==
    /\ Moves(t) /\ Followed(t)'
    /\ pc[t] = "upstream" => pc'[t] # "touch" \/ UseAnswered(t)

LEMMA GoGoes ==
    ASSUME CInv, NEW t \in Tools, NEW place, NEW locals, Go(t, place, locals)
    PROVE  Moves(t) /\ pc'[t] = place /\ loc'[t] = locals
BY CInvFacts DEF ToolsTyped, Go, Moves

LEMMA GoesNowhere ==
    ASSUME CInv, NEW t \in Tools, NEW locals, NEW place, Go(t, place, locals),
           place \in {"idle", "lock", "useSlot", "undo", "replaced"}
    PROVE  Arrives(t)
BY GoGoes, FollowedNowhere DEF Arrives

LEMMA LeavesNowhere ==
    ASSUME CInv, NEW t \in Tools, Leaves(t)
    PROVE  Arrives(t)
BY GoesNowhere DEF Leaves

LEMMA GoesOn ==
    ASSUME CInv, CInv', FInv, NEW t \in Tools, NEW place, NEW locals, Go(t, place, locals),
           Together(pc[t], place), place # "touch",
           locals.rt = loc[t].rt, locals.th = loc[t].th, locals.prev = loc[t].prev,
           Shrinks, UsedStays, GoneStay, HiddenStay
    PROVE  Arrives(t)
<1>1. Moves(t) /\ pc'[t] = place /\ loc'[t] = locals
  BY GoGoes
<1>2. Followed(t)
  BY DEF FInv
<1>3. Followed(t)'
  BY <1>1, <1>2, FollowedStays
<1> QED
  BY <1>1, <1>3 DEF Arrives

\* A tool starts to ask, with no binding or with one and its thread.
LEMMA GoesToAsk ==
    ASSUME CInv, NEW t \in Tools, NEW place \in Asking, NEW locals, Go(t, place, locals),
           locals.prev = None,
           locals.rt # None => bind'[locals.rt].th = locals.th
    PROVE  Arrives(t)
<1>1. Moves(t) /\ pc'[t] = place /\ loc'[t] = locals
  BY GoGoes
<1>2. loc'[t].prev = None /\ (loc'[t].rt # None => bind'[loc'[t].rt].th = loc'[t].th)
  BY <1>1
<1> QED
  BY <1>1, <1>2 DEF Arrives, Followed, Asking, Registered

LEMMA AcquireArrives ==
    ASSUME CInv, NEW t \in Tools, Acquire(t)
    PROVE  Arrives(t)
<1>1. PICK x \in CollectedAll(World, FALSE) :
          /\ Become(x.w)
          /\ IF ~x.ok THEN Leaves(t)
             ELSE IF Named(x.w) = {}
                  THEN Go(t, "capacity", [Idle EXCEPT !.name = TRUE])
                  ELSE \E r \in Named(x.w) :
                          Go(t, "sync1", [Idle EXCEPT !.rt = r, !.name = TRUE,
                                                      !.th = x.w.bind[r].th])
  BY DEF Acquire
<1>2. CASE ~ x.ok
  BY <1>1, <1>2, LeavesNowhere
<1>3. CASE x.ok /\ Named(x.w) = {}
  <2>1. [Idle EXCEPT !.name = TRUE].prev = None /\ [Idle EXCEPT !.name = TRUE].rt = None
    BY DEF Idle
  <2> QED
    BY <1>1, <1>3, <2>1, GoesToAsk DEF Asking
<1>4. CASE x.ok /\ Named(x.w) # {}
  <2>1. PICK r \in Named(x.w) :
            Go(t, "sync1", [Idle EXCEPT !.rt = r, !.name = TRUE, !.th = x.w.bind[r].th])
    BY <1>1, <1>4
  <2> DEFINE l == [Idle EXCEPT !.rt = r, !.name = TRUE, !.th = x.w.bind[r].th]
  <2>2. l.prev = None /\ l.rt = r /\ l.th = x.w.bind[r].th
    BY DEF Idle
  <2>3. bind' = x.w.bind
    BY <1>1 DEF Become
  <2>4. Go(t, "sync1", l)
    BY <2>1
  <2> HIDE DEF l
  <2> QED
    BY <2>2, <2>3, <2>4, GoesToAsk DEF Asking
<1> QED
  BY <1>2, <1>3, <1>4

LEMMA ResumeArrives ==
    ASSUME CInv, NEW t \in Tools, NEW th, Resume(t, th)
    PROVE  Arrives(t)
<1>1. bind' = bind
  BY DEF Resume, bindVars
<1>2. CASE Go(t, "sync1", [Idle EXCEPT !.th = th])
  <2>1. [Idle EXCEPT !.th = th].prev = None /\ [Idle EXCEPT !.th = th].rt = None
    BY DEF Idle
  <2> QED
    BY <1>2, <2>1, GoesToAsk DEF Asking
<1>3. ASSUME NEW r \in DOMAIN bind, bind[r].th = th,
             Go(t, "sync1", [Idle EXCEPT !.th = th, !.rt = r, !.name = bind[r].name])
      PROVE  Arrives(t)
  <2> DEFINE l == [Idle EXCEPT !.th = th, !.rt = r, !.name = bind[r].name]
  <2>1. l.prev = None /\ l.rt = r /\ l.th = th
    BY DEF Idle
  <2>2. Go(t, "sync1", l)
    BY <1>3
  <2> HIDE DEF l
  <2>3. bind'[l.rt].th = l.th
    BY <1>1, <1>3, <2>1
  <2> QED
    BY <2>1, <2>2, <2>3, GoesToAsk DEF Asking
<1> QED
  BY <1>2, <1>3 DEF Resume, Allocates

LEMMA LookupArrives ==
    ASSUME CInv, CInv', FInv, NEW t \in Tools, Lookup(t),
           Shrinks, UsedStays, HiddenOnes', GoneStay, HiddenStay
    PROVE  Arrives(t)
<1>1. PICK reused :
          \/ Leaves(t)
          \/ /\ reused => loc[t].rt # None
             /\ Go(t, IF reused THEN "sync2" ELSE "slot", [loc[t] EXCEPT !.reused = reused])
  BY DEF Lookup
<1>2. pc[t] = "lookup"
  BY DEF Lookup
<1>3. CASE Leaves(t)
  BY <1>3, LeavesNowhere
<1> DEFINE l == [loc[t] EXCEPT !.reused = reused]
<1>4. l.rt = loc[t].rt /\ l.th = loc[t].th /\ l.prev = loc[t].prev
  BY CInvFacts DEF ToolsTyped, Locals
<1>5. CASE Go(t, "slot", l)
  <2> HIDE DEF l
  <2>1. Together(pc[t], "slot")
    BY <1>2 DEF Together, Asking
  <2> QED
    BY <1>4, <1>5, <2>1, GoesOn
<1>6. CASE loc[t].rt # None /\ Go(t, "sync2", l)
  <2> HIDE DEF l
  <2>1. Moves(t) /\ pc'[t] = "sync2" /\ loc'[t] = l
    BY <1>6, GoGoes
  <2>2. loc[t].prev = None /\ bind[loc[t].rt].th = loc[t].th
    BY <1>2, <1>6 DEF FInv, Followed, Asking
  <2>3. loc'[t].rt \in DOMAIN bind'
    BY <1>4, <1>6, <2>1 DEF CInv, Reserved, Taking, AllocPlaces
  <2>4. bind'[loc'[t].rt].th = loc'[t].th
    BY <1>4, <2>1, <2>2, <2>3 DEF Shrinks
  <2>5. loc'[t].th \in Threads
    BY <2>3, <2>4 DEF CInv, Sound, World, AreBindings, IsBinding
  <2>6. ~ Hidden(loc[t].th)'
    BY <2>3, <2>4, <2>5 DEF HiddenOnes
  <2>7. Followed(t)'
    BY <1>4, <2>1, <2>2, <2>4, <2>6 DEF Followed, Asking, Registered
  <2> QED
    BY <1>2, <2>1, <2>7 DEF Arrives
<1> QED
  BY <1>1, <1>3, <1>5, <1>6

LEMMA CommitArrives ==
    ASSUME CInv, NEW t \in Tools, Commit(t)
    PROVE  Arrives(t)
BY GoesNowhere, LeavesNowhere DEF Commit

\* A start: a new thread, for the one that is gone if the tool has a binding.
LEMMA StartArrives ==
    ASSUME CInv, FInv, NEW t \in Tools, StartThread(t)
    PROVE  Shrinks /\ HiddenOnes' /\ GoneStay /\ HiddenStay /\ Arrives(t)
<1>1. /\ UNCHANGED bindVars /\ late' = late /\ threads' = threads + 1
      /\ loaded' = loaded \cup {threads + 1}
      /\ loc[t].th = None \/ Lost(loc[t].th)
      /\ pc[t] = "request"
      /\ Go(t, "sync2", [loc[t] EXCEPT !.th = threads + 1, !.prev = loc[t].th])
  BY DEF StartThread, WantsNew, Starts
<1>2. HiddenOnes' /\ GoneStay /\ HiddenStay /\ ~ Hidden(threads)'
  BY <1>1, NewThreadHides DEF FInv
<1>3. bind' = bind
  BY <1>1 DEF bindVars
<1> DEFINE l == [loc[t] EXCEPT !.th = threads + 1, !.prev = loc[t].th]
<1>4. l.rt = loc[t].rt /\ l.th = threads + 1 /\ l.prev = loc[t].th
  BY CInvFacts DEF ToolsTyped, Locals
<1>5. Go(t, "sync2", l)
  BY <1>1
<1> HIDE DEF l
<1>6. Moves(t) /\ pc'[t] = "sync2" /\ loc'[t] = l
  BY <1>5, GoGoes
<1>7. ~ Hidden(loc[t].th)'
  BY <1>1, <1>2, <1>4, <1>6 DEF Hidden
<1>8. ASSUME loc[t].rt # None
      PROVE  bind'[loc'[t].rt].th = loc'[t].prev /\ loc'[t].prev # None /\ Gone(loc[t].prev)'
  <2>1. bind[loc[t].rt].th = loc[t].th /\ loc[t].rt \in DOMAIN bind
    BY <1>1, <1>8 DEF FInv, Followed, Asking, CInv, Reserved, Taking, AllocPlaces
  <2>2. PICK th \in Threads : th = loc[t].th /\ th <= threads
    BY <2>1, CInvFacts DEF Soundly, AreBindings, IsBinding, Drawn
  <2>3. th # None
    BY <2>2 DEF Threads, None
  <2>4. Gone(th)
    BY <1>1, <2>1, <2>2, <2>3 DEF Gone, Lost, FInv, HiddenOnes
  <2>5. Gone(th)'
    BY <1>2, <2>4 DEF GoneStay
  <2>6. loc'[t].prev = th
    BY <1>4, <1>6, <2>2
  <2>7. Gone(loc[t].prev)'
    BY <2>5, <2>6 DEF Gone, Hidden
  <2> QED
    BY <1>3, <1>4, <1>6, <2>1, <2>2, <2>3, <2>6, <2>7
<1>9. Followed(t)'
  BY <1>4, <1>6, <1>7, <1>8 DEF Followed, Asking, Registered
<1> QED
  BY <1>1, <1>2, <1>3, <1>6, <1>9 DEF Shrinks, Arrives

LEMMA ResumeThreadArrives ==
    ASSUME CInv, FInv, NEW t \in Tools, ResumeThread(t)
    PROVE  Shrinks /\ HiddenOnes' /\ GoneStay /\ HiddenStay /\ Arrives(t)
<1>1. /\ UNCHANGED bindVars /\ late' = late /\ threads' = threads
      /\ loaded' = loaded \cup {loc[t].th}
      /\ loc[t].th # None /\ ~ Lost(loc[t].th) /\ pc[t] = "request"
      /\ Go(t, "sync2", loc[t])
  BY DEF ResumeThread, WantsNew, Starts, drawn
<1>2. PICK th \in Threads : th = loc[t].th /\ th <= threads
  <2>1. loc[t].th <= threads
    BY DEF CInv, Reserved
  <2> QED
    BY <1>1, <2>1, CInvFacts DEF ToolsTyped, Locals, Maybe
<1>3. HiddenOnes' /\ GoneStay /\ HiddenStay /\ ~ Hidden(th)'
  BY <1>1, <1>2, ResumedHides DEF FInv
<1>4. bind' = bind
  BY <1>1 DEF bindVars
<1>5. Moves(t) /\ pc'[t] = "sync2" /\ loc'[t] = loc[t]
  BY <1>1, GoGoes
<1>6. ~ Hidden(loc[t].th)'
  BY <1>2, <1>3, <1>5 DEF Hidden
<1>7. loc[t].prev = None /\ (loc[t].rt # None => bind[loc[t].rt].th = loc[t].th)
  BY <1>1 DEF FInv, Followed, Asking
<1>8. loc'[t].prev = None /\ (loc'[t].rt # None => bind'[loc'[t].rt].th = loc'[t].th)
  BY <1>4, <1>5, <1>7
<1>9. Followed(t)'
  BY <1>5, <1>6, <1>8 DEF Followed, Asking, Registered
<1> QED
  BY <1>1, <1>3, <1>4, <1>5, <1>9 DEF Shrinks, Arrives

LEMMA FaultArrives ==
    ASSUME CInv, FInv, NEW t \in Tools, MismatchedThread(t) \/ ThreadTimeout(t)
    PROVE  Shrinks /\ HiddenOnes' /\ GoneStay /\ HiddenStay /\ Arrives(t)
<1>1. UNCHANGED bindVars /\ Leaves(t)
  BY DEF MismatchedThread, ThreadTimeout, Starts
<1>2. Shrinks /\ Arrives(t)
  BY <1>1, LeavesNowhere DEF Shrinks, bindVars
<1>3. CASE MismatchedThread(t)
  <2>1. CASE WantsNew(t)
    <3>1. late' = late /\ threads' = threads + 1 /\ loaded' = loaded \cup {threads + 1}
      BY <1>3, <2>1 DEF MismatchedThread, Starts
    <3> QED
      BY <1>1, <1>2, <3>1, NewThreadHides DEF FInv
  <2>2. CASE ~ WantsNew(t)
    <3>1. /\ late' = late /\ threads' = threads /\ loaded' = loaded \cup {loc[t].th}
          /\ loc[t].th # None /\ ~ Lost(loc[t].th)
      BY <1>3, <2>2 DEF MismatchedThread, WantsNew, Starts
    <3>2. loc[t].th \in Threads /\ loc[t].th <= threads
      BY <3>1, LocalsOf, CInvFacts DEF CInv, Reserved
    <3> QED
      BY <1>1, <1>2, <3>1, <3>2, ResumedHides DEF FInv
  <2> QED
    BY <2>1, <2>2
<1>4. CASE ThreadTimeout(t)
  BY <1>2, <1>4, TimeoutHides DEF FInv
<1> QED
  BY <1>3, <1>4

\* A request is registered for the thread its binding has.
LEMMA UseSlotArrives ==
    ASSUME CInv, NEW t \in Tools, UseSlot(t)
    PROVE  Arrives(t)
<1>1. Moves(t) /\ pc'[t] = "send" /\ loc'[t] = loc[t] /\ bind' = bind /\ pc[t] = "useSlot"
  BY GoGoes DEF UseSlot, bindVars
<1>2. loc[t].rt \in DOMAIN bind /\ bind[loc[t].rt].th = loc[t].th
  BY DEF UseSlot, SameBinding, Usable
<1>3. loc'[t].rt \in DOMAIN bind' /\ bind'[loc'[t].rt].th = loc'[t].th
  BY <1>1, <1>2
<1> QED
  BY <1>1, <1>3 DEF Arrives, Followed, Asking, Registered

LEMMA SendArrives ==
    ASSUME CInv, CInv', FInv, NEW t \in Tools, Send(t), Shrinks, UsedStays, GoneStay, HiddenStay
    PROVE  Arrives(t)
<1>1. PICK n : pc[t] = "send" /\ Go(t, "upstream", [loc[t] EXCEPT !.gen = n])
  BY DEF Send
<1> DEFINE l == [loc[t] EXCEPT !.gen = n]
<1>2. l.rt = loc[t].rt /\ l.th = loc[t].th /\ l.prev = loc[t].prev
  BY CInvFacts DEF ToolsTyped, Locals
<1>3. Go(t, "upstream", l)
  BY <1>1
<1> HIDE DEF l
<1>4. Together(pc[t], "upstream")
  BY <1>1 DEF Together, Registered
<1> QED
  BY <1>2, <1>3, <1>4, GoesOn

LEMMA UseEndsArrives ==
    ASSUME CInv, NEW t \in Tools, UseAnswered(t) \/ UseFails(t) \/ UseTimesOut(t)
    PROVE  Arrives(t)
<1>1. CASE UseAnswered(t)
  <2>1. PICK l : Go(t, "touch", l)
    BY <1>1 DEF UseAnswered, UseEnds
  <2>2. Moves(t) /\ pc'[t] = "touch"
    BY <2>1, GoGoes
  <2> QED
    BY <1>1, <2>2, FollowedNowhere DEF Arrives
<1>2. CASE UseFails(t) \/ UseTimesOut(t)
  <2>1. Go(t, "idle", Idle)
    BY <1>2 DEF UseFails, UseTimesOut, UseEnds
  <2> QED
    BY <2>1, GoesNowhere
<1> QED
  BY <1>1, <1>2

\* The steps of a tool that load no thread and enter no binding.
LEMMA AskArrives ==
    ASSUME CInv, CInv', FInv, NEW t \in Tools,
           \/ Request(t) \/ Admitted(t)
           \/ EnsureCapacity(t) \/ SyncBefore(t) \/ SyncAfter(t) \/ Lookup(t)
           \/ TakeSlot(t) \/ NoSlot(t) \/ ThreadError(t) \/ Undo(t) \/ Replaced(t)
           \/ UseStep(t),
           Shrinks, UsedStays, HiddenOnes', GoneStay, HiddenStay
    PROVE  Arrives(t)
<1>1. CASE Open(t)
  BY <1>1, GoesToAsk, IdleIsLocals DEF Open, Allocates, Asking
<1>2. CASE Acquire(t)
  BY <1>2, AcquireArrives
<1>3. ASSUME NEW th \in 1 .. threads, Resume(t, th)
      PROVE  Arrives(t)
  BY <1>3, ResumeArrives
<1>4. ASSUME NEW r \in Runtimes, NEW kind \in Kinds, Use(t, r, kind)
      PROVE  Arrives(t)
  BY <1>4, GoesNowhere DEF Use
<1>5. CASE EnsureCapacity(t)
  <2>1. Together("capacity", "slot") /\ pc[t] = "capacity"
    BY <1>5 DEF EnsureCapacity, Together, Asking
  <2>2. Go(t, "slot", loc[t]) \/ Leaves(t)
    BY <1>5 DEF EnsureCapacity
  <2> QED
    BY <2>1, <2>2, GoesOn, LeavesNowhere
<1>6. CASE SyncBefore(t)
  <2>1. Together("sync1", "lookup")
    BY DEF Together, Asking
  <2> QED
    BY <1>6, <2>1, GoesOn DEF SyncBefore
<1>7. CASE SyncAfter(t)
  <2>1. Together("sync2", "commit")
    BY DEF Together
  <2> QED
    BY <1>7, <2>1, GoesOn DEF SyncAfter
<1>8. CASE Lookup(t)
  BY <1>8, LookupArrives
<1>9. CASE TakeSlot(t)
  <2>1. Together("slot", "request")
    BY DEF Together, Asking
  <2> QED
    BY <1>9, <2>1, GoesOn DEF TakeSlot
<1>10. CASE NoSlot(t) \/ ThreadError(t) \/ Undo(t) \/ Replaced(t)
  BY <1>10, LeavesNowhere DEF NoSlot, ThreadError, Undo, Replaced, ReleaseThen
<1>11. CASE Wait(t) \/ Refused(t)
  BY <1>11, GoesNowhere, LeavesNowhere DEF Wait, Refused
<1>12. ASSUME NEW r, NEW release, Close(t, r, release)
       PROVE  Arrives(t)
  BY <1>12, LeavesNowhere DEF Close
<1>13. ASSUME NEW suppress, List(t, suppress)
       PROVE  Arrives(t)
  BY <1>13, LeavesNowhere DEF List
<1>14. CASE UseStep(t)
  <2>1. CASE UseSlot(t)
    BY <2>1, UseSlotArrives
  <2>2. CASE UseRefused(t) \/ TouchAfter(t)
    BY <2>2, LeavesNowhere DEF UseRefused, TouchAfter
  <2>3. CASE Send(t)
    BY <2>3, SendArrives
  <2>4. CASE UseAnswered(t) \/ UseFails(t) \/ UseTimesOut(t)
    BY <2>4, UseEndsArrives
  <2> QED
    BY <1>14, <2>1, <2>2, <2>3, <2>4 DEF UseStep
<1> QED
  BY <1>1, <1>2, <1>3, <1>4, <1>5, <1>6, <1>7, <1>8, <1>9, <1>10, <1>11, <1>12, <1>13, <1>14
     DEF Request, Admitted

\* Steps that no tool takes, or that end its operation at once.
LEMMA PassingFollows ==
    ASSUME CInv, CInv', FInv, UNCHANGED <<pc, loc>>, Spares, Tame
    PROVE  FInv'
<1>1. HiddenOnes' /\ GoneStay /\ HiddenStay
  BY TameHides DEF FInv
<1> QED
  BY <1>1, FollowedIdles DEF Spares, Tame

Answered == \A t \in Tools : pc[t] = "upstream" => pc'[t] # "touch" \/ UseAnswered(t)

LEMMA OthersAnswered ==
    ASSUME NEW t \in Tools, Arrives(t)
    PROVE  Answered
BY DEF Arrives, Answered, Moves

LEMMA NextFollows ==
    ASSUME CInv, FInv, [Next]_vars
    PROVE  FInv' /\ Answered
<1>0. CInv'
  BY NextCInv
<1>1. ASSUME NEW t \in Tools,
             \/ Request(t) \/ Admitted(t) \/ AllocationStep(t) \/ AllocationFault(t)
             \/ UseStep(t)
      PROVE  FInv' /\ Answered
  <2>1. CASE StartThread(t) \/ ResumeThread(t) \/ MismatchedThread(t) \/ ThreadTimeout(t)
    <3>1. Shrinks /\ HiddenOnes' /\ GoneStay /\ HiddenStay /\ Arrives(t)
      BY <2>1, StartArrives, ResumeThreadArrives, FaultArrives
    <3>2. UsedStays
      BY NextLeaves DEF Spares
    <3> QED
      BY <1>0, <3>1, <3>2, FollowedMoves, OthersAnswered DEF Arrives
  <2>2. CASE Commit(t)
    <3>1. Arrives(t) /\ HiddenOnes' /\ GoneStay /\ HiddenStay
      BY <2>2, CommitArrives, CommitHides
    <3>2. ASSUME NEW u \in Tools, u # t
          PROVE  Followed(u)'
      <4>1. pc'[u] = pc[u] /\ loc'[u] = loc[u]
        BY <3>1, <3>2 DEF Arrives, Moves
      <4>2. pc[u] \notin Asking \cup {"sync2", "commit"}
        BY <2>2, <3>2, CInvFacts DEF LockHeld, AllocPlaces, Asking, Commit
      <4>3. ASSUME pc[u] \in Registered
            PROVE  Followed(u)'
        <5>1. Followed(u)
          BY DEF FInv
        <5>2. loc[u].rt \in DOMAIN bind /\ (bind[loc[u].rt].th = loc[u].th \/ Gone(loc[u].th))
          BY <4>3, <5>1 DEF Followed
        <5>3. loc[u].rt \in DOMAIN bind'
          <6>1. loc[u].rt \in Runtimes
            BY <5>2, CInvFacts DEF Soundly, AreBindings
          <6>2. active[loc[u].rt] > 0
            BY <4>3, <6>1, RegisteredCounts
          <6> QED
            BY <5>2, <6>2, NextLeaves DEF Spares, UsedStays
        <5>4. bind'[loc[u].rt].th = bind[loc[u].rt].th
              \/ (bind'[loc[u].rt].th = loc[t].th /\ loc[u].rt = loc[t].rt)
          BY <2>2, <5>2, <5>3, CommitLeaves
        <5>5. bind'[loc[u].rt].th = loc[u].th \/ Gone(loc[u].th)
          <6>1. CASE bind'[loc[u].rt].th = bind[loc[u].rt].th
            BY <5>2, <6>1
          <6>2. CASE bind'[loc[u].rt].th = loc[t].th /\ loc[u].rt = loc[t].rt
            <7>1. Followed(t) /\ pc[t] = "commit"
              BY <2>2 DEF FInv, Commit
            <7>2. loc[t].rt # None
              BY <5>2, <6>2, CInvFacts DEF Soundly, AreBindings, Runtimes, None
            <7>3. \/ bind[loc[t].rt].th = loc[t].th
                  \/ bind[loc[t].rt].th = loc[t].prev /\ Gone(loc[t].prev)
              BY <7>1, <7>2 DEF Followed
            <7> QED
              BY <5>2, <6>2, <7>3
          <6> QED
            BY <5>4, <6>1, <6>2
        <5>6. ASSUME Gone(loc[u].th)
              PROVE  Gone(loc[u].th)'
          <6>1. PICK th \in Threads : th = loc[u].th
            BY <5>6, HarnessAssumption DEF Gone, Threads
          <6>2. Gone(th)' /\ loc'[u].th = th
            BY <3>1, <4>1, <5>6, <6>1 DEF GoneStay
          <6> QED
            BY <6>2 DEF Gone, Hidden
        <5>7. loc'[u].rt \in DOMAIN bind'
              /\ (bind'[loc'[u].rt].th = loc'[u].th \/ Gone(loc[u].th)')
          BY <4>1, <5>3, <5>5, <5>6
        <5> QED
          BY <4>1, <4>2, <5>7 DEF Followed
      <4> QED
        BY <4>1, <4>2, <4>3 DEF Followed
    <3> QED
      BY <3>1, <3>2, OthersAnswered DEF FInv, Arrives
  <2>3. CASE \/ Request(t) \/ Admitted(t)
             \/ EnsureCapacity(t) \/ SyncBefore(t) \/ SyncAfter(t) \/ Lookup(t)
             \/ TakeSlot(t) \/ NoSlot(t) \/ ThreadError(t) \/ Undo(t) \/ Replaced(t)
             \/ UseStep(t)
    <3>1. Spares /\ Tame
      BY <2>3, AsksLeave, SectionsLeave
    <3>2. Shrinks /\ UsedStays /\ HiddenOnes' /\ GoneStay /\ HiddenStay
      BY <3>1, TameHides DEF FInv, Spares, Tame
    <3>3. Arrives(t)
      BY <1>0, <2>3, <3>2, AskArrives
    <3> QED
      BY <1>0, <3>2, <3>3, FollowedMoves, OthersAnswered DEF Arrives
  <2> QED
    BY <1>1, <2>1, <2>2, <2>3 DEF AllocationStep, AllocationFault
<1>2. ASSUME NEW x \in late, LateAnswer(x)
      PROVE  FInv' /\ Answered
  <2>1. HiddenOnes' /\ GoneStay /\ HiddenStay
    BY <1>2, LateAnswerHides DEF FInv
  <2>2. UNCHANGED <<pc, loc>> /\ Shrinks
    BY <1>2 DEF LateAnswer, toolVars, bindVars, Shrinks
  <2>3. UsedStays
    BY NextLeaves DEF Spares
  <2> QED
    BY <1>0, <2>1, <2>2, <2>3, FollowedIdles DEF Answered
<1>3. CASE Restart
  <2>1. HiddenOnes'
    BY <1>3, RestartLeaves, TameHides DEF FInv
  <2>2. \A t \in Tools : pc'[t] = "idle"
    BY <1>3 DEF Restart
  <2> QED
    BY <2>1, <2>2, FollowedNowhere DEF FInv, Answered
<1>4. CASE \/ \E r \in Runtimes : Status(r) \/ Ages(r)
           \/ \E x \in late : LateError(x)
           \/ \E x \in stuck : StuckAnswer(x)
           \/ Collect
           \/ Claim \/ Dies \/ UNCHANGED vars
  <2>1. Spares /\ Tame
    BY <1>4, PassingLeaves
  <2>2. UNCHANGED <<pc, loc>>
    BY <1>4 DEF Status, Ages, LateError, StuckAnswer, Collect, Claim, Dies, vars, toolVars
  <2> QED
    BY <1>0, <2>1, <2>2, PassingFollows DEF Answered
<1> QED
  BY <1>1, <1>2, <1>3, <1>4 DEF Next

\* A tool call that is answered was made of its runtime's present thread: its binding
\* is not dropped while it waits, and if it gets another thread meanwhile, then the
\* one that was called is gone and cannot answer.
THEOREM AnswersAreOfBinding == Spec => AnswerIsOfBinding
<1>1. Init => FInv
  BY DEF Init, FInv, HiddenOnes, Hidden, Followed, Asking, Registered
<1>2. CInv /\ FInv /\ [Next]_vars => FInv'
  BY NextFollows
<1>3. CInv /\ FInv /\ [Next]_vars =>
          [\A t \in Tools :
              pc[t] = "upstream" /\ pc'[t] = "touch" /\ loc[t].kind # "exec"
              => loc[t].rt \in DOMAIN bind /\ bind[loc[t].rt].th = loc[t].th]_vars
  <2> SUFFICES ASSUME CInv, FInv, [Next]_vars, NEW t \in Tools,
                      pc[t] = "upstream", pc'[t] = "touch", loc[t].kind # "exec"
               PROVE  loc[t].rt \in DOMAIN bind /\ bind[loc[t].rt].th = loc[t].th
    OBVIOUS
  <2>1. UseAnswered(t)
    BY NextFollows DEF Answered
  <2>2. loc[t].th \in loaded
    BY <2>1 DEF UseAnswered
  <2> QED
    BY <2>2 DEF FInv, Followed, Registered, Gone
<1> QED
  BY <1>1, <1>2, <1>3, CodexInvariant, PTL DEF Spec, AnswerIsOfBinding

===============================================================================
