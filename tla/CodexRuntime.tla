----------------------------- MODULE CodexRuntime -----------------------------
(***************************************************************************)
(* The persistent Codex runtimes: the manager with its bindings, its file  *)
(* and its two locks, and what the Codex App Server and the adapter's      *)
(* reader thread do meanwhile.                                             *)
(*                                                                         *)
(* _allocation_lock is held over a whole open, acquire, resume, close and  *)
(* collection (alloc). _lock is held over single sections, each of them    *)
(* one step here: what a section waits for inside, the release of threads, *)
(* changes nothing that another thread reads before the section ends.      *)
(* Requests that start, resume or use a thread are made without _lock and  *)
(* are steps of their own.                                                 *)
(***************************************************************************)
EXTENDS Naturals, FiniteSets

CONSTANTS
    Tools,          \* threads of the server that run runtime tools
    MaxRuntimes,    \* max_runtimes
    MaxSlots,       \* max_concurrency
    Kinds,          \* the requests that are made of a runtime
    Faults,         \* what may go wrong in this instance
    Harness,        \* the threads that never ran a turn and have no rollout
    ThreadBound,    \* bound: Codex threads started
    RuntimeBound,   \* bound: runtime ids drawn
    GenBound        \* bound: connection generations

\* "die"      the App Server process may end, or fail to start
\* "timeout"  an answer may come after the request has timed out
\* "error"    a request may be answered by an error
\* "mismatch" a thread may come back with another directory
\* "release"  the release of a thread may fail
\* "save"     the file may not be writable
\* "restart"  the MCP server may restart
AllFaults == {"die", "timeout", "error", "mismatch", "release", "save", "restart"}

\* mcp_call, mcp_inventory and exec_command. The first two name the thread, and
\* only the first is kept in mind when it times out.
AllKinds == {"call", "list", "exec"}

ASSUME ToolsAssumption  == IsFiniteSet(Tools) /\ "nobody" \notin Tools
ASSUME LimitsAssumption == /\ {MaxRuntimes, MaxSlots, GenBound} \subseteq Nat \ {0}
                           /\ {ThreadBound, RuntimeBound} \subseteq Nat
ASSUME CodexFaultsAssumption == Faults \subseteq AllFaults
ASSUME HarnessAssumption == Harness \subseteq 1 .. ThreadBound
ASSUME KindsAssumption   == Kinds \subseteq AllKinds

VARIABLES
    bind,       \* _bindings: runtime id -> thread, status, name
    disk,       \* the file: runtime id -> thread, name
    older,      \* the bindings by last_used_at: <<q, r>>, q was used before r
    idle,       \* the bindings not used for idle_ttl_seconds
    live,       \* _live_thread_ids
    pendrel,    \* _pending_release
    obs,        \* _observed_connection_generation
    active,     \* _active_requests
    slots,      \* taken slots of the semaphore
    alloc,      \* owner of _allocation_lock
    pc, loc,    \* per tool: its place, its local variables
    up, gen,    \* the App Server process is up; connection_generation
    loaded,     \* the threads loaded in the App Server process
    unclaimed,  \* started, answered, and not yet in _claimed_threads
    claimed,    \* _claimed_threads of this process
    aband,      \* _abandoned_threads of this process
    late,       \* abandoned start and resume requests still unanswered
    stuck,      \* abandoned tool calls still unanswered
    threads, runtimes   \* how many thread and runtime ids have been drawn

bindVars   == <<bind, disk, older, idle, live, pendrel, obs>>
serverVars == <<up, gen, loaded, unclaimed, claimed, aband, late, stuck>>
toolVars   == <<active, slots, alloc, pc, loc>>
drawn      == <<threads, runtimes>>
vars       == <<bindVars, serverVars, toolVars, drawn>>

Threads  == 1 .. ThreadBound
Runtimes == 1 .. RuntimeBound
None     == 0
Nobody   == "nobody"
Idle     == [rt |-> None, th |-> None, prev |-> None, reused |-> FALSE,
             name |-> FALSE, kind |-> "none", gen |-> 0]

Init ==
    /\ bind = << >> /\ disk = << >> /\ older = {} /\ idle = {}
    /\ live = {} /\ pendrel = {} /\ obs = 0
    /\ active = [r \in Runtimes |-> 0] /\ slots = 0 /\ alloc = Nobody
    /\ pc = [t \in Tools |-> "idle"] /\ loc = [t \in Tools |-> Idle]
    /\ up = FALSE /\ gen = 0 /\ loaded = {}
    /\ unclaimed = {} /\ claimed = {} /\ aband = {} /\ late = {} /\ stuck = {}
    /\ threads = 0 /\ runtimes = 0

-------------------------------------------------------------------------------
\* What a section under _lock reads and changes, as one value.

World == [bind |-> bind, disk |-> disk, older |-> older, idle |-> idle,
          live |-> live, pendrel |-> pendrel, obs |-> obs,
          loaded |-> loaded, claimed |-> claimed, aband |-> aband]

\* Answers are read one after another: a thread that was answered for is claimed
\* before the answer to its release, or to another's, is seen.
Reads == unclaimed = {}

Become(w) ==
    /\ bind' = w.bind /\ disk' = w.disk /\ older' = w.older /\ idle' = w.idle
    /\ live' = w.live /\ pendrel' = w.pendrel /\ obs' = w.obs
    /\ loaded' = w.loaded
    /\ IF w.loaded = loaded
       THEN claimed' = w.claimed /\ aband' = w.aband /\ UNCHANGED unclaimed
       ELSE /\ claimed' = w.claimed \cup (unclaimed \cap w.loaded)
            /\ aband' = w.aband \ unclaimed
            /\ unclaimed' = {}
    /\ UNCHANGED <<up, gen, late, stuck>>

Ok(w)     == [w |-> w, ok |-> TRUE]
Raised(w) == [w |-> w, ok |-> FALSE]

Fault(f, results) == IF f \in Faults THEN results ELSE {}

\* _sync_connection_generation
Synced(w) == IF w.obs = gen THEN w
             ELSE [w EXCEPT !.live = {}, !.pendrel = {}, !.obs = gen]

Bound(w) == {w.bind[r].th : r \in DOMAIN w.bind}
Owned(w) == w.live \cup w.pendrel \cup w.claimed \cup w.aband

\* has_pending_operations: unanswered requests that name the thread.
PendingOn(th) ==
    \/ \E t \in Tools : <<t, th>> \in stuck
    \/ \E x \in late : x.resume /\ x.th = th
    \/ \E t \in Tools : /\ pc[t] = "upstream" /\ loc[t].kind # "exec"
                        /\ loc[t].th = th /\ loc[t].gen = gen /\ up

\* Mutants: only requests that still run here, only requests that the App Server
\* has, count as use.
UsingRegistered(w, th) ==
    \E r \in DOMAIN w.bind : w.bind[r].th = th /\ active[r] > 0
UsingPending(w, th) == PendingOn(th)

\* _thread_in_use_locked
Using(w, th) ==
    \/ \E r \in DOMAIN w.bind : w.bind[r].th = th /\ active[r] > 0
    \/ PendingOn(th)

Detached(b, S) == [r \in DOMAIN b |-> IF b[r].th \in S
                                      THEN [b[r] EXCEPT !.status = "detached"]
                                      ELSE b[r]]

\* release_thread of the adapter, for the threads of S.
Unloaded(w, S) == [w EXCEPT !.loaded = @ \ S, !.claimed = @ \ S, !.aband = @ \ S]

\* _release_thread_locked for owned threads, of which those in F fail.
Release(w, S, F) ==
    LET v == Synced(w)
    IN  Unloaded([v EXCEPT !.live = @ \ S, !.pendrel = (@ \ S) \cup F,
                           !.bind = Detached(@, S)],
                 S \ F)

MayFail(S) == IF up /\ "release" \in Faults THEN SUBSET S ELSE {{}}

\* A persisted binding alone is not ownership of a thread.
ReleaseOne(w, th) ==
    LET v == Synced(w)
    IN  IF th \notin Owned(v) THEN {Ok(v)}
        ELSE IF Using(v, th) THEN {Raised(v)}
        ELSE {IF F = {} THEN Ok(Release(v, {th}, F))
              ELSE Raised(Release(v, {th}, F)) : F \in MayFail({th})}

\* The order of last_used_at: of the bindings that are left, with r used last.
Among(R, S) == {p \in R : p[1] \in S /\ p[2] \in S}
UsedNow(w, r) ==
    [w EXCEPT !.idle = @ \ {r},
              !.older = Among(@, DOMAIN w.bind \ {r}) \cup ((DOMAIN w.bind \ {r}) \X {r})]

Stored(b) == [r \in DOMAIN b |-> [th |-> b[r].th, name |-> b[r].name]]

\* Mutant: the memory is changed before the file.
SavedMemoryFirst(w, b) ==
    LET v == [w EXCEPT !.bind = b,
                       !.older = Among(@, DOMAIN b),
                       !.idle = @ \cap DOMAIN b]
    IN  {Ok([v EXCEPT !.disk = Stored(b)])} \cup Fault("save", {Raised(v)})

\* _save_bindings: the memory follows the file.
Saved(w, b) ==
    {Ok([w EXCEPT !.bind = b, !.disk = Stored(b),
                  !.older = Among(@, DOMAIN b),
                  !.idle = @ \cap DOMAIN b])}
    \cup Fault("save", {Raised(w)})

Without(b, R) == [r \in DOMAIN b \ R |-> b[r]]

\* The threads of the bindings R that are the manager's to release.
Ours(w, R) == {w.bind[r].th : r \in R} \cap Owned(w)

\* _collect_expired_idle_locked: a binding goes when its thread was released.
Collected(w) ==
    LET expired == {r \in w.idle : ~Using(w, w.bind[r].th)}
        v       == Synced(w)
        After(F) == LET gone == {r \in expired : v.bind[r].th \notin F}
                        x == Release(v, Ours(v, expired), F)
                    IN  IF gone = {} THEN {Ok(x)}
                        ELSE Saved(x, Without(x.bind, gone))
    IN  IF expired = {} THEN {Ok(w)}
        ELSE UNION {After(F) : F \in MayFail(Ours(v, expired))}

\* The k bindings of S that were used least recently.
First(w, S, k) == {V \in SUBSET S : /\ Cardinality(V) = k
                                   /\ \A q \in V, r \in S \ V : <<q, r>> \in w.older}

\* The runtimes there are with one more, and those that may go for it.
Needed(w)    == Cardinality(DOMAIN w.bind)
                + Cardinality((w.live \cup w.pendrel) \ Bound(w)) + 1
Evictable(w) == {r \in DOMAIN w.bind : /\ w.bind[r].status = "detached"
                                       /\ ~Using(w, w.bind[r].th)}

Evict(w, V) ==
    LET x == Release(w, Ours(w, V), {}) IN Saved(x, Without(x.bind, V))

\* The release of the last of the victims V fails.
EvictFails(w, V) ==
    {Raised(Release(w, Ours(w, V), {w.bind[r].th})) :
        r \in {r \in V : /\ {w.bind[r].th} \in MayFail(Ours(w, V))
                         /\ \A q \in V \ {r} : <<q, r>> \in w.older}}

Victims(w, k) == First(w, Evictable(w), k)
Evictions(w, k) == UNION {Evict(Synced(w), V) : V \in Victims(w, k)}
FailedEvictions(w, k) ==
    UNION {EvictFails(Synced(w), V) : V \in UNION {Victims(w, j) : j \in 1 .. k}}

\* _ensure_capacity_locked: expired bindings first, then the least recently
\* used of those that are detached and not in use.
Evicted(w) ==
    LET over == Needed(w) - MaxRuntimes
    IN  IF Needed(w) <= MaxRuntimes THEN {Ok(w)}
        ELSE IF Cardinality(Evictable(w)) < over THEN {Raised(w)}
        ELSE Evictions(w, over) \cup FailedEvictions(w, over)

Capacity(w) == UNION {IF x.ok THEN Evicted(x.w) ELSE {x} : x \in Collected(w)}

\* _touch: last_used_at, status ready, and a save whose failure is only noted.
Touched(w, r) ==
    IF r \notin DOMAIN w.bind THEN {w}
    ELSE LET b == [w.bind EXCEPT ![r].status = "ready"]
             v == UsedNow([w EXCEPT !.bind = b], r)
         IN  {[v EXCEPT !.disk = Stored(b)]} \cup Fault("save", {v})

\* _collect_expired_idle: abandoned threads, threads without a binding, expired
\* bindings. The first error ends the first two, and the third unless errors are
\* suppressed.
CleanedUp(w) ==
    LET free == {th \in w.aband : ~PendingOn(th)}
    IN  (IF free = w.aband THEN {Ok(Unloaded(w, w.aband))} ELSE {})
        \cup (IF free # w.aband \/ (up /\ "release" \in Faults /\ w.aband # {})
              THEN {Raised(Unloaded(w, S)) : S \in SUBSET free \ {w.aband}}
              ELSE {})

Swept(w) ==
    LET unbound == (w.live \cup w.pendrel) \ Bound(w)
        free    == {th \in unbound : ~Using(w, th)}
    IN  (IF free = unbound THEN {Ok(Release(w, unbound, {}))}
         ELSE {Raised(Release(w, S, {})) : S \in SUBSET free})
        \cup UNION {{Raised(Release(w, S, {th})) : th \in {x \in S : {x} \in MayFail(free)}} :
                       S \in SUBSET free}

\* Mutant: abandoned threads are not cleaned up.
CollectedBound(w, suppress) ==
    UNION {IF y.ok \/ suppress THEN Collected(y.w) ELSE {y} : y \in Swept(Synced(w))}

CollectedAll(w, suppress) ==
    UNION {IF y.ok \/ suppress THEN Collected(y.w) ELSE {y} :
             y \in UNION {IF x.ok THEN Swept(x.w) ELSE {x} :
                             x \in CleanedUp(Synced(w))}}

-------------------------------------------------------------------------------
\* Steps of the tools.

Go(t, place, locals) ==
    /\ pc' = [pc EXCEPT ![t] = place] /\ loc' = [loc EXCEPT ![t] = locals]

\* An operation that allocates, releases or collects waits for _allocation_lock.
\* It reads nothing before it has the lock: what it is asked is chosen then.
Wait(t) ==
    /\ pc[t] = "idle" /\ Go(t, "lock", Idle)
    /\ UNCHANGED <<active, slots, alloc, bindVars, serverVars, drawn>>

\* The lock is free, and t is the one that gets it.
Given(t) == pc[t] = "lock" /\ alloc = Nobody

Allocates(t, place, locals) ==
    /\ Given(t) /\ alloc' = t
    /\ Go(t, place, locals)
    /\ UNCHANGED <<active, slots>>

\* Leaves the operation, and _allocation_lock if it was held.
Leaves(t) ==
    /\ Go(t, "idle", Idle)
    /\ alloc' = IF alloc = t THEN Nobody ELSE alloc

\* A thread without a rollout cannot be resumed once it is not loaded.
Lost(th) == th \in Harness \ loaded

\* Bounds.
MayLose(th) == th \in Harness => threads < ThreadBound
Room        == threads < ThreadBound /\ runtimes < RuntimeBound

Open(t) ==
    /\ Room /\ Allocates(t, "capacity", Idle)
    /\ UNCHANGED <<bindVars, serverVars, drawn>>

\* Mutant: acquire_runtime looks for the name outside _allocation_lock.
AcquireUnlocked(t) ==
    /\ pc[t] = "lock"
    /\ \E x \in CollectedAll(World, FALSE) :
          /\ x.ok /\ Become(x.w)
          /\ alloc' = t
          /\ \A r \in DOMAIN x.w.bind : ~x.w.bind[r].name
          /\ Room /\ Go(t, "capacity", [Idle EXCEPT !.name = TRUE])
    /\ UNCHANGED <<active, slots, drawn>>

\* acquire_runtime: the most recent binding of the name, or a new one.
Named(w) == {r \in DOMAIN w.bind : w.bind[r].name}
Acquire(t) ==
    /\ Given(t)
    /\ \E x \in CollectedAll(World, FALSE) :
          /\ Become(x.w)
          /\ IF ~x.ok THEN Leaves(t)
             ELSE /\ alloc' = t
                  /\ IF Named(x.w) = {}
                     THEN Room /\ Go(t, "capacity", [Idle EXCEPT !.name = TRUE])
                     ELSE \E r \in Named(x.w) :
                            /\ MayLose(x.w.bind[r].th)
                            /\ Go(t, "sync1", [Idle EXCEPT !.rt = r, !.name = TRUE,
                                               !.th = x.w.bind[r].th])
    /\ UNCHANGED <<active, slots, drawn>>

\* resume_runtime of a binding, or of a thread that may have none.
Resume(t, th) ==
    /\ th \in Bound(World) \/ runtimes < RuntimeBound
    /\ MayLose(th)
    /\ \/ /\ th \notin Bound(World)
          /\ Allocates(t, "sync1", [Idle EXCEPT !.th = th])
       \/ \E r \in DOMAIN bind :
             /\ bind[r].th = th
             /\ Allocates(t, "sync1", [Idle EXCEPT !.th = th, !.rt = r,
                                                  !.name = bind[r].name])
    /\ UNCHANGED <<bindVars, serverVars, drawn>>

EnsureCapacity(t) ==
    /\ pc[t] = "capacity"
    /\ \E x \in Capacity(World) :
          /\ Become(x.w)
          /\ IF x.ok THEN Go(t, "slot", loc[t]) /\ UNCHANGED alloc ELSE Leaves(t)
    /\ UNCHANGED <<active, slots, drawn>>

TakeSlot(t) ==
    /\ pc[t] = "slot" /\ slots < MaxSlots /\ slots' = slots + 1
    /\ Go(t, "request", loc[t])
    /\ UNCHANGED <<active, alloc, bindVars, serverVars, drawn>>

\* Mutant: a slot is awaited without a timeout.
NoSlotEver(t) == pc[t] = "slot" /\ FALSE /\ UNCHANGED vars

NoSlot(t) ==
    /\ pc[t] = "slot" /\ slots = MaxSlots /\ Leaves(t)
    /\ UNCHANGED <<active, slots, bindVars, serverVars, drawn>>

\* start() of the adapter: a new process when there is none.
Starts ==
    /\ up' = TRUE /\ gen' = IF up THEN gen ELSE gen + 1
    /\ UNCHANGED <<bindVars, aband, late, stuck>>

\* There is no process and none can be started, or it ends while it starts.
StartFails == "die" \in Faults /\ ~up /\ UNCHANGED <<bindVars, serverVars>>

\* thread/start, for a new runtime or for a binding without a rollout.
WantsNew(t) == loc[t].th = None \/ Lost(loc[t].th)

StartThread(t) ==
    /\ pc[t] = "request" /\ Reads /\ WantsNew(t)
    /\ Starts /\ UNCHANGED claimed
    /\ threads' = threads + 1
    /\ loaded' = loaded \cup {threads + 1} /\ unclaimed' = {threads + 1}
    /\ Go(t, "sync2", [loc[t] EXCEPT !.th = threads + 1, !.prev = loc[t].th])
    /\ slots' = slots - 1
    /\ UNCHANGED <<active, alloc, runtimes>>

ResumeThread(t) ==
    /\ pc[t] = "request" /\ Reads /\ ~WantsNew(t)
    /\ Starts /\ UNCHANGED claimed
    /\ loaded' = loaded \cup {loc[t].th} /\ unclaimed' = {loc[t].th}
    /\ Go(t, "sync2", loc[t]) /\ slots' = slots - 1
    /\ UNCHANGED <<active, alloc, drawn>>

\* The thread comes back with another directory: an error, and no release.
MismatchedThread(t) ==
    /\ "mismatch" \in Faults
    /\ pc[t] = "request" /\ Reads
    /\ Starts /\ UNCHANGED claimed
    /\ threads' = IF WantsNew(t) THEN threads + 1 ELSE threads
    /\ unclaimed' = {IF WantsNew(t) THEN threads + 1 ELSE loc[t].th}
    /\ loaded' = loaded \cup unclaimed'
    /\ Leaves(t) /\ slots' = slots - 1
    /\ UNCHANGED <<active, runtimes>>

ThreadError(t) ==
    /\ pc[t] = "request"
    /\ \/ "error" \in Faults /\ Starts /\ UNCHANGED <<loaded, unclaimed, claimed>>
       \/ StartFails
    /\ Leaves(t) /\ slots' = slots - 1
    /\ UNCHANGED <<active, drawn>>

\* The wait ends without an answer: the request is abandoned. For a thread without
\* a rollout it is that of the resume, or that of the start which follows.
ThreadTimeout(t) ==
    /\ "timeout" \in Faults /\ pc[t] = "request"
    /\ up' = TRUE /\ gen' = IF up THEN gen ELSE gen + 1
    /\ \/ /\ WantsNew(t) /\ threads' = threads + 1
          /\ late' = late \cup {[th |-> threads + 1, resume |-> FALSE]}
       \/ /\ loc[t].th # None /\ UNCHANGED threads
          /\ late' = late \cup {[th |-> loc[t].th, resume |-> TRUE]}
    /\ Leaves(t) /\ slots' = slots - 1
    /\ UNCHANGED <<bindVars, loaded, unclaimed, claimed, aband, stuck, active,
                   runtimes>>

\* _sync_connection_generation, first before a thread is looked up and then
\* after it was started or resumed.
SyncBefore(t) ==
    /\ pc[t] = "sync1" /\ Become(Synced(World))
    /\ Go(t, "lookup", loc[t])
    /\ UNCHANGED <<active, slots, alloc, drawn>>

SyncAfter(t) ==
    /\ pc[t] = "sync2" /\ Become(Synced(World))
    /\ Go(t, "commit", loc[t])
    /\ UNCHANGED <<active, slots, alloc, drawn>>

\* A thread that waits for its release is released before it is resumed; one
\* that is live on this connection is not resumed at all.
Lookup(t) ==
    LET th == loc[t].th
    IN  /\ pc[t] = "lookup"
        /\ \E x \in IF th \in pendrel THEN ReleaseOne(World, th) ELSE {Ok(World)} :
              /\ Become(x.w)
              /\ IF ~x.ok THEN Leaves(t)
                 ELSE LET reused == loc[t].rt # None /\ up /\ th \in x.w.live
                      IN  /\ Go(t, IF reused THEN "sync2" ELSE "slot",
                                   [loc[t] EXCEPT !.reused = reused])
                          /\ UNCHANGED alloc
        /\ UNCHANGED <<active, slots, drawn>>

\* The new or renewed binding is saved. A new one needs room.
Entered(w, r, th, name) ==
    LET b == [q \in DOMAIN w.bind \cup {r} |->
                 IF q = r THEN [th |-> th, status |-> "ready", name |-> name]
                 ELSE w.bind[q]]
        v == [w EXCEPT !.live = @ \cup {th}]
    IN  {IF x.ok THEN Ok(UsedNow(x.w, r)) ELSE x : x \in Saved(v, b)}

\* Mutant: the capacity is not looked at again under _lock.
CommitUnchecked(t) ==
    LET new == loc[t].rt = None
        r   == IF new THEN runtimes + 1 ELSE loc[t].rt
    IN  /\ pc[t] = "commit"
        /\ \E x \in Entered(World, r, loc[t].th, loc[t].name) : x.ok /\ Become(x.w)
        /\ runtimes' = IF new THEN r ELSE runtimes
        /\ Leaves(t)
        /\ UNCHANGED <<active, slots, threads>>

Commit(t) ==
    LET new == loc[t].rt = None
        r   == IF new THEN runtimes + 1 ELSE loc[t].rt
        Enter(x) == IF ~x.ok THEN {x}
                    ELSE Entered(x.w, r, loc[t].th, loc[t].name)
    IN  /\ pc[t] = "commit"
        /\ \E x \in UNION {Enter(y) : y \in IF new THEN Capacity(World)
                                            ELSE {Ok(World)}} :
              /\ Become(x.w)
              /\ IF x.ok
                 THEN /\ runtimes' = IF new THEN r ELSE runtimes
                      /\ IF loc[t].prev # None
                         THEN Go(t, "replaced", loc[t]) /\ UNCHANGED alloc
                         ELSE Leaves(t)
                 ELSE /\ UNCHANGED runtimes
                      /\ IF loc[t].reused THEN Leaves(t)
                         ELSE Go(t, "undo", loc[t]) /\ UNCHANGED alloc
        /\ UNCHANGED <<active, slots, threads>>

\* _compensate_allocation, and the release of a thread that was recreated.
ReleaseThen(t, place, th) ==
    /\ pc[t] = place
    /\ \E x \in ReleaseOne(World, th) : Become(x.w)
    /\ Leaves(t)
    /\ UNCHANGED <<active, slots, drawn>>

Undo(t)     == ReleaseThen(t, "undo", loc[t].th)
Replaced(t) == ReleaseThen(t, "replaced", loc[t].prev)

\* close_runtime, with or without release_resources.
Closed(w, r, release) ==
    UNION {IF x.ok
           THEN {IF y.ok THEN Ok(UsedNow(y.w, r)) ELSE y :
                    y \in Saved(x.w, [x.w.bind EXCEPT ![r].status = "detached"])}
           ELSE {x} :
              x \in IF release THEN ReleaseOne(w, w.bind[r].th) ELSE {Ok(w)}}

Close(t, r, release) ==
    /\ Given(t) /\ r \in DOMAIN bind /\ ~Using(World, bind[r].th)
    /\ \E x \in Closed(World, r, release) : Become(x.w)
    /\ Leaves(t)
    /\ UNCHANGED <<active, slots, drawn>>

\* codex_runtime_list and, with errors suppressed, server_info collect first.
List(t, suppress) ==
    /\ Given(t)
    /\ \E x \in CollectedAll(World, suppress) : Become(x.w)
    /\ Leaves(t)
    /\ UNCHANGED <<active, slots, drawn>>

\* The runtime is unknown or busy, or its metadata are others.
Refused(t) ==
    /\ Given(t) /\ Leaves(t)
    /\ UNCHANGED <<active, slots, bindVars, serverVars, drawn>>

\* The collector thread.
Collect ==
    /\ alloc = Nobody
    /\ \E x \in CollectedAll(World, TRUE) : Become(x.w)
    /\ UNCHANGED <<toolVars, drawn>>

\* _active_binding; runtime_status detaches in the same way.
Usable(r) == r \in DOMAIN bind /\ up /\ bind[r].status = "ready"
Detach(r) ==
    bind' = IF r \in DOMAIN bind /\ ~up
            THEN [bind EXCEPT ![r].status = "detached"] ELSE bind

Status(r) ==
    /\ r \in DOMAIN bind /\ ~up /\ bind[r].status = "ready" /\ Detach(r)
    /\ UNCHANGED <<disk, older, idle, live, pendrel, obs, serverVars, toolVars,
                   drawn>>

Use(t, r, kind) ==
    /\ pc[t] = "idle" /\ Usable(r)
    /\ Go(t, "useSlot", [Idle EXCEPT !.rt = r, !.th = bind[r].th, !.kind = kind])
    /\ UNCHANGED <<active, slots, alloc, bindVars, serverVars, drawn>>

\* The binding is read again when the slot is free.
SameBinding(t) == Usable(loc[t].rt) /\ bind[loc[t].rt].th = loc[t].th

\* Mutant: the binding is not read again.
UseSlotUnread(t) ==
    /\ pc[t] = "useSlot" /\ slots < MaxSlots
    /\ slots' = slots + 1
    /\ active' = [active EXCEPT ![loc[t].rt] = @ + 1]
    /\ Go(t, "send", loc[t])
    /\ UNCHANGED <<alloc, bindVars, serverVars, drawn>>

UseSlot(t) ==
    /\ pc[t] = "useSlot" /\ slots < MaxSlots /\ SameBinding(t)
    /\ slots' = slots + 1
    /\ active' = [active EXCEPT ![loc[t].rt] = @ + 1]
    /\ Go(t, "send", loc[t])
    /\ UNCHANGED <<alloc, bindVars, serverVars, drawn>>

UseRefused(t) ==
    /\ pc[t] = "useSlot"
    /\ \/ slots = MaxSlots /\ UNCHANGED bind
       \/ slots < MaxSlots /\ ~SameBinding(t) /\ Detach(loc[t].rt)
    /\ Leaves(t)
    /\ UNCHANGED <<active, slots, disk, older, idle, live, pendrel, obs,
                   serverVars, drawn>>

Send(t) ==
    /\ pc[t] = "send"
    /\ (Starts /\ UNCHANGED <<loaded, unclaimed, claimed>>) \/ StartFails
    /\ Go(t, "upstream", [loc[t] EXCEPT !.gen = gen'])
    /\ UNCHANGED <<active, slots, alloc, drawn>>

\* The answer, an error of a lost connection, or a timeout; the slot's finally.
Connected(t) == up /\ loc[t].gen = gen
UseEnds(t, place, left) ==
    /\ pc[t] = "upstream"
    /\ \E w \in Touched(World, loc[t].rt) :
          /\ bind' = w.bind /\ disk' = w.disk /\ older' = w.older
          /\ idle' = w.idle
    /\ stuck' = stuck \cup left
    /\ active' = [active EXCEPT ![loc[t].rt] = @ - 1] /\ slots' = slots - 1
    /\ Go(t, place, IF place = "idle" THEN Idle ELSE [Idle EXCEPT !.rt = loc[t].rt])
    /\ UNCHANGED <<live, pendrel, obs, up, gen, loaded, unclaimed, claimed,
                   aband, late, alloc, drawn>>

UseAnswered(t) == /\ Connected(t) /\ Reads
                  /\ loc[t].kind # "exec" => loc[t].th \in loaded
                  /\ UseEnds(t, "touch", {})
UseFails(t)    == /\ \/ ~Connected(t) \/ "error" \in Faults
                     \/ loc[t].kind # "exec" /\ loc[t].th \notin loaded
                  /\ UseEnds(t, "idle", {})
UseTimesOut(t) == /\ "timeout" \in Faults /\ Connected(t)
                  /\ UseEnds(t, "idle", IF loc[t].kind = "call"
                                        THEN {<<t, loc[t].th>>} ELSE {})

\* The second _touch of a successful request comes after the slot is given back.
TouchAfter(t) ==
    /\ pc[t] = "touch"
    /\ \E w \in Touched(World, loc[t].rt) : Become(w)
    /\ Leaves(t)
    /\ UNCHANGED <<active, slots, drawn>>

-------------------------------------------------------------------------------
\* The reader thread, the App Server and the server process.

Claim ==
    /\ unclaimed # {} /\ unclaimed' = {}
    /\ claimed' = claimed \cup unclaimed /\ aband' = aband \ unclaimed
    /\ UNCHANGED <<bindVars, toolVars, drawn, up, gen, loaded, late, stuck>>

\* _resolve_response of an abandoned request.
LateAnswer(x) ==
    /\ x \in late /\ Reads /\ late' = late \ {x}
    /\ x.resume => ~Lost(x.th)
    /\ loaded' = loaded \cup {x.th}
    /\ aband' = IF x.th \in claimed THEN aband ELSE aband \cup {x.th}
    /\ UNCHANGED <<bindVars, toolVars, drawn, up, gen, unclaimed, claimed, stuck>>

LateError(x) ==
    /\ x \in late /\ Reads /\ late' = late \ {x}
    /\ UNCHANGED <<bindVars, toolVars, drawn, up, gen, loaded, unclaimed,
                   claimed, aband, stuck>>

StuckAnswer(x) ==
    /\ x \in stuck /\ Reads /\ stuck' = stuck \ {x}
    /\ UNCHANGED <<bindVars, toolVars, drawn, up, gen, loaded, unclaimed,
                   claimed, aband, late>>

\* The process ends: its requests fail and what the adapter knew of it is gone.
Dies ==
    /\ "die" \in Faults /\ up /\ gen < GenBound /\ up' = FALSE
    /\ loaded' = {} /\ unclaimed' = {} /\ claimed' = {} /\ aband' = {}
    /\ late' = {} /\ stuck' = {}
    /\ UNCHANGED <<bindVars, toolVars, drawn, gen>>

Ages(r) ==
    /\ r \in DOMAIN bind /\ r \notin idle /\ idle' = idle \cup {r}
    /\ UNCHANGED <<bind, disk, older, live, pendrel, obs, serverVars, toolVars,
                   drawn>>

\* The MCP server starts again and loads the file. What last_used_at was when
\* saves failed before is not in it.
IsOrder(R, S) ==
    /\ R \subseteq S \X S
    /\ \A q, r \in S : q # r => (<<q, r>> \in R <=> <<r, q>> \notin R)
    /\ \A q, r, s \in S : <<q, r>> \in R /\ <<r, s>> \in R => <<q, s>> \in R
    /\ \A r \in S : <<r, r>> \notin R
Orders(S) == {R \in SUBSET (S \X S) : IsOrder(R, S)}

Restart ==
    /\ "restart" \in Faults
    /\ bind' = [r \in DOMAIN disk |-> [th |-> disk[r].th, name |-> disk[r].name,
                                       status |-> "detached"]]
    /\ live' = {} /\ pendrel' = {} /\ obs' = 0
    /\ active' = [r \in Runtimes |-> 0] /\ slots' = 0 /\ alloc' = Nobody
    /\ pc' = [t \in Tools |-> "idle"] /\ loc' = [t \in Tools |-> Idle]
    /\ up' = FALSE /\ gen' = 0 /\ loaded' = {} /\ unclaimed' = {}
    /\ claimed' = {} /\ aband' = {} /\ late' = {} /\ stuck' = {}
    /\ older' \in IF "save" \in Faults THEN Orders(DOMAIN disk) ELSE {older}
    /\ UNCHANGED <<disk, idle, drawn>>

AllocationStep(t) ==
    \/ EnsureCapacity(t) \/ SyncBefore(t) \/ Lookup(t) \/ TakeSlot(t) \/ NoSlot(t)
    \/ StartThread(t) \/ ResumeThread(t) \/ SyncAfter(t) \/ Commit(t) \/ Undo(t)
    \/ Replaced(t)

AllocationFault(t) == MismatchedThread(t) \/ ThreadError(t) \/ ThreadTimeout(t)

UseStep(t) ==
    \/ UseSlot(t) \/ UseRefused(t) \/ Send(t) \/ UseAnswered(t) \/ UseFails(t)
    \/ UseTimesOut(t) \/ TouchAfter(t)

Request(t) == Wait(t) \/ \E r \in Runtimes, kind \in Kinds : Use(t, r, kind)

Admitted(t) ==
    \/ Open(t) \/ Acquire(t) \/ Refused(t)
    \/ \E th \in 1 .. threads : Resume(t, th)
    \/ \E r \in Runtimes, release \in BOOLEAN : Close(t, r, release)
    \/ \E suppress \in BOOLEAN : List(t, suppress)

Next ==
    \/ \E t \in Tools :
          \/ Request(t) \/ Admitted(t) \/ AllocationStep(t) \/ AllocationFault(t)
          \/ UseStep(t)
    \/ Collect
    \/ Claim \/ Dies \/ Restart
    \/ \E r \in Runtimes : Status(r) \/ Ages(r)
    \/ \E x \in late : LateAnswer(x) \/ LateError(x)
    \/ \E x \in stuck : StuckAnswer(x)

Spec == Init /\ [][Next]_vars
-------------------------------------------------------------------------------
\* Every slot and answer is given in the end. Who gets the lock is nobody's turn: a
\* tool, or the collector thread, gets it if it is free again and again.
Fairness ==
    /\ \A t \in Tools : /\ WF_vars(AllocationStep(t)) /\ WF_vars(UseStep(t))
                          /\ SF_vars(Admitted(t))
    /\ WF_vars(Claim) /\ SF_vars(Collect)
    /\ \A x \in [th : Threads, resume : BOOLEAN] : WF_vars(LateAnswer(x))
    /\ \A x \in Tools \X Threads : WF_vars(StuckAnswer(x))

FairSpec == Spec /\ Fairness

-------------------------------------------------------------------------------
Places == {"idle", "lock", "capacity", "slot", "request", "sync1", "lookup", "sync2",
           "commit", "undo", "replaced", "useSlot", "send", "upstream", "touch"}

Maybe(S) == S \cup {None}

\* Every variable has its type: the state of manager and adapter.
TypeOK ==
    /\ DOMAIN bind \subseteq Runtimes
    /\ \A r \in DOMAIN bind :
          bind[r] \in [th : Threads, status : {"ready", "detached"}, name : BOOLEAN]
    /\ DOMAIN disk \subseteq Runtimes
    /\ idle \subseteq DOMAIN bind
    /\ IsOrder(older, DOMAIN bind)
    /\ obs \in 0 .. GenBound /\ gen \in 0 .. GenBound /\ up \in BOOLEAN
    /\ active \in [Runtimes -> 0 .. Cardinality(Tools)]
    /\ slots \in 0 .. MaxSlots /\ alloc \in Tools \cup {Nobody}
    /\ pc \in [Tools -> Places]
    /\ loc \in [Tools -> [rt : Maybe(Runtimes), th : Maybe(Threads),
                          prev : Maybe(Threads), reused : BOOLEAN,
                          name : BOOLEAN, kind : Kinds \cup {"none"},
                          gen : 0 .. GenBound]]
    /\ UNION {live, pendrel, loaded, unclaimed, claimed, aband} \subseteq Threads
    /\ late \subseteq [th : Threads, resume : BOOLEAN]
    /\ stuck \subseteq Tools \X Threads
    /\ threads \in 0 .. ThreadBound /\ runtimes \in 0 .. RuntimeBound

\* The bindings never outnumber max_runtimes, however many tools open and resume
\* at once and whatever fails on the way (_ensure_capacity_locked).
CapacityHolds == Cardinality(DOMAIN bind) <= MaxRuntimes

\* However many tools acquire and resume at once, a thread has one binding and
\* the acquired name has one runtime.
OneBindingEach ==
    \A q, r \in DOMAIN bind :
        q # r => bind[q].th # bind[r].th /\ ~(bind[q].name /\ bind[r].name)

\* The same of well-typed bindings: the order of their use and their idleness
\* speak of exactly the runtimes that are bound.
BindingsSound == TypeOK /\ OneBindingEach

\* What the file says is what the manager would say, also when a save failed in
\* the middle of an operation (_save_bindings, _touch).
FileAgrees == disk = Stored(bind)

\* No thread is unloaded under a tool call that waits for its answer, or that
\* has timed out and is unanswered.
Calling(th) == PendingOn(th) /\ th \in loaded
CallKeepsThread ==
    [][\A th \in Threads : Calling(th) /\ up' => th \in loaded']_vars

\* No runtime loses its thread while one of its requests is registered, sent or
\* not: neither close, capacity nor collection unloads it.
RequestKeepsThread ==
    [][\A r \in DOMAIN bind :
          active[r] > 0 /\ Reads /\ bind[r].th \in loaded /\ up'
          => bind[r].th \in loaded']_vars

\* A tool call that is answered was made of its runtime's present thread: the
\* binding was neither collected nor given another thread in the meantime.
AnswerIsOfBinding ==
    [][\A t \in Tools :
          pc[t] = "upstream" /\ pc'[t] = "touch" /\ loc[t].kind # "exec"
          => loc[t].rt \in DOMAIN bind /\ bind[loc[t].rt].th = loc[t].th]_vars

\* A thread that is started after its request was given up is unloaded in the
\* end, unless requests time out on such threads again and again: one that is busy
\* keeps the others (cleanup_abandoned_threads stops at the first error).
AbandonedIsReleased ==
    \A th \in Threads : []<>(th \in aband => \E other \in aband : PendingOn(other))

\* Every request ends: none waits for ever for the allocation lock, which others
\* keep while they wait for a slot and a thread (_allocation_lock around _start_slot),
\* nor for a slot or a thread itself. Each wait but that for the lock has a timeout.
RequestsEnd == \A t \in Tools : pc[t] # "idle" ~> pc[t] = "idle"

\* codex_runtime_close "marks a local Codex runtime binding detached": it stays
\* so until the runtime is resumed. (Not so when the second touch of a
\* finished request comes after the close.)
ClosedStaysDetached ==
    [][\A r \in DOMAIN bind \cap DOMAIN bind' :
          bind[r].status = "detached" /\ bind'[r].status = "ready"
          => \E t \in Tools : pc[t] = "commit" /\ pc'[t] # "commit"]_vars
===============================================================================
