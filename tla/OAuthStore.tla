------------------------------ MODULE OAuthStore ------------------------------
(***************************************************************************)
(* The OAuth grants of the server: oauth.json with its registered clients, *)
(* authorization codes, access tokens and refresh tokens, and the requests *)
(* that read it, change it and replace it as a whole.                      *)
(*                                                                         *)
(* A handler of one server process runs from _read_store to the end of     *)
(* _write_store without an await, so the requests of one process never     *)
(* overlap. A rolling reload keeps two processes on one listener for a     *)
(* while; nothing but the file system then orders their steps.             *)
(***************************************************************************)
EXTENDS Naturals, FiniteSets

CONSTANTS
    Servers,        \* server processes that answer requests
    Clients,        \* client ids that may be registered
    ClientLimit,    \* MAX_REGISTERED_CLIENTS
    CodeTTL, AccessTTL, RefreshTTL,
    Grace,          \* REFRESH_TOKEN_REUSE_GRACE_SECONDS
    Retention,      \* ROTATED_REFRESH_TOKEN_RETENTION_SECONDS
    Crashes,        \* may a server be killed in the middle of a request?
    MaxTime,        \* bound: the clock stops here
    MaxIssued       \* bound: so many codes and token pairs are issued

ASSUME BoundsAssumption ==
    /\ {CodeTTL, AccessTTL, RefreshTTL, Grace, Retention} \subseteq Nat
    /\ {ClientLimit, MaxTime, MaxIssued} \subseteq Nat
    /\ Crashes \in BOOLEAN

VARIABLES
    file,       \* oauth.json: a store, or Torn
    tmp,        \* oauth.json.tmp: a store, Torn, or Missing
    pc, new,    \* per server: its place in _write_store, the store it writes
    handle,     \* per server: what its open temporary file has become
    reply,      \* per server: what the answer tells the client
    now,        \* time.time()
    issued,     \* how many secrets have been drawn; they name each other
    held,       \* the token pairs that clients have received
    revoked     \* the families whose clients have been told of the revocation

vars == <<file, tmp, pc, new, handle, reply, now, issued, held, revoked>>

Ids     == 1 .. MaxIssued
Never   == 0                          \* no rotated_at yet; time starts at 1
Torn    == [torn |-> TRUE]
Missing == [missing |-> TRUE]
NoReply == [got |-> {}, cut |-> {}]

\* The records of the tables. An access token does not name its grant.
CodeRecs    == [id : Ids, client : Clients, expires : Nat]
TokenRecs   == [id : Ids, expires : Nat]
RefreshRecs == [id : Ids, client : Clients, family : Ids, expires : Nat,
                rotated : Nat]
Stores == [clients : SUBSET Clients, codes : SUBSET CodeRecs,
           tokens : SUBSET TokenRecs, refresh : SUBSET RefreshRecs]

\* A pair of tokens as its client knows it: the code or the refresh token it
\* was given for, and when that was presented.
Pairs   == [id : Ids, family : Ids, from : Ids, at : Nat]
Replies == [got : SUBSET Pairs, cut : SUBSET Ids]

EmptyStore == [clients |-> {}, codes |-> {}, tokens |-> {}, refresh |-> {}]

\* _read_store: a file that is no JSON reads as an empty store.
Read == IF file = Torn THEN EmptyStore ELSE file

Init ==
    /\ file = EmptyStore /\ tmp = Missing
    /\ pc = [p \in Servers |-> "idle"]
    /\ new = [p \in Servers |-> EmptyStore]
    /\ handle = [p \in Servers |-> "closed"]
    /\ reply = [p \in Servers |-> NoReply]
    /\ now = 1 /\ issued = 0
    /\ held = {} /\ revoked = {}

-------------------------------------------------------------------------------
\* Requests. Each ends in _write_store, or in an error that writes nothing.

Writes(p, store, answer) ==
    /\ pc' = [pc EXCEPT ![p] = "open"]
    /\ new' = [new EXCEPT ![p] = store]
    /\ reply' = [reply EXCEPT ![p] = answer]
    /\ UNCHANGED <<file, tmp, handle, now, held, revoked>>

\* MUTANT of HasRoom: off by one.
HasRoomForOneMore(s) == Cardinality(s.clients) <= ClientLimit

HasRoom(s) == Cardinality(s.clients) < ClientLimit

Register(p, c) ==
    /\ pc[p] = "idle"
    /\ c \notin Read.clients /\ HasRoom(Read)
    /\ Writes(p, [Read EXCEPT !.clients = @ \cup {c}], NoReply)
    /\ UNCHANGED issued

Authorize(p, c) ==
    LET code == [id |-> issued + 1, client |-> c, expires |-> now + CodeTTL]
    IN  /\ pc[p] = "idle" /\ issued < MaxIssued
        /\ c \in Read.clients
        /\ issued' = issued + 1
        /\ Writes(p, [Read EXCEPT !.codes = @ \cup {code}], NoReply)

\* MUTANT of Unexpired: pruning goes by the age of the rotation alone.
KeepsOnlyFresh(recs) == {r \in recs : r.rotated = Never}

\* _prune_refresh_tokens
Unexpired(recs) == {r \in recs : r.expires >= now}

\* A new access token and a new refresh token of one family.
Issue(s, client, family) ==
    [s EXCEPT
        !.tokens  = @ \cup {[id |-> issued + 1, expires |-> now + AccessTTL]},
        !.refresh = Unexpired(@) \cup
                      {[id |-> issued + 1, client |-> client,
                        family |-> family, expires |-> now + RefreshTTL,
                        rotated |-> Never]}]

Receives(family, from) ==
    [NoReply EXCEPT !.got = {[id |-> issued + 1, family |-> family,
                              from |-> from, at |-> now]}]

\* MUTANT of Spent: the code is looked up and not taken off the store.
SpentKept(s, found) == s

\* exchange_code takes the code off the store before it checks anything.
Spent(s, found) == [s EXCEPT !.codes = @ \ found]

ExchangeRefused(p, id, matches) ==
    LET found == {r \in Read.codes : r.id = id}
    IN  /\ pc[p] = "idle" /\ id <= issued
        /\ ~matches \/ \A r \in found : r.expires < now
        /\ Writes(p, Spent(Read, found), NoReply)
        /\ UNCHANGED issued

Exchange(p, r) ==
    /\ pc[p] = "idle" /\ issued < MaxIssued
    /\ r \in Read.codes /\ r.expires >= now
    /\ issued' = issued + 1
    /\ Writes(p, Issue(Spent(Read, {r}), r.client, issued + 1),
              Receives(issued + 1, r.id))

\* refresh_access_token with a token that a client has received.
Received(id) == \E h \in held : h.id = id

RefreshUnknown(p, h) ==
    LET kept == Unexpired(Read.refresh)
    IN  /\ pc[p] = "idle"
        /\ ~ \E r \in kept : r.id = h.id
        /\ kept # Read.refresh
        /\ Writes(p, [Read EXCEPT !.refresh = kept], NoReply)
        /\ UNCHANGED issued

InGrace(r) == r.rotated = Never \/ now - r.rotated <= Grace

\* MUTANT of Relatives: reuse removes the token presented, not its family.
OnlyItself(r) == {r}

Relatives(r) == {x \in Read.refresh : x.family = r.family}

\* Presented again too late: the whole family leaves the table.
RefreshReused(p, r) ==
    /\ pc[p] = "idle" /\ Received(r.id)
    /\ r \in Unexpired(Read.refresh) /\ r.client \in Read.clients
    /\ ~ InGrace(r)
    /\ Writes(p, [Read EXCEPT !.refresh = Unexpired(@) \ Relatives(r)],
              [NoReply EXCEPT !.cut = {r.family}])
    /\ UNCHANGED issued

\* MUTANT of Rotated: rotated_at moves with every use.
RotatedAtEveryUse(r) ==
    [r EXCEPT !.rotated = now,
              !.expires = IF @ <= now + Retention THEN @ ELSE now + Retention]

Rotated(r) == IF r.rotated # Never THEN r
              ELSE [r EXCEPT !.rotated = now,
                             !.expires = IF @ <= now + Retention THEN @
                                         ELSE now + Retention]

RefreshTraded(p, r) ==
    LET rest == [Read EXCEPT !.refresh = (@ \ {r}) \cup {Rotated(r)}]
    IN  /\ pc[p] = "idle" /\ Received(r.id) /\ issued < MaxIssued
        /\ r \in Unexpired(Read.refresh) /\ r.client \in Read.clients
        /\ InGrace(r)
        /\ issued' = issued + 1
        /\ Writes(p, Issue(rest, r.client, r.family),
                  Receives(r.family, r.id))

\* verify_access_token writes only to drop an expired token.
VerifyExpired(p, t) ==
    /\ pc[p] = "idle" /\ t \in Read.tokens /\ t.expires < now
    /\ Writes(p, [Read EXCEPT !.tokens = @ \ {t}], NoReply)
    /\ UNCHANGED issued

-------------------------------------------------------------------------------
\* _write_store: open oauth.json.tmp, write it, rename it over oauth.json.
\* The name of the temporary file is the same in every process.

\* MUTANT of Truncate: oauth.json itself is opened for writing.
TruncateInPlace(p) ==
    /\ pc[p] = "open" /\ pc' = [pc EXCEPT ![p] = "write"]
    /\ file' = Torn /\ handle' = [handle EXCEPT ![p] = "file"]
    /\ UNCHANGED <<tmp, new, reply, now, issued, held, revoked>>

Truncate(p) ==
    /\ pc[p] = "open" /\ pc' = [pc EXCEPT ![p] = "write"]
    /\ tmp' = Torn /\ handle' = [handle EXCEPT ![p] = "tmp"]
    /\ UNCHANGED <<file, new, reply, now, issued, held, revoked>>

\* Writing over what another process has written since leaves its tail behind
\* when that was longer.
Written(content, store) ==
    IF content = Torn THEN {store} ELSE {store, Torn}

Fill(p) ==
    /\ pc[p] = "write" /\ pc' = [pc EXCEPT ![p] = "replace"]
    /\ \/ handle[p] = "tmp"  /\ tmp' \in Written(tmp, new[p]) /\ UNCHANGED file
       \/ handle[p] = "file" /\ file' \in Written(file, new[p]) /\ UNCHANGED tmp
       \/ handle[p] = "lost" /\ UNCHANGED <<file, tmp>>
    /\ handle' = [handle EXCEPT ![p] = "closed"]
    /\ UNCHANGED <<new, reply, now, issued, held, revoked>>

\* What a rename makes of a temporary file that is still open.
Moved(h) == IF h = "tmp" THEN "file" ELSE IF h = "file" THEN "lost" ELSE h

Leave(p) ==
    /\ pc' = [pc EXCEPT ![p] = "idle"]
    /\ new' = [new EXCEPT ![p] = EmptyStore]
    /\ handle' = [handle EXCEPT ![p] = "closed"]
    /\ reply' = [reply EXCEPT ![p] = NoReply]

\* The rename, unless another process has renamed the file away: then the
\* request ends in an error.
Replace(p) ==
    /\ pc[p] = "replace"
    /\ IF tmp = Missing
       THEN Leave(p) /\ UNCHANGED <<file, tmp>>
       ELSE /\ pc' = [pc EXCEPT ![p] = "answer"]
            /\ file' = tmp /\ tmp' = Missing
            /\ handle' = [q \in Servers |-> Moved(handle[q])]
            /\ new' = [new EXCEPT ![p] = EmptyStore]
            /\ UNCHANGED reply
    /\ UNCHANGED <<now, issued, held, revoked>>

Answer(p) ==
    /\ pc[p] = "answer" /\ Leave(p)
    /\ held' = held \cup reply[p].got
    /\ revoked' = revoked \cup reply[p].cut
    /\ UNCHANGED <<file, tmp, now, issued>>

\* The process is killed in the middle of a request, or its answer is lost; a
\* new process takes its place.
Crash(p) ==
    /\ Crashes /\ pc[p] # "idle" /\ Leave(p)
    /\ UNCHANGED <<file, tmp, now, issued, held, revoked>>

Tick ==
    /\ now < MaxTime /\ now' = now + 1
    /\ UNCHANGED <<file, tmp, pc, new, handle, reply, issued, held, revoked>>

Request(p) ==
    \/ \E c \in Clients : Register(p, c) \/ Authorize(p, c)
    \/ \E id \in Ids, matches \in BOOLEAN : ExchangeRefused(p, id, matches)
    \/ \E r \in Read.codes : Exchange(p, r)
    \/ \E h \in held : RefreshUnknown(p, h)
    \/ \E r \in Read.refresh : RefreshReused(p, r) \/ RefreshTraded(p, r)
    \/ \E t \in Read.tokens : VerifyExpired(p, t)

WriteStep(p) ==
    Truncate(p) \/ Fill(p) \/ Replace(p) \/ Answer(p)

Next ==
    \/ \E p \in Servers : Request(p) \/ WriteStep(p) \/ Crash(p)
    \/ Tick

Spec == Init /\ [][Next]_vars

-------------------------------------------------------------------------------
\* Types of the state. The numbers of secrets in use stay below the counter
\* that draws them, so a new secret never collides with one that is stored.
Drawn(s) == \A r \in s.codes \cup s.tokens \cup s.refresh : r.id <= issued

TypeOK ==
    /\ file \in Stores \cup {Torn}
    /\ tmp \in Stores \cup {Torn, Missing}
    /\ pc \in [Servers -> {"idle", "open", "write", "replace", "answer"}]
    /\ new \in [Servers -> Stores]
    /\ handle \in [Servers -> {"closed", "tmp", "file", "lost"}]
    /\ reply \in [Servers -> Replies]
    /\ now \in Nat /\ issued \in 0 .. MaxIssued
    /\ held \subseteq Pairs /\ revoked \subseteq Ids
    /\ Drawn(Read) /\ \A p \in Servers : Drawn(new[p])

\* exchange_code: an authorization code brings tokens to a client at most once,
\* however requests, crashes and lost answers are interleaved.
CodeSpentOnce ==
    \A h, k \in held :
        h.from = k.from /\ h.family = h.id /\ k.family = k.id => h = k

\* refresh_access_token: once a client has been told that its grant was revoked,
\* no refresh token of that grant is in the store again.
RevokedStaysDead == \A r \in Read.refresh : r.family \notin revoked

\* REFRESH_TOKEN_REUSE_GRACE_SECONDS counts from the first use: two pairs given
\* for one refresh token were asked for within the grace period, and retries
\* do not prolong it.
GraceFromFirstUse ==
    \A h, k \in held : h.from = k.from => k.at - h.at <= Grace

\* _write_store replaces the whole file, and still a refresh token leaves it only
\* when it has expired or with the whole family of a token used again too late.
WriteKeepsGrants ==
    [][\A r \in Read.refresh :
          \/ r.expires < now
          \/ \E x \in Read'.refresh : x.id = r.id
          \/ ~ \E x \in Read'.refresh : x.family = r.family]_file

\* _write_store: a process that dies in the middle of it leaves the old file or
\* the new one, never one that reads as an empty store.
StoreWhole == file # Torn

\* _write_store replaces the file by a complete one: what a server reads at any
\* moment is a store, and a secret that is drawn collides with none in it.
StoreSound == TypeOK /\ StoreWhole

\* register_client: the limit on registered clients holds although the processes
\* of a rolling reload check it without a lock, because each of them replaces
\* the whole table it has counted.
ClientsBounded == Cardinality(Read.clients) <= ClientLimit

\* README.md:158: "a connection that keeps refreshing never needs
\* reauthorization". The newest pair a client has of a grant that was not
\* revoked can be refreshed until it expires.
Newest(h)    == \A k \in held : k.family = h.family => k.id <= h.id
Revoking(f)  == f \in revoked \/ \E p \in Servers : f \in reply[p].cut
NeverReauthorizes ==
    \A h \in held :
        Newest(h) /\ ~ Revoking(h.family) /\ now <= h.at + RefreshTTL
            => \E r \in Read.refresh : r.id = h.id
===============================================================================
