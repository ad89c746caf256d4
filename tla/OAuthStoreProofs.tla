---------------------------- MODULE OAuthStoreProofs ----------------------------
(***************************************************************************)
(* Theorems about OAuthStore for every set of clients, every lifetime and  *)
(* every limit. Types and the limit on clients hold for any number of      *)
(* servers; what a grant promises holds for one server, whose requests     *)
(* never overlap: two servers of a rolling reload do lose each other's     *)
(* writes.                                                                 *)
(***************************************************************************)
EXTENDS OAuthStore, FiniteSetTheorems, TLAPS

OneServer == \E s : Servers = {s}

Writing == {"open", "write", "replace"}

\* One request at a time: the temporary file is the server's own, and is complete
\* when it is renamed.
Alone(p) ==
    /\ file \in Stores
    /\ handle[p] = IF pc[p] = "write" THEN "tmp" ELSE "closed"
    /\ pc[p] = "write" => tmp = Torn
    /\ pc[p] = "replace" => tmp = new[p]
    /\ pc[p] \notin Writing => new[p] = EmptyStore
    /\ pc[p] = "idle" => reply[p] = NoReply

\* A store in which secrets are told apart by their numbers, no token has been
\* used in the future, and no grant has been revoked.
Coherent(s, n) ==
    /\ \A a, b \in s.codes : a.id = b.id => a = b
    /\ \A a, b \in s.refresh : a.id = b.id => a = b
    /\ \A a \in s.codes, b \in s.refresh : a.id # b.id
    /\ \A r \in s.refresh : r.rotated <= now /\ r.family <= n /\ r.family \notin revoked

\* What the store knows of the secret a pair was given for: a code is gone, a
\* refresh token has been rotated before, not longer ago than the grace period.
Accounted(h, s) ==
    /\ \A c \in s.codes : c.id # h.from
    /\ \A x \in s.refresh : x.id = h.from =>
          /\ h.family # h.id
          /\ x.rotated # Never /\ x.rotated <= h.at /\ h.at - x.rotated <= Grace

Old(h, n) == h.id <= n /\ h.family <= n /\ h.from <= n

\* Two pairs that one client may hold.
Compatible(h, k) ==
    h.from = k.from =>
        /\ h.family = h.id /\ k.family = k.id => h = k
        /\ k.at - h.at <= Grace /\ h.at - k.at <= Grace

\* The store that the server writes, or has written when it is about to answer.
Target(p) == IF pc[p] \in Writing THEN new[p] ELSE file

\* What was in the file and is not in the new store had expired or goes with its
\* family.
Keeps(s) ==
    \A r \in file.refresh :
        \/ r.expires < now
        \/ \E x \in s.refresh : x.id = r.id
        \/ ~ \E x \in s.refresh : x.family = r.family

Grants(p) ==
    /\ now >= 1
    /\ Coherent(file, issued) /\ Coherent(new[p], issued)
    /\ \A f \in revoked : f <= issued
    /\ \A h \in held : Old(h, issued) /\ Accounted(h, file) /\ Accounted(h, new[p])
    /\ \A h, k \in held : Compatible(h, k)

Pending(p) ==
    /\ \A g \in reply[p].got :
          Old(g, issued) /\ Accounted(g, Target(p)) /\ \A h \in held : Compatible(h, g)
    /\ \A g, k \in reply[p].got : Compatible(g, k)
    /\ \A f \in reply[p].cut :
          f <= issued /\ \A x \in Target(p).refresh : x.family # f
    /\ pc[p] \in Writing => Keeps(new[p])

GrantInv == \A p \in Servers : Alone(p) /\ Grants(p) /\ Pending(p)

\* The stores that a write may put in the place of the file stay within the limit
\* on clients.
InLimit(s) == IsFiniteSet(s.clients) /\ Cardinality(s.clients) <= ClientLimit
Limited(s) == s = Torn \/ InLimit(s)
LimitInv   == Limited(file) /\ (tmp = Missing \/ Limited(tmp)) /\ \A p \in Servers : InLimit(new[p])


-------------------------------------------------------------------------------
\* Types.

\* A store that waits in the temporary file knows drawn numbers only, too.
Typed == TypeOK /\ (tmp \in {Torn, Missing} \/ Drawn(tmp))

\* _read_store: what a request reads is a store, whatever the file is.
LEMMA ReadIsStore ==
    ASSUME TypeOK
    PROVE  Read \in Stores
BY DEF TypeOK, Read, Stores, EmptyStore

\* _issue_refresh_token, exchange_code: two more records, with the next number.
LEMMA IssueIsStore ==
    ASSUME TypeOK, NEW s \in Stores, NEW c \in Clients, NEW f \in Ids,
           issued < MaxIssued, \A r \in s.codes \cup s.tokens \cup s.refresh : r.id <= issued
    PROVE  /\ Issue(s, c, f) \in Stores
           /\ \A r \in Issue(s, c, f).codes \cup Issue(s, c, f).tokens \cup Issue(s, c, f).refresh :
                 r.id <= issued + 1
<1> DEFINE t == [id |-> issued + 1, expires |-> now + AccessTTL]
           x == [id |-> issued + 1, client |-> c, family |-> f,
                 expires |-> now + RefreshTTL, rotated |-> Never]
<1>1. t \in TokenRecs /\ x \in RefreshRecs /\ t.id = issued + 1 /\ x.id = issued + 1
  BY BoundsAssumption DEF TypeOK, TokenRecs, RefreshRecs, Ids, Never
<1>2. /\ Issue(s, c, f).clients = s.clients /\ Issue(s, c, f).codes = s.codes
      /\ Issue(s, c, f).tokens = s.tokens \cup {t}
      /\ Issue(s, c, f).refresh = Unexpired(s.refresh) \cup {x}
      /\ Issue(s, c, f) = [s EXCEPT !.tokens = s.tokens \cup {t},
                                    !.refresh = Unexpired(s.refresh) \cup {x}]
  BY DEF Issue, Stores
<1> HIDE DEF t, x
<1>3. Unexpired(s.refresh) \subseteq s.refresh
  BY DEF Unexpired
<1>4. issued \in Nat /\ \A r \in CodeRecs \cup TokenRecs \cup RefreshRecs : r.id \in Nat
  BY DEF TypeOK, CodeRecs, TokenRecs, RefreshRecs, Ids
<1>5. s.clients \subseteq Clients /\ s.codes \subseteq CodeRecs /\ s.tokens \subseteq TokenRecs
      /\ s.refresh \subseteq RefreshRecs
  BY DEF Stores
<1>6. Issue(s, c, f) \in Stores
  BY <1>1, <1>2, <1>3, <1>5 DEF Stores
<1> QED
  BY <1>1, <1>2, <1>3, <1>4, <1>5, <1>6

\* refresh_access_token: a rotated record is a record of the same token and grant.
LEMMA RotatedRec ==
    ASSUME TypeOK, NEW r \in RefreshRecs
    PROVE  /\ Rotated(r) \in RefreshRecs
           /\ Rotated(r).id = r.id /\ Rotated(r).family = r.family
           /\ Rotated(r).rotated = IF r.rotated # Never THEN r.rotated ELSE now
           /\ r.expires >= now => Rotated(r).expires >= now
<1>1. CASE r.rotated # Never
  BY <1>1 DEF Rotated
<1>2. CASE r.rotated = Never
  <2> DEFINE e == IF r.expires <= now + Retention THEN r.expires ELSE now + Retention
  <2>1. e \in Nat /\ now \in Nat
    BY BoundsAssumption DEF RefreshRecs, TypeOK
  <2>2. Rotated(r) = [r EXCEPT !.rotated = now, !.expires = e]
    BY <1>2 DEF Rotated
  <2>5. r.expires >= now => e >= now
    BY <2>1, BoundsAssumption DEF RefreshRecs
  <2> HIDE DEF e
  <2>3. Rotated(r) \in RefreshRecs /\ Rotated(r).expires = e
    BY <2>1, <2>2 DEF RefreshRecs
  <2>4. Rotated(r).id = r.id /\ Rotated(r).family = r.family /\ Rotated(r).rotated = now
    BY <2>2 DEF RefreshRecs
  <2> QED
    BY <1>2, <2>3, <2>4, <2>5
<1> QED
  BY <1>1, <1>2

\* What a request hands to _write_store is a store with the secrets drawn so far.
WritesStore(p) ==
    \E s \in Stores, a \in Replies, n \in issued .. MaxIssued :
        /\ Writes(p, s, a) /\ issued' = n
        /\ \A r \in s.codes \cup s.tokens \cup s.refresh : r.id <= n

LEMMA WritesStoreTyped ==
    ASSUME Typed, NEW p \in Servers, WritesStore(p)
    PROVE  Typed'
<1> PICK s \in Stores, a \in Replies, n \in issued .. MaxIssued :
        /\ Writes(p, s, a) /\ issued' = n
        /\ \A r \in s.codes \cup s.tokens \cup s.refresh : r.id <= n
  BY DEF WritesStore
<1> USE DEF Typed, TypeOK
<1>1. issued' \in 0 .. MaxIssued /\ n \in Nat /\ issued \in Nat /\ issued <= n
  BY BoundsAssumption
<1>2. /\ pc' = [pc EXCEPT ![p] = "open"] /\ new' = [new EXCEPT ![p] = s]
      /\ reply' = [reply EXCEPT ![p] = a]
      /\ UNCHANGED <<file, tmp, handle, now, held, revoked>>
  BY DEF Writes
<1>3. Read' = Read
  BY <1>2 DEF Read
<1>4. \A x \in Stores : Drawn(x) =>
          \A r \in x.codes \cup x.tokens \cup x.refresh : r.id <= n
  <2> SUFFICES ASSUME NEW x \in Stores, Drawn(x)
               PROVE  \A r \in x.codes \cup x.tokens \cup x.refresh : r.id <= n
    OBVIOUS
  <2>1. \A r \in x.codes \cup x.tokens \cup x.refresh : r.id \in Nat
    BY DEF Stores, CodeRecs, TokenRecs, RefreshRecs, Ids
  <2> QED
    BY <2>1, <1>1 DEF Drawn
<1>5. Drawn(Read)'
  BY <1>3, <1>4, ReadIsStore DEF Drawn
<1>6. \A q \in Servers : Drawn(new[q])'
  BY <1>2, <1>4 DEF Drawn
<1>7. pc' \in [Servers -> {"idle", "open", "write", "replace", "answer"}]
      /\ new' \in [Servers -> Stores] /\ reply' \in [Servers -> Replies]
  BY <1>2
<1>8. tmp \in {Torn, Missing} \/ Drawn(tmp)'
  BY <1>2, <1>4 DEF Drawn
<1> QED
  BY <1>1, <1>2, <1>5, <1>6, <1>7, <1>8

\* register_client, authorize, exchange_code, refresh_access_token and
\* verify_access_token each write a store, or write nothing.
LEMMA RequestWrites ==
    ASSUME TypeOK, NEW p \in Servers, Request(p)
    PROVE  WritesStore(p)
<1> USE DEF TypeOK
<1>1. Read \in Stores /\ \A r \in Read.codes \cup Read.tokens \cup Read.refresh : r.id <= issued
  BY ReadIsStore DEF Drawn
<1>2. NoReply \in Replies
  BY DEF NoReply, Replies
<1>3. issued \in issued .. MaxIssued /\ issued \in Nat
  BY BoundsAssumption
<1>4. ASSUME NEW s \in Stores, NEW a \in Replies, Writes(p, s, a), UNCHANGED issued,
             \A r \in s.codes \cup s.tokens \cup s.refresh : r.id <= issued
      PROVE  WritesStore(p)
  BY <1>3, <1>4 DEF WritesStore
<1>5. Unexpired(Read.refresh) \subseteq Read.refresh
  BY DEF Unexpired
<1>6. ASSUME NEW c \in Clients, Register(p, c)
      PROVE  WritesStore(p)
  <2> DEFINE s == [Read EXCEPT !.clients = @ \cup {c}]
  <2>1. s \in Stores /\ s.codes = Read.codes /\ s.tokens = Read.tokens /\ s.refresh = Read.refresh
    BY <1>1 DEF Stores
  <2> QED
    BY <1>1, <1>2, <1>4, <1>6, <2>1 DEF Register
<1>7. ASSUME NEW c \in Clients, Authorize(p, c)
      PROVE  WritesStore(p)
  <2> DEFINE code == [id |-> issued + 1, client |-> c, expires |-> now + CodeTTL]
             s == [Read EXCEPT !.codes = @ \cup {code}]
  <2>1. code \in CodeRecs /\ code.id = issued + 1
    BY <1>7, BoundsAssumption DEF CodeRecs, Ids, Authorize
  <2>2. s \in Stores /\ s.codes = Read.codes \cup {code} /\ s.tokens = Read.tokens
        /\ s.refresh = Read.refresh
    BY <1>1, <2>1 DEF Stores
  <2>3. \A r \in Read.codes \cup Read.tokens \cup Read.refresh : r.id \in Nat
    BY <1>1 DEF Stores, CodeRecs, TokenRecs, RefreshRecs, Ids
  <2>4. Writes(p, s, NoReply) /\ issued' = issued + 1 /\ issued + 1 \in issued .. MaxIssued
    BY <1>7, BoundsAssumption DEF Authorize
  <2>5. \A r \in s.codes \cup s.tokens \cup s.refresh : r.id <= issued + 1
    BY <1>1, <1>3, <2>1, <2>2, <2>3
  <2> HIDE DEF s
  <2> QED
    BY <1>2, <2>2, <2>4, <2>5 DEF WritesStore
<1>8. ASSUME NEW id \in Ids, NEW matches \in BOOLEAN, ExchangeRefused(p, id, matches)
      PROVE  WritesStore(p)
  <2> DEFINE found == {r \in Read.codes : r.id = id}
             s == Spent(Read, found)
  <2>1. s \in Stores /\ s.codes \subseteq Read.codes /\ s.tokens = Read.tokens
        /\ s.refresh = Read.refresh
    BY <1>1 DEF Stores, Spent
  <2>2. Writes(p, s, NoReply) /\ UNCHANGED issued
    BY <1>8 DEF ExchangeRefused
  <2> HIDE DEF s
  <2> QED
    BY <1>1, <1>2, <1>4, <2>1, <2>2
<1>9. ASSUME NEW r \in Read.codes, Exchange(p, r)
      PROVE  WritesStore(p)
  <2> DEFINE spent == Spent(Read, {r})
             s == Issue(spent, r.client, issued + 1)
             a == Receives(issued + 1, r.id)
  <2>1. spent \in Stores /\ spent.codes \subseteq Read.codes /\ spent.tokens = Read.tokens
        /\ spent.refresh = Read.refresh
    BY <1>1 DEF Stores, Spent
  <2>2. issued + 1 \in Ids /\ r.client \in Clients /\ r.id \in Ids
    BY <1>1, <1>9, BoundsAssumption DEF Stores, CodeRecs, Ids, Exchange
  <2> HIDE DEF spent
  <2>3. s \in Stores /\ \A x \in s.codes \cup s.tokens \cup s.refresh : x.id <= issued + 1
    BY <1>1, <1>9, <2>1, <2>2, IssueIsStore DEF Exchange
  <2>4. a \in Replies
    BY <2>2 DEF Receives, Replies, NoReply, Pairs
  <2>5. Writes(p, s, a) /\ issued' = issued + 1 /\ issued + 1 \in issued .. MaxIssued
    BY <1>9, BoundsAssumption DEF Exchange, spent
  <2> HIDE DEF s, a
  <2> QED
    BY <2>3, <2>4, <2>5 DEF WritesStore
<1>10. ASSUME NEW h \in held, RefreshUnknown(p, h)
       PROVE  WritesStore(p)
  <2> DEFINE s == [Read EXCEPT !.refresh = Unexpired(Read.refresh)]
  <2>1. s \in Stores /\ s.codes = Read.codes /\ s.tokens = Read.tokens
        /\ s.refresh \subseteq Read.refresh
    BY <1>1, <1>5 DEF Stores
  <2>2. Writes(p, s, NoReply) /\ UNCHANGED issued
    BY <1>10 DEF RefreshUnknown
  <2> HIDE DEF s
  <2> QED
    BY <1>1, <1>2, <1>4, <2>1, <2>2
<1>11. ASSUME NEW r \in Read.refresh, RefreshReused(p, r)
       PROVE  WritesStore(p)
  <2> DEFINE s == [Read EXCEPT !.refresh = Unexpired(@) \ Relatives(r)]
             a == [NoReply EXCEPT !.cut = {r.family}]
  <2>1. s \in Stores /\ s.codes = Read.codes /\ s.tokens = Read.tokens
        /\ s.refresh \subseteq Read.refresh
    BY <1>1, <1>5 DEF Stores
  <2>2. a \in Replies
    BY <1>1 DEF Stores, RefreshRecs, NoReply, Replies
  <2>3. Writes(p, s, a) /\ UNCHANGED issued
    BY <1>11 DEF RefreshReused
  <2> HIDE DEF s, a
  <2> QED
    BY <1>1, <1>4, <2>1, <2>2, <2>3
<1>12. ASSUME NEW r \in Read.refresh, RefreshTraded(p, r)
       PROVE  WritesStore(p)
  <2> DEFINE rest == [Read EXCEPT !.refresh = (@ \ {r}) \cup {Rotated(r)}]
             s == Issue(rest, r.client, r.family)
             a == Receives(r.family, r.id)
  <2>1. r \in RefreshRecs
    BY <1>1 DEF Stores
  <2>2. Rotated(r) \in RefreshRecs /\ Rotated(r).id = r.id
    BY <2>1, RotatedRec
  <2>3. rest \in Stores /\ rest.codes = Read.codes /\ rest.tokens = Read.tokens
        /\ rest.refresh = (Read.refresh \ {r}) \cup {Rotated(r)}
    BY <1>1, <2>2 DEF Stores
  <2>4. issued + 1 \in Ids /\ r.client \in Clients /\ r.id \in Ids /\ r.family \in Ids
    BY <2>1, <1>12, BoundsAssumption DEF RefreshRecs, Ids, RefreshTraded
  <2> HIDE DEF rest
  <2>5. \A x \in rest.codes \cup rest.tokens \cup rest.refresh : x.id <= issued
    BY <1>1, <2>2, <2>3
  <2>6. s \in Stores /\ \A x \in s.codes \cup s.tokens \cup s.refresh : x.id <= issued + 1
    BY <1>12, <2>3, <2>4, <2>5, IssueIsStore DEF RefreshTraded
  <2>7. a \in Replies
    BY <2>4 DEF Receives, Replies, NoReply, Pairs
  <2>8. Writes(p, s, a) /\ issued' = issued + 1 /\ issued + 1 \in issued .. MaxIssued
    BY <1>12, BoundsAssumption DEF RefreshTraded, rest
  <2> HIDE DEF s, a
  <2> QED
    BY <2>6, <2>7, <2>8 DEF WritesStore
<1>13. ASSUME NEW t \in Read.tokens, VerifyExpired(p, t)
       PROVE  WritesStore(p)
  <2> DEFINE s == [Read EXCEPT !.tokens = @ \ {t}]
  <2>1. s \in Stores /\ s.codes = Read.codes /\ s.tokens \subseteq Read.tokens
        /\ s.refresh = Read.refresh
    BY <1>1 DEF Stores
  <2>2. Writes(p, s, NoReply) /\ UNCHANGED issued
    BY <1>13 DEF VerifyExpired
  <2> HIDE DEF s
  <2> QED
    BY <1>1, <1>2, <1>4, <2>1, <2>2
<1> QED
  BY <1>6, <1>7, <1>8, <1>9, <1>10, <1>11, <1>12, <1>13 DEF Request

\* A request that ends leaves its process without a store and without a reply.
LEMMA LeaveTyped ==
    ASSUME TypeOK, NEW p \in Servers, Leave(p), issued' = issued
    PROVE  /\ pc' \in [Servers -> {"idle", "open", "write", "replace", "answer"}]
           /\ new' \in [Servers -> Stores] /\ \A q \in Servers : Drawn(new[q])'
           /\ handle' \in [Servers -> {"closed", "tmp", "file", "lost"}]
           /\ reply' \in [Servers -> Replies]
BY DEF TypeOK, Leave, Stores, EmptyStore, NoReply, Replies, Drawn

\* The initial state is well typed.
LEMMA StoreTypedInit == Init => TypeOK
<1> SUFFICES ASSUME Init PROVE TypeOK
  OBVIOUS
<1>1. EmptyStore \in Stores /\ Drawn(EmptyStore)
  BY DEF EmptyStore, Stores, Drawn
<1>2. NoReply \in Replies
  BY DEF NoReply, Replies
<1>3. Read = EmptyStore /\ issued \in 0 .. MaxIssued /\ now \in Nat
  BY BoundsAssumption DEF Init, Read
<1> QED
  BY <1>1, <1>2, <1>3 DEF Init, TypeOK

\* Every step of a request, of _write_store and of the clock keeps the types: the
\* temporary file becomes the store only by the rename.
LEMMA StoreTypedNext ==
    ASSUME Typed, [Next]_vars
    PROVE  Typed'
<1> USE DEF Typed, TypeOK
<1>1. EmptyStore \in Stores /\ NoReply \in Replies
  BY DEF EmptyStore, Stores, NoReply, Replies
<1>2. ASSUME NEW p \in Servers, Request(p)
      PROVE  Typed'
  BY <1>2, RequestWrites, WritesStoreTyped
<1>3. ASSUME NEW p \in Servers, Truncate(p)
      PROVE  Typed'
  BY <1>3 DEF Truncate, Read, Drawn
<1>4. ASSUME NEW p \in Servers, Fill(p)
      PROVE  Typed'
  <2>1. /\ pc' = [pc EXCEPT ![p] = "replace"] /\ handle' = [handle EXCEPT ![p] = "closed"]
        /\ UNCHANGED <<new, reply, now, issued, held, revoked>>
    BY <1>4 DEF Fill
  <2>2. tmp' \in {tmp, new[p], Torn} /\ file' \in {file, new[p], Torn}
    BY <1>4 DEF Fill, Written
  <2>3. new[p] \in Stores /\ Drawn(new[p])
    OBVIOUS
  <2>4. Drawn(Read)'
    <3>1. Read' \in {Read, new[p], EmptyStore}
      BY <2>2 DEF Read
    <3> QED
      BY <2>1, <2>3, <3>1 DEF Drawn, EmptyStore
  <2>5. tmp' \in {Torn, Missing} \/ Drawn(tmp)'
    BY <2>1, <2>2, <2>3 DEF Drawn
  <2>6. file' \in Stores \cup {Torn} /\ tmp' \in Stores \cup {Torn, Missing}
    BY <2>2, <2>3
  <2>7. \A q \in Servers : Drawn(new[q])'
    BY <2>1 DEF Drawn
  <2> QED
    BY <2>1, <2>4, <2>5, <2>6, <2>7
<1>5. ASSUME NEW p \in Servers, Replace(p)
      PROVE  Typed'
  <2>1. CASE tmp = Missing
    BY <1>5, <2>1, LeaveTyped DEF Replace, Read, Drawn
  <2>2. CASE tmp # Missing
    <3>1. /\ pc' = [pc EXCEPT ![p] = "answer"] /\ file' = tmp /\ tmp' = Missing
          /\ handle' = [q \in Servers |-> Moved(handle[q])]
          /\ new' = [new EXCEPT ![p] = EmptyStore]
          /\ UNCHANGED <<reply, now, issued, held, revoked>>
      BY <1>5, <2>2 DEF Replace
    <3>2. file' \in Stores \cup {Torn} /\ tmp' \in Stores \cup {Torn, Missing}
      BY <2>2, <3>1
    <3>3. Drawn(Read)'
      BY <2>2, <3>1 DEF Read, Drawn, EmptyStore
    <3>4. \A q \in Servers : Drawn(new[q])'
      BY <3>1 DEF Drawn, EmptyStore
    <3>5. handle' \in [Servers -> {"closed", "tmp", "file", "lost"}]
      BY <3>1 DEF Moved
    <3> QED
      BY <1>1, <3>1, <3>2, <3>3, <3>4, <3>5
  <2> QED
    BY <2>1, <2>2
<1>6. ASSUME NEW p \in Servers, Answer(p)
      PROVE  Typed'
  <2>1. reply[p].got \subseteq Pairs /\ reply[p].cut \subseteq Ids
    BY DEF Replies
  <2> QED
    BY <1>6, <2>1, LeaveTyped DEF Answer, Read, Drawn
<1>7. ASSUME NEW p \in Servers, Crash(p)
      PROVE  Typed'
  BY <1>7, LeaveTyped DEF Crash, Read, Drawn
<1>8. CASE Tick
  BY <1>8 DEF Tick, Read, Drawn
<1>9. CASE UNCHANGED vars
  BY <1>9 DEF vars, Read, Drawn
<1> QED
  BY <1>2, <1>3, <1>4, <1>5, <1>6, <1>7, <1>8, <1>9 DEF Next, WriteStep

\* The types, for every number of servers.
THEOREM StoreTyped == Spec => []Typed
<1>1. Init => Typed
  BY StoreTypedInit DEF Typed, Init
<1>2. Typed /\ [Next]_vars => Typed'
  BY StoreTypedNext
<1> QED
  BY <1>1, <1>2, PTL DEF Spec

-------------------------------------------------------------------------------
\* The limit on registered clients.

\* register_client is the only request that adds a client, and looks at the limit
\* in the same table.
LEMMA RequestClients ==
    ASSUME Typed, NEW p \in Servers, Request(p)
    PROVE  \E s, a : /\ Writes(p, s, a)
                     /\ \/ s.clients = Read.clients
                        \/ HasRoom(Read) /\ \E c : s.clients = Read.clients \cup {c}
<1>1. Read \in Stores
  BY ReadIsStore DEF Typed
<1>2. ASSUME NEW c \in Clients, Register(p, c)
      PROVE  \E s, a : Writes(p, s, a) /\ HasRoom(Read) /\ \E d : s.clients = Read.clients \cup {d}
  <2> DEFINE s == [Read EXCEPT !.clients = @ \cup {c}]
  <2>1. s.clients = Read.clients \cup {c}
    BY <1>1 DEF Stores
  <2>2. Writes(p, s, NoReply) /\ HasRoom(Read)
    BY <1>2 DEF Register
  <2> HIDE DEF s
  <2> QED
    BY <2>1, <2>2
<1>3. \A s \in Stores : \A c, f : Issue(s, c, f).clients = s.clients
  BY DEF Issue, Stores
<1>4. \A f : Spent(Read, f).clients = Read.clients /\ Spent(Read, f) \in Stores
  BY <1>1 DEF Spent, Stores
<1>5. ASSUME NEW c \in Clients, Authorize(p, c)
      PROVE  \E s, a : Writes(p, s, a) /\ s.clients = Read.clients
  <2> DEFINE s == [Read EXCEPT !.codes = @ \cup
                     {[id |-> issued + 1, client |-> c, expires |-> now + CodeTTL]}]
  <2>1. s.clients = Read.clients
    BY <1>1 DEF Stores
  <2>2. Writes(p, s, NoReply)
    BY <1>5 DEF Authorize
  <2> HIDE DEF s
  <2> QED
    BY <2>1, <2>2
<1>6. ASSUME NEW id \in Ids, NEW matches \in BOOLEAN, ExchangeRefused(p, id, matches)
      PROVE  \E s, a : Writes(p, s, a) /\ s.clients = Read.clients
  BY <1>4, <1>6 DEF ExchangeRefused
<1>7. ASSUME NEW r \in Read.codes, Exchange(p, r)
      PROVE  \E s, a : Writes(p, s, a) /\ s.clients = Read.clients
  <2>1. Issue(Spent(Read, {r}), r.client, issued + 1).clients = Read.clients
    BY <1>3, <1>4
  <2> QED
    BY <1>7, <2>1 DEF Exchange
<1>8. ASSUME NEW h \in held, RefreshUnknown(p, h)
      PROVE  \E s, a : Writes(p, s, a) /\ s.clients = Read.clients
  <2> DEFINE s == [Read EXCEPT !.refresh = Unexpired(Read.refresh)]
  <2>1. s.clients = Read.clients
    BY <1>1 DEF Stores
  <2>2. Writes(p, s, NoReply)
    BY <1>8 DEF RefreshUnknown
  <2> HIDE DEF s
  <2> QED
    BY <2>1, <2>2
<1>9. ASSUME NEW r \in Read.refresh, RefreshReused(p, r)
      PROVE  \E s, a : Writes(p, s, a) /\ s.clients = Read.clients
  <2> DEFINE s == [Read EXCEPT !.refresh = Unexpired(@) \ Relatives(r)]
  <2>1. s.clients = Read.clients
    BY <1>1 DEF Stores
  <2>2. \E a : Writes(p, s, a)
    BY <1>9 DEF RefreshReused
  <2> HIDE DEF s
  <2> QED
    BY <2>1, <2>2
<1>10. ASSUME NEW r \in Read.refresh, RefreshTraded(p, r)
       PROVE  \E s, a : Writes(p, s, a) /\ s.clients = Read.clients
  <2> DEFINE rest == [Read EXCEPT !.refresh = (@ \ {r}) \cup {Rotated(r)}]
             s == Issue(rest, r.client, r.family)
  <2>1. r \in RefreshRecs /\ Rotated(r) \in RefreshRecs
    BY <1>1, RotatedRec DEF Stores, Typed
  <2>2. rest \in Stores /\ rest.clients = Read.clients
    BY <1>1, <2>1 DEF Stores
  <2>3. \E a : Writes(p, s, a)
    BY <1>10 DEF RefreshTraded
  <2> HIDE DEF rest
  <2> QED
    BY <1>3, <2>2, <2>3
<1>11. ASSUME NEW t \in Read.tokens, VerifyExpired(p, t)
       PROVE  \E s, a : Writes(p, s, a) /\ s.clients = Read.clients
  <2> DEFINE s == [Read EXCEPT !.tokens = @ \ {t}]
  <2>1. s.clients = Read.clients
    BY <1>1 DEF Stores
  <2>2. Writes(p, s, NoReply)
    BY <1>11 DEF VerifyExpired
  <2> HIDE DEF s
  <2> QED
    BY <2>1, <2>2
<1> QED
  BY <1>2, <1>5, <1>6, <1>7, <1>8, <1>9, <1>10, <1>11 DEF Request

LEMMA LimitNext ==
    ASSUME Typed, LimitInv, [Next]_vars
    PROVE  LimitInv'
<1> USE DEF LimitInv
<1>1. InLimit(EmptyStore)
  BY FS_EmptySet, BoundsAssumption DEF InLimit, EmptyStore
<1>2. InLimit(Read)
  BY <1>1 DEF Read, Limited
<1>3. ASSUME NEW p \in Servers, Request(p)
      PROVE  LimitInv'
  <2>1. PICK s, a : /\ Writes(p, s, a)
                    /\ \/ s.clients = Read.clients
                       \/ HasRoom(Read) /\ \E c : s.clients = Read.clients \cup {c}
    BY <1>3, RequestClients
  <2>2. InLimit(s)
    <3>1. CASE s.clients = Read.clients
      BY <1>2, <3>1 DEF InLimit
    <3>2. ASSUME HasRoom(Read), NEW c, s.clients = Read.clients \cup {c}
          PROVE  InLimit(s)
      <4>1. IsFiniteSet(Read.clients) /\ Cardinality(Read.clients) \in Nat
        BY <1>2, FS_CardinalityType DEF InLimit
      <4>2. IsFiniteSet(s.clients) /\ Cardinality(s.clients) <= Cardinality(Read.clients) + 1
        BY <3>2, <4>1, FS_AddElement
      <4>3. Cardinality(s.clients) \in Nat
        BY <4>2, FS_CardinalityType
      <4> QED
        BY <3>2, <4>1, <4>2, <4>3, BoundsAssumption DEF InLimit, HasRoom
    <3> QED
      BY <2>1, <3>1, <3>2
  <2>3. new' = [new EXCEPT ![p] = s] /\ UNCHANGED <<file, tmp>>
    BY <2>1 DEF Writes
  <2> QED
    BY <2>2, <2>3 DEF Typed, TypeOK, Limited, InLimit
<1>4. ASSUME NEW p \in Servers, Truncate(p)
      PROVE  LimitInv'
  BY <1>4 DEF Truncate, Limited, InLimit
<1>5. ASSUME NEW p \in Servers, Fill(p)
      PROVE  LimitInv'
  <2>1. tmp' \in {tmp, new[p], Torn} /\ file' \in {file, new[p], Torn} /\ UNCHANGED new
    BY <1>5 DEF Fill, Written
  <2> QED
    BY <2>1 DEF Limited, InLimit
<1>6. ASSUME NEW p \in Servers, Replace(p)
      PROVE  LimitInv'
  <2>1. /\ new' = [new EXCEPT ![p] = EmptyStore]
        /\ file' = file \/ (file' = tmp /\ tmp # Missing)
        /\ tmp' \in {tmp, Missing}
    BY <1>6 DEF Replace, Leave
  <2> QED
    BY <1>1, <2>1 DEF Limited, InLimit, Typed, TypeOK
<1>7. ASSUME NEW p \in Servers, Answer(p) \/ Crash(p)
      PROVE  LimitInv'
  <2>1. new' = [new EXCEPT ![p] = EmptyStore] /\ UNCHANGED <<file, tmp>>
    BY <1>7 DEF Answer, Crash, Leave
  <2> QED
    BY <1>1, <2>1 DEF Limited, InLimit, Typed, TypeOK
<1>8. CASE Tick \/ UNCHANGED vars
  BY <1>8 DEF Tick, vars, Limited, InLimit
<1> QED
  BY <1>3, <1>4, <1>5, <1>6, <1>7, <1>8 DEF Next, WriteStep

\* register_client: the limit holds for any number of servers, though they count
\* and write without a lock: each writes the table it has counted.
THEOREM LimitHolds == Spec => []ClientsBounded
<1>1. Init => LimitInv
  <2> SUFFICES ASSUME Init PROVE LimitInv
    OBVIOUS
  <2>1. InLimit(EmptyStore)
    BY FS_EmptySet, BoundsAssumption DEF InLimit, EmptyStore
  <2> QED
    BY <2>1 DEF Init, LimitInv, Limited
<1>2. Typed /\ LimitInv /\ [Next]_vars => LimitInv'
  BY LimitNext
<1>3. Typed /\ LimitInv => ClientsBounded
  <2> SUFFICES ASSUME Typed, LimitInv PROVE ClientsBounded
    OBVIOUS
  <2>1. InLimit(EmptyStore)
    BY FS_EmptySet, BoundsAssumption DEF InLimit, EmptyStore
  <2>2. InLimit(Read)
    BY <2>1 DEF Read, Limited, LimitInv
  <2> QED
    BY <2>2 DEF ClientsBounded, InLimit
<1> QED
  BY <1>1, <1>2, <1>3, StoreTyped, PTL DEF Spec

-------------------------------------------------------------------------------
\* The grants of one server.

\* What a request hands to _write_store and to its client, with n secrets drawn.
GoodWrite(p, s, a, n) ==
    /\ Writes(p, s, a) /\ issued' = n /\ issued <= n
    /\ Coherent(s, n) /\ Keeps(s)
    /\ \A h \in held : Accounted(h, s)
    /\ \A g \in a.got : Old(g, n) /\ Accounted(g, s) /\ \A h \in held : Compatible(h, g)
    /\ \A g, k \in a.got : Compatible(g, k)
    /\ \A f \in a.cut : f <= n /\ \A x \in s.refresh : x.family # f

LEMMA TornIsNoStore == Torn \notin Stores /\ Missing \notin Stores /\ Torn # Missing
BY DEF Torn, Missing, Stores

\* With one server a request reads the file as it is, and its numbers are drawn.
LEMMA OneReads ==
    ASSUME Typed, GrantInv, NEW p \in Servers
    PROVE  /\ Read = file /\ file \in Stores
           /\ \A c \in file.codes : c \in CodeRecs /\ c.id <= issued
           /\ \A x \in file.refresh : x \in RefreshRecs /\ x.id <= issued /\ x.family <= issued
<1>1. Read = file /\ file \in Stores
  BY TornIsNoStore DEF GrantInv, Alone, Read
<1> QED
  BY <1>1 DEF Typed, TypeOK, Drawn, Stores, GrantInv, Grants, Coherent

\* A request that only takes records away breaks nothing.
LEMMA LessIsGood ==
    ASSUME Typed, GrantInv, NEW p \in Servers, NEW s, NEW a,
           Writes(p, s, a), UNCHANGED issued, Keeps(s), a.got = {},
           s.codes \subseteq file.codes, s.refresh \subseteq file.refresh,
           \A f \in a.cut : f <= issued /\ \A x \in s.refresh : x.family # f
    PROVE  GoodWrite(p, s, a, issued)
<1>1. issued \in Nat
  BY DEF Typed, TypeOK
<1>2. Coherent(s, issued)
  BY DEF GrantInv, Grants, Coherent
<1>3. \A h \in held : Accounted(h, s)
  BY DEF GrantInv, Grants, Accounted
<1> QED
  BY <1>1, <1>2, <1>3 DEF GoodWrite

\* A store that keeps every token keeps every grant.
LEMMA SameKeeps ==
    ASSUME NEW s, \A r \in file.refresh : r.expires < now \/ r \in s.refresh
    PROVE  Keeps(s)
BY DEF Keeps

\* A pair that is new belongs to numbers that are drawn now.
LEMMA NewPair ==
    ASSUME Typed, NEW f \in Ids, NEW id \in Ids
    PROVE  /\ Receives(f, id).cut = {}
           /\ \A g \in Receives(f, id).got :
                 g.id = issued + 1 /\ g.family = f /\ g.from = id /\ g.at = now
           /\ \A g, k \in Receives(f, id).got : g = k
BY DEF Receives, NoReply

\* register_client and authorize.
LEMMA AuthorizeGood ==
    ASSUME Typed, GrantInv, NEW p \in Servers, NEW c \in Clients, Register(p, c) \/ Authorize(p, c)
    PROVE  \E s, a, n : GoodWrite(p, s, a, n)
<1>1. Read = file /\ file \in Stores
  BY OneReads
<1>2. CASE Register(p, c)
  <2> DEFINE s == [file EXCEPT !.clients = @ \cup {c}]
  <2>1. s.codes = file.codes /\ s.refresh = file.refresh
    BY <1>1 DEF Stores
  <2>2. Writes(p, s, NoReply) /\ UNCHANGED issued
    BY <1>1, <1>2 DEF Register
  <2>3. NoReply.got = {} /\ NoReply.cut = {}
    BY DEF NoReply
  <2> HIDE DEF s
  <2>4. Keeps(s)
    BY <2>1, SameKeeps
  <2> QED
    BY <2>1, <2>2, <2>3, <2>4, LessIsGood
<1>3. CASE Authorize(p, c)
  <2> DEFINE code == [id |-> issued + 1, client |-> c, expires |-> now + CodeTTL]
             s == [file EXCEPT !.codes = @ \cup {code}]
  <2>1. s.codes = file.codes \cup {code} /\ s.refresh = file.refresh /\ code.id = issued + 1
    BY <1>1 DEF Stores
  <2>2. Writes(p, s, NoReply) /\ issued' = issued + 1
    BY <1>1, <1>3 DEF Authorize
  <2>3. NoReply.got = {} /\ NoReply.cut = {}
    BY DEF NoReply
  <2> HIDE DEF s, code
  <2>4. Keeps(s)
    BY <2>1, SameKeeps
  <2>5. /\ issued \in Nat
        /\ \A x \in file.codes : x.id \in Nat /\ x.id <= issued
        /\ \A x \in file.refresh : x.id \in Nat /\ x.family \in Nat /\ x.id <= issued /\ x.family <= issued
    BY OneReads DEF Typed, TypeOK, CodeRecs, RefreshRecs, Ids
  <2>6. Coherent(s, issued + 1)
    BY <2>1, <2>5 DEF GrantInv, Grants, Coherent
  <2>7. \A h \in held : Accounted(h, s)
    <3>1. \A h \in held : h.from \in Nat /\ h.from <= issued /\ Accounted(h, file)
      BY DEF Typed, TypeOK, Pairs, Ids, GrantInv, Grants, Old
    <3> QED
      BY <2>1, <2>5, <3>1 DEF Accounted
  <2> QED
    BY <2>2, <2>3, <2>4, <2>5, <2>6, <2>7 DEF GoodWrite
<1> QED
  BY <1>2, <1>3

\* The requests that only take records away: a code that is refused, expired
\* tokens, and the family of a token that is used again too late.
LEMMA RemovalGood ==
    ASSUME Typed, GrantInv, NEW p \in Servers,
           \/ \E id \in Ids, matches \in BOOLEAN : ExchangeRefused(p, id, matches)
           \/ \E h \in held : RefreshUnknown(p, h)
           \/ \E r \in Read.refresh : RefreshReused(p, r)
           \/ \E t \in Read.tokens : VerifyExpired(p, t)
    PROVE  \E s, a, n : GoodWrite(p, s, a, n)
<1>1. Read = file /\ file \in Stores
  BY OneReads
<1>2. NoReply.got = {} /\ NoReply.cut = {}
  BY DEF NoReply
<1>3. ASSUME NEW id \in Ids, NEW matches \in BOOLEAN, ExchangeRefused(p, id, matches)
      PROVE  \E s, a, n : GoodWrite(p, s, a, n)
  <2> DEFINE s == Spent(file, {r \in file.codes : r.id = id})
  <2>1. s.codes \subseteq file.codes /\ s.refresh = file.refresh
    BY <1>1 DEF Stores, Spent
  <2>2. Writes(p, s, NoReply) /\ UNCHANGED issued
    BY <1>1, <1>3 DEF ExchangeRefused
  <2> HIDE DEF s
  <2>3. Keeps(s)
    BY <2>1, SameKeeps
  <2> QED
    BY <1>2, <2>1, <2>2, <2>3, LessIsGood
<1>4. ASSUME NEW h \in held, RefreshUnknown(p, h)
      PROVE  \E s, a, n : GoodWrite(p, s, a, n)
  <2> DEFINE s == [file EXCEPT !.refresh = Unexpired(file.refresh)]
  <2>1. s.codes = file.codes /\ s.refresh = Unexpired(file.refresh)
    BY <1>1 DEF Stores
  <2>2. Writes(p, s, NoReply) /\ UNCHANGED issued
    BY <1>1, <1>4 DEF RefreshUnknown
  <2> HIDE DEF s
  <2>3. Unexpired(file.refresh) \subseteq file.refresh
        /\ \A r \in file.refresh : r.expires < now \/ r \in Unexpired(file.refresh)
    BY OneReads DEF Unexpired, RefreshRecs, Typed, TypeOK
  <2>4. Keeps(s)
    BY <2>1, <2>3, SameKeeps
  <2> QED
    BY <1>2, <2>1, <2>2, <2>3, <2>4, LessIsGood
<1>5. ASSUME NEW r \in file.refresh, RefreshReused(p, r)
      PROVE  \E s, a, n : GoodWrite(p, s, a, n)
  <2> DEFINE s == [file EXCEPT !.refresh = Unexpired(@) \ Relatives(r)]
             a == [NoReply EXCEPT !.cut = {r.family}]
  <2>1. s.codes = file.codes /\ s.refresh = Unexpired(file.refresh) \ Relatives(r)
    BY <1>1 DEF Stores
  <2>2. Writes(p, s, a) /\ UNCHANGED issued
    BY <1>1, <1>5 DEF RefreshReused
  <2>3. a.got = {} /\ a.cut = {r.family}
    BY DEF NoReply
  <2> HIDE DEF s, a
  <2>4. Unexpired(file.refresh) \subseteq file.refresh
        /\ \A x \in file.refresh : x.expires < now \/ x \in Unexpired(file.refresh)
    BY OneReads DEF Unexpired, RefreshRecs, Typed, TypeOK
  <2>5. Relatives(r) = {x \in file.refresh : x.family = r.family}
    BY <1>1 DEF Relatives
  <2>6. \A x \in s.refresh : x.family # r.family
    BY <2>1, <2>4, <2>5
  <2>7. Keeps(s)
    BY <2>1, <2>4, <2>5 DEF Keeps
  <2>8. r.family <= issued
    BY OneReads
  <2> QED
    BY <2>1, <2>2, <2>3, <2>4, <2>6, <2>7, <2>8, LessIsGood
<1>6. ASSUME NEW t \in Read.tokens, VerifyExpired(p, t)
      PROVE  \E s, a, n : GoodWrite(p, s, a, n)
  <2> DEFINE s == [file EXCEPT !.tokens = @ \ {t}]
  <2>1. s.codes = file.codes /\ s.refresh = file.refresh
    BY <1>1 DEF Stores
  <2>2. Writes(p, s, NoReply) /\ UNCHANGED issued
    BY <1>1, <1>6 DEF VerifyExpired
  <2> HIDE DEF s
  <2>3. Keeps(s)
    BY <2>1, SameKeeps
  <2> QED
    BY <1>2, <2>1, <2>2, <2>3, LessIsGood
<1> QED
  BY <1>1, <1>3, <1>4, <1>5, <1>6

\* exchange_code and refresh_access_token keep the tokens that have not expired and
\* add one that has not been used.
LEMMA IssueParts ==
    ASSUME Typed, NEW s \in Stores, NEW c, NEW f
    PROVE  /\ Issue(s, c, f).codes = s.codes
           /\ \E x : /\ Issue(s, c, f).refresh = Unexpired(s.refresh) \cup {x}
                    /\ x.id = issued + 1 /\ x.family = f /\ x.rotated = Never
<1> DEFINE x == [id |-> issued + 1, client |-> c, family |-> f,
                 expires |-> now + RefreshTTL, rotated |-> Never]
<1>1. Issue(s, c, f).codes = s.codes /\ Issue(s, c, f).refresh = Unexpired(s.refresh) \cup {x}
  BY DEF Issue, Stores
<1>2. x.id = issued + 1 /\ x.family = f /\ x.rotated = Never
  OBVIOUS
<1> HIDE DEF x
<1> QED
  BY <1>1, <1>2

\* exchange_code: the code is gone from the store that holds the tokens.
LEMMA ExchangeGood ==
    ASSUME Typed, GrantInv, NEW p \in Servers, NEW r \in Read.codes, Exchange(p, r)
    PROVE  \E s, a, n : GoodWrite(p, s, a, n)
<1>1. Read = file /\ file \in Stores
  BY OneReads
<1> DEFINE spent == Spent(file, {r})
           s == Issue(spent, r.client, issued + 1)
           a == Receives(issued + 1, r.id)
<1>2. spent \in Stores /\ spent.codes = file.codes \ {r} /\ spent.refresh = file.refresh
  BY <1>1 DEF Stores, Spent
<1>3. Writes(p, s, a) /\ issued' = issued + 1 /\ issued < MaxIssued
  BY <1>1 DEF Exchange
<1> HIDE DEF spent
<1>4. PICK x : /\ s.refresh = Unexpired(file.refresh) \cup {x}
               /\ x.id = issued + 1 /\ x.family = issued + 1 /\ x.rotated = Never
  BY <1>2, IssueParts
<1>5. s.codes = file.codes \ {r}
  BY <1>2, IssueParts
<1>6. Unexpired(file.refresh) \subseteq file.refresh
      /\ \A y \in file.refresh : y.expires < now \/ y \in Unexpired(file.refresh)
  BY OneReads DEF Unexpired, RefreshRecs, Typed, TypeOK
<1>7. /\ issued \in Nat /\ now \in Nat /\ Grace \in Nat /\ issued + 1 \in Ids
      /\ \A y \in file.codes : y.id \in Nat /\ y.id <= issued
      /\ \A y \in file.refresh : y.id \in Nat /\ y.family \in Nat /\ y.id <= issued /\ y.family <= issued
                                /\ y.rotated \in Nat
  BY <1>3, OneReads, BoundsAssumption DEF Typed, TypeOK, CodeRecs, RefreshRecs, Ids
<1>8. /\ a.cut = {}
      /\ \A g \in a.got : g.id = issued + 1 /\ g.family = issued + 1 /\ g.from = r.id /\ g.at = now
      /\ \A g, k \in a.got : g = k
  <2>1. r.id \in Ids /\ issued + 1 \in Ids
    BY <1>1, <1>7, OneReads DEF CodeRecs
  <2> QED
    BY <2>1, NewPair
<1> HIDE DEF s, a
<1>9. Ids \subseteq Nat
  BY DEF Ids
<1>10. now >= 1 /\ Coherent(file, issued) /\ \A f \in revoked : f \in Nat /\ f <= issued
  BY <1>9 DEF GrantInv, Grants, Typed, TypeOK
<1>11. Coherent(s, issued + 1)
  <2>1. \A y \in s.refresh : y = x \/ y \in file.refresh
    BY <1>4, <1>6
  <2>2. \A y \in file.refresh : y.id # x.id /\ y.id \in Nat
    BY <1>4, <1>7, <1>9
  <2>3. \A y \in file.codes : y.id # x.id /\ y.id \in Nat
    BY <1>4, <1>7, <1>9
  <2>4. \A y, z \in s.refresh : y.id = z.id => y = z
    BY <1>10, <2>1, <2>2 DEF Coherent
  <2>5. \A y \in s.codes, z \in s.refresh : y.id # z.id
    BY <1>5, <1>10, <2>1, <2>3 DEF Coherent
  <2>6. issued + 1 \notin revoked
    BY <1>7, <1>10
  <2>7. \A y \in s.refresh : y.rotated <= now /\ y.family <= issued + 1 /\ y.family \notin revoked
    BY <1>4, <1>7, <1>9, <1>10, <2>1, <2>6 DEF Coherent, Never
  <2> QED
    BY <1>5, <1>10, <2>4, <2>5, <2>7 DEF Coherent
<1>12. Keeps(s)
  BY <1>4, <1>6, SameKeeps
<1>13. \A h \in held : /\ h.from \in Nat /\ h.id \in Nat /\ h.family \in Nat
                       /\ Old(h, issued) /\ Accounted(h, file)
  BY <1>9 DEF Typed, TypeOK, Pairs, GrantInv, Grants
<1>14. \A h \in held : Accounted(h, s)
  BY <1>4, <1>5, <1>6, <1>7, <1>9, <1>13 DEF Accounted, Old
<1>15. \A g \in a.got : Old(g, issued + 1)
  <2>1. r.id \in Nat /\ r.id <= issued
    BY <1>1, <1>7, <1>9
  <2> QED
    BY <1>7, <1>8, <2>1 DEF Old
<1>16. \A g \in a.got : Accounted(g, s)
  BY <1>1, <1>4, <1>5, <1>6, <1>7, <1>8, <1>9, <1>10 DEF Accounted, Coherent
<1>17. \A g \in a.got : \A h \in held : Compatible(h, g)
  BY <1>1, <1>8, <1>13 DEF Accounted, Compatible
<1>18. \A g, k \in a.got : Compatible(g, k)
  BY <1>7, <1>8 DEF Compatible
<1> QED
  BY <1>3, <1>7, <1>8, <1>11, <1>12, <1>14, <1>15, <1>16, <1>17, <1>18 DEF GoodWrite

\* refresh_access_token: the token that is traded is in the store as rotated, since
\* its first use.
LEMMA TradeGood ==
    ASSUME Typed, GrantInv, NEW p \in Servers, NEW r \in Read.refresh, RefreshTraded(p, r)
    PROVE  \E s, a, n : GoodWrite(p, s, a, n)
<1>1. Read = file /\ file \in Stores
  BY OneReads
<1> DEFINE rest == [file EXCEPT !.refresh = (@ \ {r}) \cup {Rotated(r)}]
           s == Issue(rest, r.client, r.family)
           a == Receives(r.family, r.id)
<1>2. /\ r \in RefreshRecs /\ Rotated(r) \in RefreshRecs
      /\ Rotated(r).id = r.id /\ Rotated(r).family = r.family
      /\ Rotated(r).rotated = IF r.rotated # Never THEN r.rotated ELSE now
      /\ r.expires >= now => Rotated(r).expires >= now
  BY <1>1, RotatedRec DEF Stores, Typed
<1>3. rest \in Stores /\ rest.codes = file.codes
      /\ rest.refresh = (file.refresh \ {r}) \cup {Rotated(r)}
  BY <1>1, <1>2 DEF Stores
<1>4. /\ Writes(p, s, a) /\ issued' = issued + 1 /\ issued < MaxIssued
      /\ InGrace(r) /\ r.expires >= now
  BY <1>1 DEF RefreshTraded, Unexpired
<1> HIDE DEF rest
<1>5. PICK x : /\ s.refresh = Unexpired(rest.refresh) \cup {x}
               /\ x.id = issued + 1 /\ x.family = r.family /\ x.rotated = Never
  <2>1. rest \in Stores
    BY <1>3
  <2>2. \A c, f : \E x : /\ Issue(rest, c, f).refresh = Unexpired(rest.refresh) \cup {x}
                       /\ x.id = issued + 1 /\ x.family = f /\ x.rotated = Never
    BY <2>1, IssueParts
  <2> QED
    BY <2>2
<1>6. s.codes = file.codes
  BY <1>3, IssueParts
<1>7. /\ issued \in Nat /\ now \in Nat /\ Grace \in Nat /\ issued + 1 \in Ids
      /\ \A y \in file.codes : y.id \in Nat /\ y.id <= issued
      /\ \A y \in file.refresh : y.id \in Nat /\ y.family \in Nat /\ y.id <= issued /\ y.family <= issued
                                /\ y.rotated \in Nat /\ y.expires \in Nat
  BY <1>4, OneReads, BoundsAssumption DEF Typed, TypeOK, CodeRecs, RefreshRecs, Ids
<1>8. /\ a.cut = {}
      /\ \A g \in a.got : g.id = issued + 1 /\ g.family = r.family /\ g.from = r.id /\ g.at = now
      /\ \A g, k \in a.got : g = k
  <2>1. r.id \in Ids /\ r.family \in Ids
    BY <1>2 DEF RefreshRecs
  <2> QED
    BY <2>1, NewPair
<1> HIDE DEF s, a
<1>9. Ids \subseteq Nat
  BY DEF Ids
<1>10. now >= 1 /\ Coherent(file, issued) /\ \A f \in revoked : f \in Nat /\ f <= issued
  BY <1>9 DEF GrantInv, Grants, Typed, TypeOK
<1>11. /\ \A y \in s.refresh : y = x \/ y = Rotated(r) \/ y \in file.refresh \ {r}
       /\ \A y \in file.refresh \ {r} : y.expires < now \/ y \in s.refresh
       /\ Rotated(r) \in s.refresh
  BY <1>2, <1>3, <1>4, <1>5, <1>7 DEF Unexpired
<1>12. /\ Rotated(r).rotated \in Nat /\ Rotated(r).rotated # Never
       /\ Rotated(r).rotated <= now /\ now - Rotated(r).rotated <= Grace
  BY <1>1, <1>2, <1>4, <1>7, <1>10 DEF Coherent, InGrace, Never
<1>13. Coherent(s, issued + 1)
  <2>0. /\ \A y \in file.refresh : y.id # x.id
        /\ \A y \in file.refresh \ {r} : y.id # r.id
        /\ Rotated(r).id # x.id
    BY <1>1, <1>2, <1>5, <1>7, <1>9, <1>10 DEF Coherent
  <2>1. \A y, z \in s.refresh : y.id = z.id => y = z
    BY <1>2, <1>10, <1>11, <2>0 DEF Coherent
  <2>2. \A y \in s.codes, z \in s.refresh : y.id # z.id
    BY <1>1, <1>2, <1>5, <1>6, <1>7, <1>9, <1>10, <1>11 DEF Coherent
  <2>3. \A y \in s.refresh : y.rotated <= now /\ y.family <= issued + 1 /\ y.family \notin revoked
    BY <1>1, <1>2, <1>5, <1>7, <1>9, <1>10, <1>11, <1>12 DEF Coherent, Never
  <2>4. \A y, z \in s.codes : y.id = z.id => y = z
    BY <1>6, <1>10 DEF Coherent
  <2> QED
    BY <2>1, <2>2, <2>3, <2>4 DEF Coherent
<1>14. Keeps(s)
  BY <1>2, <1>11 DEF Keeps
<1>15. \A h \in held : /\ h.from \in Nat /\ h.id \in Nat /\ h.family \in Nat /\ h.at \in Nat
                       /\ Old(h, issued) /\ Accounted(h, file)
  BY <1>9 DEF Typed, TypeOK, Pairs, GrantInv, Grants
<1>16. \A h \in held : Accounted(h, s)
  <2> SUFFICES ASSUME NEW h \in held PROVE Accounted(h, s)
    OBVIOUS
  <2>1. \A c \in s.codes : c.id # h.from
    BY <1>6, <1>15 DEF Accounted
  <2>2. ASSUME NEW y \in s.refresh, y.id = h.from
        PROVE  /\ h.family # h.id /\ y.rotated # Never
               /\ y.rotated <= h.at /\ h.at - y.rotated <= Grace
    <3>1. CASE y = x
      BY <1>5, <1>7, <1>15, <2>2, <3>1 DEF Old
    <3>2. CASE y = Rotated(r)
      BY <1>1, <1>2, <1>15, <2>2, <3>2 DEF Accounted
    <3>3. CASE y \in file.refresh \ {r}
      BY <1>15, <2>2, <3>3 DEF Accounted
    <3> QED
      BY <1>11, <3>1, <3>2, <3>3
  <2> QED
    BY <2>1, <2>2 DEF Accounted
<1>17. \A g \in a.got : Old(g, issued + 1)
  <2>1. r.id \in Nat /\ r.id <= issued /\ r.family \in Nat /\ r.family <= issued
    BY <1>1, <1>7, <1>9
  <2> QED
    BY <1>7, <1>8, <2>1 DEF Old
<1>18. \A g \in a.got : Accounted(g, s)
  <2> SUFFICES ASSUME NEW g \in a.got PROVE Accounted(g, s)
    OBVIOUS
  <2>1. g.id = issued + 1 /\ g.family = r.family /\ g.from = r.id /\ g.at = now
    BY <1>8
  <2>2. \A c \in s.codes : c.id # g.from
    BY <1>1, <1>6, <1>10, <2>1 DEF Coherent
  <2>3. /\ r.id <= issued /\ r.id \in Nat /\ r.family <= issued /\ r.family \in Nat
        /\ g.family # g.id
    <3>1. r.id <= issued /\ r.id \in Nat /\ r.family <= issued /\ r.family \in Nat
      BY <1>1, <1>7, <1>9
    <3> QED
      BY <1>7, <2>1, <3>1
  <2>4. ASSUME NEW y \in s.refresh, y.id = g.from
        PROVE  y = Rotated(r)
    BY <1>1, <1>5, <1>7, <1>10, <1>11, <2>1, <2>3, <2>4 DEF Coherent
  <2> QED
    BY <1>12, <2>1, <2>2, <2>3, <2>4 DEF Accounted
<1>19. \A g \in a.got : \A h \in held : Compatible(h, g)
  <2> SUFFICES ASSUME NEW g \in a.got, NEW h \in held, h.from = g.from
               PROVE  /\ ~ (h.family = h.id /\ g.family = g.id)
                      /\ g.at - h.at <= Grace /\ h.at - g.at <= Grace
    BY DEF Compatible
  <2>1. g.family = r.family /\ g.from = r.id /\ g.at = now
    BY <1>8
  <2>2. h.family # h.id /\ r.rotated # Never /\ r.rotated <= h.at /\ h.at - r.rotated <= Grace
    BY <1>1, <1>15, <2>1 DEF Accounted
  <2>3. now - r.rotated <= Grace /\ r.rotated <= now /\ r.rotated \in Nat
    BY <1>1, <1>4, <1>7, <1>10, <2>2 DEF InGrace, Coherent
  <2> QED
    BY <1>7, <1>15, <2>1, <2>2, <2>3
<1>20. \A g, k \in a.got : Compatible(g, k)
  BY <1>7, <1>8 DEF Compatible
<1> QED
  BY <1>4, <1>7, <1>8, <1>13, <1>14, <1>16, <1>17, <1>18, <1>19, <1>20 DEF GoodWrite

LEMMA RequestGood ==
    ASSUME Typed, GrantInv, NEW p \in Servers, Request(p)
    PROVE  \E s, a, n : GoodWrite(p, s, a, n)
BY AuthorizeGood, RemovalGood, ExchangeGood, TradeGood DEF Request

\* The numbers of a store that is coherent stay below a higher counter.
LEMMA Grows ==
    ASSUME Typed, GrantInv, NEW p \in Servers, NEW n \in Nat, issued <= n
    PROVE  /\ Coherent(file, n) /\ \A h \in held : Old(h, n)
           /\ \A f \in revoked : f <= n
<1>1. /\ issued \in Nat /\ \A f \in revoked : f \in Nat
      /\ \A h \in held : h.id \in Nat /\ h.family \in Nat /\ h.from \in Nat
      /\ \A x \in file.refresh : x.family \in Nat
  BY OneReads DEF Typed, TypeOK, Pairs, Ids, RefreshRecs
<1> QED
  BY <1>1 DEF GrantInv, Grants, Coherent, Old

\* Nothing is in the empty store.
LEMMA EmptyFits ==
    ASSUME NEW n
    PROVE  /\ Coherent(EmptyStore, n) /\ \A h : Accounted(h, EmptyStore)
           /\ NoReply.got = {} /\ NoReply.cut = {}
BY DEF EmptyStore, Coherent, Accounted, NoReply

\* A request of the one server.
LEMMA GrantRequest ==
    ASSUME Typed, GrantInv, NEW p, Servers = {p}, Request(p)
    PROVE  GrantInv'
<1> PICK s, a, n : GoodWrite(p, s, a, n)
  BY RequestGood
<1>1. pc[p] = "idle" /\ pc \in [Servers -> {"idle", "open", "write", "replace", "answer"}]
      /\ new \in [Servers -> Stores] /\ reply \in [Servers -> Replies]
  BY DEF Request, Register, Authorize, ExchangeRefused, Exchange, RefreshUnknown,
         RefreshReused, RefreshTraded, VerifyExpired, Typed, TypeOK
<1>2. /\ pc'[p] = "open" /\ new'[p] = s /\ reply'[p] = a
      /\ UNCHANGED <<file, tmp, handle, now, held, revoked>> /\ issued' = n
  BY <1>1 DEF GoodWrite, Writes
<1>3. n \in Nat /\ issued <= n
  BY <1>2, RequestWrites DEF GoodWrite, Typed, TypeOK, WritesStore
<1>4. Alone(p)'
  BY <1>1, <1>2 DEF GrantInv, Alone, Writing
<1>5. Coherent(file, n) /\ (\A h \in held : Old(h, n)) /\ \A f \in revoked : f <= n
  BY <1>3, Grows
<1>6. Grants(p)'
  BY <1>2, <1>5 DEF GrantInv, Grants, GoodWrite, Coherent
<1>7. Pending(p)'
  BY <1>2 DEF GoodWrite, Pending, Writing, Target, Keeps
<1> QED
  BY <1>4, <1>6, <1>7 DEF GrantInv

\* A step of _write_store of the one server, or its end.
LEMMA GrantWrite ==
    ASSUME Typed, GrantInv, NEW p, Servers = {p}, WriteStep(p) \/ Crash(p)
    PROVE  GrantInv'
<1>1. /\ pc \in [Servers -> {"idle", "open", "write", "replace", "answer"}]
      /\ new \in [Servers -> Stores] /\ reply \in [Servers -> Replies]
      /\ handle \in [Servers -> {"closed", "tmp", "file", "lost"}]
  BY DEF Typed, TypeOK
<1>2. Alone(p) /\ Grants(p) /\ Pending(p)
  BY DEF GrantInv
<1>3. CASE Truncate(p)
  <2>1. pc[p] = "open" /\ pc'[p] = "write" /\ handle'[p] = "tmp" /\ tmp' = Torn
        /\ UNCHANGED <<file, new, reply, now, issued, held, revoked>>
    BY <1>1, <1>3 DEF Truncate
  <2>2. Alone(p)'
    BY <1>2, <2>1 DEF Alone, Writing
  <2>3. Grants(p)'
    BY <1>2, <2>1 DEF Grants, Coherent
  <2>4. Pending(p)'
    BY <1>2, <2>1 DEF Pending, Writing, Target, Keeps
  <2> QED
    BY <2>2, <2>3, <2>4 DEF GrantInv
<1>4. CASE Fill(p)
  <2>1. pc[p] = "write" /\ handle[p] = "tmp" /\ tmp = Torn
    BY <1>2, <1>4 DEF Fill, Alone
  <2>2. pc'[p] = "replace" /\ handle'[p] = "closed" /\ tmp' = new[p]
        /\ UNCHANGED <<file, new, reply, now, issued, held, revoked>>
    BY <1>1, <1>4, <2>1 DEF Fill, Written
  <2>3. Alone(p)'
    BY <1>2, <2>1, <2>2 DEF Alone, Writing
  <2>4. Grants(p)'
    BY <1>2, <2>2 DEF Grants, Coherent
  <2>5. Pending(p)'
    BY <1>2, <2>1, <2>2 DEF Pending, Writing, Target, Keeps
  <2> QED
    BY <2>3, <2>4, <2>5 DEF GrantInv
<1>5. CASE Replace(p)
  <2>1. pc[p] = "replace" /\ tmp = new[p] /\ new[p] \in Stores /\ handle[p] = "closed"
    BY <1>1, <1>2, <1>5 DEF Replace, Alone
  <2>2. tmp # Missing
    BY <2>1, TornIsNoStore
  <2>3. /\ pc'[p] = "answer" /\ file' = new[p] /\ handle'[p] = "closed" /\ new'[p] = EmptyStore
        /\ UNCHANGED <<reply, now, issued, held, revoked>>
    BY <1>1, <1>5, <2>1, <2>2 DEF Replace, Moved
  <2>4. Alone(p)'
    BY <2>1, <2>3 DEF Alone, Writing
  <2>5. Grants(p)'
    BY <1>2, <2>3, EmptyFits DEF Grants, Coherent
  <2>6. Pending(p)'
    BY <1>2, <2>1, <2>3 DEF Pending, Writing, Target
  <2> QED
    BY <2>4, <2>5, <2>6 DEF GrantInv
<1>6. CASE Answer(p)
  <2>1. /\ pc[p] = "answer" /\ pc'[p] = "idle" /\ new'[p] = EmptyStore
        /\ handle'[p] = "closed" /\ reply'[p] = NoReply
        /\ held' = held \cup reply[p].got /\ revoked' = revoked \cup reply[p].cut
        /\ UNCHANGED <<file, tmp, now, issued>>
    BY <1>1, <1>6 DEF Answer, Leave
  <2>2. Alone(p)'
    BY <1>2, <2>1 DEF Alone, Writing
  <2>3. Target(p) = file
    BY <2>1 DEF Target, Writing
  <2>4. Coherent(file, issued)'
    BY <1>2, <2>1, <2>3 DEF Grants, Pending, Coherent
  <2>5. Coherent(new[p], issued)' /\ \A h \in held' : Accounted(h, new'[p])
    BY <2>1, EmptyFits DEF Coherent, EmptyStore
  <2>6. /\ \A h \in held' : Old(h, issued) /\ Accounted(h, file)
        /\ \A f \in revoked' : f <= issued
    BY <1>2, <2>1, <2>3 DEF Grants, Pending
  <2>7. \A h, k \in held' : Compatible(h, k)
    BY <1>2, <2>1 DEF Grants, Pending, Compatible
  <2>8. Grants(p)'
    BY <1>2, <2>1, <2>4, <2>5, <2>6, <2>7 DEF Grants, Old, Accounted
  <2>9. Pending(p)'
    BY <2>1, EmptyFits DEF Pending, Writing
  <2> QED
    BY <2>2, <2>8, <2>9 DEF GrantInv
<1>7. CASE Crash(p)
  <2>1. /\ pc'[p] = "idle" /\ new'[p] = EmptyStore /\ handle'[p] = "closed" /\ reply'[p] = NoReply
        /\ UNCHANGED <<file, tmp, now, issued, held, revoked>>
    BY <1>1, <1>7 DEF Crash, Leave
  <2>2. Alone(p)'
    BY <1>2, <2>1 DEF Alone, Writing
  <2>3. Grants(p)'
    BY <1>2, <2>1, EmptyFits DEF Grants, Coherent
  <2>4. Pending(p)'
    BY <2>1, EmptyFits DEF Pending, Writing
  <2> QED
    BY <2>2, <2>3, <2>4 DEF GrantInv
<1> QED
  BY <1>3, <1>4, <1>5, <1>6, <1>7 DEF WriteStep

\* The clock only makes more records expire.
LEMMA GrantTick ==
    ASSUME Typed, GrantInv, Tick
    PROVE  GrantInv'
<1> SUFFICES ASSUME NEW p \in Servers
             PROVE  Alone(p)' /\ Grants(p)' /\ Pending(p)'
  BY DEF GrantInv, Tick
<1>1. now \in Nat /\ now' = now + 1
      /\ UNCHANGED <<file, tmp, pc, new, handle, reply, issued, held, revoked>>
  BY DEF Tick, Typed, TypeOK
<1>2. Alone(p) /\ Grants(p) /\ Pending(p)
  BY DEF GrantInv
<1>3. Alone(p)'
  BY <1>1, <1>2 DEF Alone, Writing
<1>4. file \in Stores /\ new[p] \in Stores
  BY <1>2 DEF Alone, Typed, TypeOK
<1>5. \A s \in Stores : Coherent(s, issued) => Coherent(s, issued)'
  <2>1. \A s \in Stores : \A r \in s.refresh : r.rotated \in Nat
    BY DEF Stores, RefreshRecs
  <2> QED
    BY <1>1, <2>1 DEF Coherent
<1>6. Grants(p)'
  BY <1>1, <1>2, <1>4, <1>5 DEF Grants, Coherent
<1>7. Keeps(new[p]) => Keeps(new[p])'
  <2>1. \A r \in file.refresh : r.expires \in Nat
    BY <1>4 DEF Stores, RefreshRecs
  <2> QED
    BY <1>1, <2>1 DEF Keeps
<1>8. Pending(p)'
  BY <1>1, <1>2, <1>7 DEF Pending, Writing, Target
<1> QED
  BY <1>3, <1>6, <1>8

LEMMA GrantNext ==
    ASSUME OneServer, Typed, GrantInv, [Next]_vars
    PROVE  GrantInv'
<1> PICK p : Servers = {p}
  BY DEF OneServer
<1>1. CASE Request(p)
  BY <1>1, GrantRequest
<1>2. CASE WriteStep(p) \/ Crash(p)
  BY <1>2, GrantWrite
<1>3. CASE Tick
  BY <1>3, GrantTick
<1>4. CASE UNCHANGED vars
  BY <1>4 DEF vars, GrantInv, Alone, Grants, Pending, Coherent, Target, Keeps
<1> QED
  BY <1>1, <1>2, <1>3, <1>4 DEF Next

LEMMA GrantInit == Init => GrantInv
<1> SUFFICES ASSUME Init, NEW p \in Servers
             PROVE  Alone(p) /\ Grants(p) /\ Pending(p)
  BY DEF GrantInv
<1>1. EmptyStore \in Stores
  BY DEF EmptyStore, Stores
<1> QED
  BY <1>1, EmptyFits DEF Init, Alone, Grants, Pending, Writing

\* The invariant of the grants in every reachable state of one server.
THEOREM GrantsKept ==
    ASSUME OneServer
    PROVE  Spec => [](Typed /\ GrantInv)
<1>1. Init => GrantInv
  BY GrantInit
<1>2. Typed /\ GrantInv /\ [Next]_vars => GrantInv'
  BY GrantNext
<1> QED
  BY <1>1, <1>2, StoreTyped, PTL DEF Spec

\* What the invariant says of the file and of the tokens clients hold.
LEMMA GrantImplies ==
    ASSUME OneServer, Typed, GrantInv
    PROVE  StoreSound /\ CodeSpentOnce /\ RevokedStaysDead /\ GraceFromFirstUse
<1> PICK p : Servers = {p}
  BY DEF OneServer
<1>1. Alone(p) /\ Grants(p) /\ Read = file
  BY OneReads DEF GrantInv
<1>2. StoreSound
  BY <1>1, TornIsNoStore DEF StoreSound, StoreWhole, Typed, Alone
<1>3. CodeSpentOnce /\ GraceFromFirstUse
  BY <1>1 DEF Grants, Compatible, CodeSpentOnce, GraceFromFirstUse
<1>4. RevokedStaysDead
  BY <1>1 DEF Grants, Coherent, RevokedStaysDead
<1> QED
  BY <1>2, <1>3, <1>4

\* _write_store: one server reads a complete store at any moment, also after it has
\* been killed in a write, and every secret in it has been drawn.
THEOREM StoreStaysSound ==
    ASSUME OneServer
    PROVE  Spec => []StoreSound
BY GrantsKept, GrantImplies, PTL

\* exchange_code: a code brings tokens to a client once at most.
THEOREM CodeIsSpent ==
    ASSUME OneServer
    PROVE  Spec => []CodeSpentOnce
BY GrantsKept, GrantImplies, PTL

\* refresh_access_token: after a client has been told that its grant is revoked, no
\* token of the grant is stored again.
THEOREM RevocationIsFinal ==
    ASSUME OneServer
    PROVE  Spec => []RevokedStaysDead
BY GrantsKept, GrantImplies, PTL

\* refresh_access_token: all uses of one refresh token that bring new ones lie
\* within the grace period that begins with the first.
THEOREM GraceIsOnce ==
    ASSUME OneServer
    PROVE  Spec => []GraceFromFirstUse
BY GrantsKept, GrantImplies, PTL

\* _write_store and _prune_refresh_tokens: a write of the file loses no refresh token
\* that has not expired, but the whole family of one that is used again too late.
THEOREM GrantsSurviveWrites ==
    ASSUME OneServer
    PROVE  Spec => WriteKeepsGrants
<1>1. Typed /\ GrantInv /\ [Next]_vars =>
        [\A r \in Read.refresh :
            \/ r.expires < now
            \/ \E x \in Read'.refresh : x.id = r.id
            \/ ~ \E x \in Read'.refresh : x.family = r.family]_file
  <2> SUFFICES ASSUME Typed, GrantInv, [Next]_vars, file' # file, NEW r \in Read.refresh
               PROVE  \/ r.expires < now
                      \/ \E x \in Read'.refresh : x.id = r.id
                      \/ ~ \E x \in Read'.refresh : x.family = r.family
    OBVIOUS
  <2> PICK p : Servers = {p}
    BY DEF OneServer
  <2>1. Alone(p) /\ Pending(p) /\ Read = file /\ file \in Stores
    BY OneReads DEF GrantInv
  <2>2. Replace(p) /\ tmp # Missing
    <3>1. CASE Request(p)
      BY <3>1, RequestGood DEF GoodWrite, Writes
    <3>2. CASE Fill(p)
      BY <2>1, <3>2 DEF Fill, Alone
    <3>3. CASE Truncate(p) \/ Answer(p) \/ Crash(p) \/ Tick \/ UNCHANGED vars
      BY <3>3 DEF Truncate, Answer, Crash, Tick, vars
    <3>4. CASE Replace(p)
      BY <3>4 DEF Replace
    <3> QED
      BY <3>1, <3>2, <3>3, <3>4 DEF Next, WriteStep
  <2>3. pc[p] = "replace" /\ file' = new[p] /\ new[p] \in Stores
    BY <2>1, <2>2 DEF Replace, Alone, Typed, TypeOK
  <2>4. Read' = new[p]
    BY <2>3, TornIsNoStore DEF Read
  <2> QED
    BY <2>1, <2>3, <2>4 DEF Pending, Writing, Keeps
<1> QED
  BY <1>1, GrantsKept, PTL DEF Spec, WriteKeepsGrants

================================================================================
