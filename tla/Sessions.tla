------------------------------ MODULE Sessions ------------------------------
(***************************************************************************)
(* internal/auth/service.go, session.go and janitor.go over db/sessions.go *)
(* and db/users.go's database: opening, checking and closing sessions by   *)
(* concurrent requests, the in-process cache in front of the table, the    *)
(* janitor, and restarts of the process (which empty the cache).           *)
(*                                                                         *)
(* A token stands for its hash and for its user.  Each method is split     *)
(* where it calls the cache (one lock each), the database or the clock, so *)
(* that anything may happen between two calls.                             *)
(***************************************************************************)
EXTENDS Integers, FiniteSets, Functions

CONSTANTS Token,       \* session tokens, each generated at most once
          NoToken,     \* what an idle request works on
          Request,     \* concurrent HTTP requests
          SessionTTL,  \* s.ttl
          CacheTTL,    \* cacheTTL
          MaxEntries,  \* cacheMaxEntries
          Skews,       \* how far the database's clock may be ahead
          MaxTime      \* bound on the clock

ASSUME NoTokenAssumption == NoToken \notin Token
ASSUME TTLAssumption == SessionTTL \in Nat \ {0} /\ CacheTTL \in Nat
ASSUME MaxEntriesAssumption == MaxEntries \in Nat \ {0}
ASSUME SkewsAssumption == Skews \subseteq Int
ASSUME MaxTimeAssumption == MaxTime \in Nat

Entry == [expiresAt : Nat, cachedAt : Nat]
NoEntry == [expiresAt |-> 0, cachedAt |-> 0]

VARIABLES
    now,      \* s.now()
    skew,     \* the database's now() minus s.now()
    db,       \* the sessions table: expires_at of each row
    cache,    \* c.entries
    pc,       \* where each request is
    tok,      \* the token it works on
    entry,    \* the cache entry Get read
    row,      \* the expires_at it got from, or is giving, the database
    began,    \* history: when the Authenticate request arrived
    issued,   \* history: the expiry given to each token, 0 before that
    leaving,  \* history: the tokens whose logout has begun
    revoked,  \* history: the tokens whose logout has deleted the row
    heldAt    \* history: when the row was last in the table or in a request

request == <<pc, tok, entry, row, began>>
history == <<issued, leaving, revoked>>
vars == <<now, skew, db, cache, request, history, heldAt>>

Init == /\ now = 0
        /\ skew \in Skews
        /\ db = [t \in {} |-> 0]
        /\ cache = [t \in {} |-> 0]
        /\ pc = [r \in Request |-> "idle"]
        /\ tok = [r \in Request |-> NoToken]
        /\ entry = [r \in Request |-> NoEntry]
        /\ row = [r \in Request |-> 0]
        /\ began = [r \in Request |-> 0]
        /\ issued = [t \in Token |-> 0]
        /\ leaving = {}
        /\ revoked = {}
        /\ heldAt = [t \in Token |-> 0]

Holds(r, t) == tok[r] = t /\ pc[r] \in {"check", "put", "create", "remember"}

Held(t) == t \in DOMAIN db \/ \E r \in Request : Holds(r, t)

\* History: the last instant at which the row existed somewhere.
Observe == heldAt' = [t \in Token |-> IF Held(t) THEN now ELSE heldAt[t]]

\* What an action leaves alone, and the history every action records.
Frame(v) == UNCHANGED v /\ Observe

\* A method returns; its local variables are gone.
Return(r) == /\ pc' = [pc EXCEPT ![r] = "idle"]
             /\ tok' = [tok EXCEPT ![r] = NoToken]
             /\ entry' = [entry EXCEPT ![r] = NoEntry]
             /\ row' = [row EXCEPT ![r] = 0]
             /\ began' = [began EXCEPT ![r] = 0]

Goto(r, from, to) == pc[r] = from /\ pc' = [pc EXCEPT ![r] = to]

-----------------------------------------------------------------------------
(* SessionCache *)

Insert(f, t, v) == [x \in DOMAIN f \cup {t} |-> IF x = t THEN v ELSE f[x]]
Without(f, t) == Restrict(f, DOMAIN f \ {t})

\* Mutant: an entry is good for as long as the session.
StaleMutantForever(e) == now >= e.expiresAt

\* Get and sweepLocked apply the same test.
Stale(e) == now - e.cachedAt > CacheTTL \/ now >= e.expiresAt

Swept == Restrict(cache, {t \in DOMAIN cache : ~Stale(cache[t])})

\* Mutant: a full cache is swept but never refuses.
PutMutantUnbounded(t, expiresAt) ==
    cache' = Insert(IF Cardinality(DOMAIN cache) >= MaxEntries THEN Swept ELSE cache,
                    t, [expiresAt |-> expiresAt, cachedAt |-> now])

\* A new entry for a full cache is refused unless the sweep frees something.
Put(t, expiresAt) ==
    LET full == t \notin DOMAIN cache /\ Cardinality(DOMAIN cache) >= MaxEntries
    IN  IF full /\ Swept = cache
        THEN UNCHANGED cache
        ELSE cache' = Insert(IF full THEN Swept ELSE cache, t,
                             [expiresAt |-> expiresAt, cachedAt |-> now])

-----------------------------------------------------------------------------
(* Authenticate *)

\* The read-locked half of Get; a miss goes to the database.
Authenticate(r, t) ==
    /\ pc[r] = "idle"
    /\ issued[t] # 0
    /\ tok' = [tok EXCEPT ![r] = t]
    /\ began' = [began EXCEPT ![r] = now]
    /\ IF t \in DOMAIN cache
       THEN /\ pc' = [pc EXCEPT ![r] = "judge"]
            /\ entry' = [entry EXCEPT ![r] = cache[t]]
       ELSE /\ pc' = [pc EXCEPT ![r] = "query"]
            /\ UNCHANGED entry
    /\ Frame(<<now, skew, db, cache, row, history>>)

\* The other half, on the clock read after the lock was released.
Judge(r) ==
    /\ pc[r] = "judge"
    /\ pc' = [pc EXCEPT ![r] = IF Stale(entry[r]) THEN "evict" ELSE "accepted"]
    /\ entry' = [entry EXCEPT ![r] = NoEntry]
    /\ Frame(<<now, skew, db, cache, tok, row, began, history>>)

\* Get's Delete takes the lock again: the entry may be a newer one by now.
Evict(r) ==
    /\ Goto(r, "evict", "query")
    /\ cache' = Without(cache, tok[r])
    /\ Frame(<<now, skew, db, tok, entry, row, began, history>>)

\* SELECT ... WHERE expires_at > now(), on the database's clock.
QueryFinds(r) ==
    /\ Goto(r, "query", "check")
    /\ tok[r] \in DOMAIN db
    /\ db[tok[r]] > now + skew
    /\ row' = [row EXCEPT ![r] = db[tok[r]]]
    /\ Frame(<<now, skew, db, cache, tok, entry, began, history>>)

QueryFindsNothing(r) ==
    /\ Goto(r, "query", "rejected")
    /\ ~(tok[r] \in DOMAIN db /\ db[tok[r]] > now + skew)
    /\ Frame(<<now, skew, db, cache, tok, entry, row, began, history>>)

\* Mutant: whatever the database returns is believed.
CheckExpiryMutantNone(r) ==
    /\ pc[r] = "check"
    /\ pc' = [pc EXCEPT ![r] = "put"]
    /\ Frame(<<now, skew, db, cache, tok, entry, row, began, history>>)

\* The database's clock is not trusted alone.
CheckExpiry(r) ==
    /\ pc[r] = "check"
    /\ pc' = [pc EXCEPT ![r] = IF now < row[r] THEN "put" ELSE "rejected"]
    /\ Frame(<<now, skew, db, cache, tok, entry, row, began, history>>)

Refresh(r) ==
    /\ Goto(r, "put", "accepted")
    /\ Put(tok[r], row[r])
    /\ row' = [row EXCEPT ![r] = 0]
    /\ Frame(<<now, skew, db, tok, entry, began, history>>)

-----------------------------------------------------------------------------
(* Login and Register: openSession *)

\* A fresh token; nobody else knows it until the response carries it.
OpenSession(r, t) ==
    /\ pc[r] = "idle"
    /\ t \notin DOMAIN db
    /\ issued[t] = 0
    /\ \A q \in Request : tok[q] # t
    /\ pc' = [pc EXCEPT ![r] = "create"]
    /\ tok' = [tok EXCEPT ![r] = t]
    /\ row' = [row EXCEPT ![r] = now + SessionTTL]
    /\ Frame(<<now, skew, db, cache, entry, began, history>>)

CreateRow(r) ==
    /\ Goto(r, "create", "remember")
    /\ db' = Insert(db, tok[r], row[r])
    /\ Frame(<<now, skew, cache, tok, entry, row, began, history>>)

\* The response sets the cookie: the client may use the token from now on.
Remember(r) ==
    /\ pc[r] = "remember"
    /\ Put(tok[r], row[r])
    /\ issued' = [issued EXCEPT ![tok[r]] = row[r]]
    /\ Return(r)
    /\ Frame(<<now, skew, db, leaving, revoked>>)

-----------------------------------------------------------------------------
(* Logout: the cache first, then the table *)

Logout(r, t) ==
    /\ pc[r] = "idle"
    /\ issued[t] # 0
    /\ pc' = [pc EXCEPT ![r] = "revoke"]
    /\ tok' = [tok EXCEPT ![r] = t]
    /\ cache' = Without(cache, t)
    /\ leaving' = leaving \cup {t}
    /\ Frame(<<now, skew, db, entry, row, began, issued, revoked>>)

DeleteRow(r) ==
    /\ pc[r] = "revoke"
    /\ db' = Without(db, tok[r])
    /\ revoked' = revoked \cup {tok[r]}
    /\ Return(r)
    /\ Frame(<<now, skew, cache, issued, leaving>>)

-----------------------------------------------------------------------------
(* Any request *)

\* A call to the database fails: the method returns the error.  A statement
\* whose answer was lost has had its effect.
DatabaseFails(r) ==
    /\ pc[r] \in {"query", "create", "revoke"}
    /\ \/ UNCHANGED db
       \/ pc[r] = "create" /\ db' = Insert(db, tok[r], row[r])
       \/ pc[r] = "revoke" /\ db' = Without(db, tok[r])
    /\ Return(r)
    /\ Frame(<<now, skew, cache, history>>)

Respond(r) ==
    /\ pc[r] \in {"accepted", "rejected"}
    /\ Return(r)
    /\ Frame(<<now, skew, db, cache, history>>)

-----------------------------------------------------------------------------
(* The janitor, the clock, the process *)

\* Also SessionCache.Sweep.
Sweep ==
    /\ cache' = Swept
    /\ Frame(<<now, skew, db, request, history>>)

\* Mutant: sessions about to expire are deleted too.
DeleteExpiredMutantEarly ==
    /\ db' = Restrict(db, {t \in DOMAIN db : db[t] > now + CacheTTL})
    /\ Frame(<<now, skew, cache, request, history>>)

DeleteExpired ==
    /\ db' = Restrict(db, {t \in DOMAIN db : db[t] > now})
    /\ Frame(<<now, skew, cache, request, history>>)

ClockAdvances ==
    /\ now < MaxTime
    /\ now' = now + 1
    /\ Frame(<<skew, db, cache, request, history>>)

\* The requests in flight are lost with the process.
Restart ==
    /\ cache' = [t \in {} |-> 0]
    /\ pc' = [r \in Request |-> "idle"]
    /\ tok' = [r \in Request |-> NoToken]
    /\ entry' = [r \in Request |-> NoEntry]
    /\ row' = [r \in Request |-> 0]
    /\ began' = [r \in Request |-> 0]
    /\ Frame(<<now, skew, db, history>>)

-----------------------------------------------------------------------------
Step(r) == \/ Judge(r) \/ Evict(r) \/ QueryFinds(r) \/ QueryFindsNothing(r)
           \/ CheckExpiry(r) \/ Refresh(r)
           \/ CreateRow(r) \/ Remember(r) \/ DeleteRow(r)
           \/ DatabaseFails(r) \/ Respond(r)

Next ==
    \/ \E r \in Request :
          \/ \E t \in Token : Authenticate(r, t) \/ OpenSession(r, t) \/ Logout(r, t)
          \/ Step(r)
    \/ Sweep \/ DeleteExpired \/ ClockAdvances \/ Restart

Spec == Init /\ [][Next]_vars

-----------------------------------------------------------------------------
(* Properties *)

TypeOK ==
    /\ now \in 0..MaxTime
    /\ skew \in Skews
    /\ DOMAIN db \subseteq Token /\ db \in [DOMAIN db -> Nat]
    /\ DOMAIN cache \subseteq Token /\ cache \in [DOMAIN cache -> Entry]
    /\ \A t \in DOMAIN cache : cache[t].cachedAt <= now
    /\ pc \in [Request -> {"idle", "judge", "evict", "query", "check", "put",
                           "create", "remember", "revoke", "accepted", "rejected"}]
    /\ tok \in [Request -> Token \cup {NoToken}]
    /\ entry \in [Request -> Entry]
    /\ row \in [Request -> Nat]
    /\ began \in [Request -> Nat]
    /\ issued \in [Token -> Nat]
    /\ leaving \in SUBSET Token
    /\ revoked \in SUBSET leaving
    /\ heldAt \in [Token -> Nat]

\* However many sessions are open, at most MaxEntries are in memory.
CacheWithinBound == Cardinality(DOMAIN cache) <= MaxEntries

\* An accepted request carried a token whose session had not expired when the
\* request arrived: no entry, row or clock along the way outlives the expiry
\* fixed at login.
AcceptsOnlyLiveSessions ==
    \A r \in Request : pc[r] = "accepted" => began[r] < issued[tok[r]]

\* A logout takes effect within CacheTTL: a request accepted on a closed
\* session arrived at most CacheTTL after the row was last in the table or in
\* the hands of another request.
RevocationWithinTTL ==
    \A r \in Request :
        pc[r] = "accepted" => began[r] <= heldAt[tok[r]] + CacheTTL

\* A session that nobody closed and that has not expired (on either clock) is
\* never refused, whatever the janitor, the other requests and restarts of the
\* process do meanwhile.
RejectsOnlyForCause ==
    \A r \in Request :
        pc[r] = "rejected" => \/ tok[r] \in leaving
                              \/ now >= issued[tok[r]]
                              \/ now + skew >= issued[tok[r]]

-----------------------------------------------------------------------------
(* What the documentation says and the code does not do *)

\* docs/DECISIONES.md:101: "Logout invalida en DB y caché".  Once a logout has
\* returned, the cache would not answer for its token.
LogoutInvalidatesCache == revoked \cap DOMAIN cache = {}

=============================================================================
