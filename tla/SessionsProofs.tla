--------------------------- MODULE SessionsProofs ---------------------------
(***************************************************************************)
(* Safety of Sessions for every set of tokens and requests, every lifetime *)
(* and every size of the cache.                                            *)
(***************************************************************************)
EXTENDS Sessions, FiniteSetTheorems, TLAPS

-----------------------------------------------------------------------------
(* The inductive invariant *)

\* A row says what was said at login; a session leaves the table when its
\* owner closes it or when it has expired, not before.
Rows ==
    \A t \in Token :
        issued[t] # 0 => IF t \in DOMAIN db THEN db[t] = issued[t]
                         ELSE t \in leaving \/ now >= issued[t]

\* An entry says what was said at login, and was made of a row that was still
\* in somebody's hands.
Entries ==
    /\ IsFiniteSet(DOMAIN cache)
    /\ CacheWithinBound
    /\ \A t \in DOMAIN cache : /\ issued[t] # 0
                               /\ cache[t].expiresAt = issued[t]
                               /\ cache[t].cachedAt <= heldAt[t]

\* Nothing is observed before it happens.
Past == \A t \in Token : heldAt[t] <= now

\* What a request with a token that was handed out knows of it.
Knows(r) ==
    /\ began[r] <= now
    /\ pc[r] \in {"judge", "evict", "query", "check", "put", "accepted",
                  "rejected", "revoke"} => tok[r] \in Token /\ issued[tok[r]] # 0
    /\ pc[r] = "judge" => /\ entry[r].expiresAt = issued[tok[r]]
                          /\ entry[r].cachedAt <= heldAt[tok[r]]
    /\ pc[r] \in {"check", "put"} => row[r] = issued[tok[r]]
    /\ pc[r] \in {"put", "accepted"} => began[r] < issued[tok[r]]
    /\ pc[r] = "accepted" => began[r] <= heldAt[tok[r]] + CacheTTL
    /\ pc[r] = "rejected" => \/ tok[r] \in leaving
                             \/ now >= issued[tok[r]]
                             \/ now + skew >= issued[tok[r]]
    /\ pc[r] = "revoke" => tok[r] \in leaving

\* What a request that opens a session knows: the token is nobody else's.
Opens(r) ==
    pc[r] \in {"create", "remember"} =>
        /\ tok[r] \in Token
        /\ issued[tok[r]] = 0
        /\ row[r] # 0
        /\ \A q \in Request : q # r => tok[q] # tok[r]
        /\ pc[r] = "create" => tok[r] \notin DOMAIN db
        /\ pc[r] = "remember" => IF tok[r] \in DOMAIN db THEN db[tok[r]] = row[r]
                                 ELSE now >= row[r]

IInv == /\ TypeOK
        /\ Rows
        /\ Entries
        /\ Past
        /\ \A r \in Request : Knows(r) /\ Opens(r)

-----------------------------------------------------------------------------
(* Lemmas *)

\* What Observe records never goes back, and is the present instant when the
\* row is in the table or in a request.
LEMMA Observed ==
    ASSUME IInv, Observe
    PROVE  /\ heldAt' \in [Token -> Nat]
           /\ \A t \in Token : heldAt[t] <= heldAt'[t] /\ heldAt'[t] <= now
           /\ \A t \in Token : Held(t) => heldAt'[t] = now
<1>1. now \in Nat /\ heldAt \in [Token -> Nat] /\ \A t \in Token : heldAt[t] <= now
    BY MaxTimeAssumption DEF IInv, TypeOK, Past
<1>2. \A t \in Token : heldAt'[t] = IF Held(t) THEN now ELSE heldAt[t]
    BY DEF Observe
<1>3. heldAt' \in [Token -> Nat]
    BY <1>1 DEF Observe
<1> QED
    BY <1>1, <1>2, <1>3

\* A request that does nothing keeps what it knows while the others act.
LEMMA KnowsStays ==
    ASSUME IInv, Observe, NEW r \in Request,
           now' \in Nat, now <= now', skew' = skew,
           issued' \in [Token -> Nat],
           \A t \in Token : issued[t] # 0 => issued'[t] = issued[t],
           leaving \subseteq leaving',
           pc'[r] = pc[r], tok'[r] = tok[r], entry'[r] = entry[r],
           row'[r] = row[r], began'[r] = began[r]
    PROVE  Knows(r)'
<1>1. Knows(r) /\ TypeOK
    BY DEF IInv
<1>2. /\ now \in Nat /\ skew \in Int /\ began[r] \in Nat /\ entry[r] \in Entry
      /\ heldAt \in [Token -> Nat] /\ CacheTTL \in Nat
    BY <1>1, MaxTimeAssumption, SkewsAssumption, TTLAssumption DEF TypeOK
<1>3. /\ heldAt' \in [Token -> Nat] /\ \A t \in Token : heldAt[t] <= heldAt'[t]
    BY Observed
<1>4. CASE tok[r] \in Token /\ issued[tok[r]] # 0
  <2>1. issued'[tok[r]] = issued[tok[r]] /\ heldAt[tok[r]] <= heldAt'[tok[r]]
        /\ heldAt[tok[r]] \in Nat /\ heldAt'[tok[r]] \in Nat /\ issued[tok[r]] \in Nat
    BY <1>1, <1>2, <1>3, <1>4 DEF TypeOK
  <2>2. entry[r].cachedAt \in Nat
    BY <1>2 DEF Entry
  <2> QED
    BY <1>1, <1>2, <1>4, <2>1, <2>2 DEF Knows
<1>5. CASE ~(tok[r] \in Token /\ issued[tok[r]] # 0)
    BY <1>1, <1>2, <1>5 DEF Knows
<1> QED
    BY <1>4, <1>5

\* A request that does nothing keeps a token of its own.
LEMMA OpensStays ==
    ASSUME IInv, NEW r \in Request,
           now' \in Nat, now <= now',
           pc'[r] = pc[r], tok'[r] = tok[r], row'[r] = row[r],
           pc[r] \in {"create", "remember"} =>
               /\ issued'[tok[r]] = issued[tok[r]]
               /\ \A q \in Request : q # r => tok'[q] # tok[r]
               /\ tok[r] \in DOMAIN db' <=> tok[r] \in DOMAIN db
               /\ tok[r] \in DOMAIN db => db'[tok[r]] = db[tok[r]]
    PROVE  Opens(r)'
<1>1. Opens(r) /\ now \in Nat /\ row[r] \in Nat
    BY MaxTimeAssumption DEF IInv, TypeOK
<1> QED
    BY <1>1 DEF Opens

\* The shared state after a step that hands out no token and may only remove
\* entries from the cache.
LEMMA SharedStays ==
    ASSUME IInv, Observe, now' \in 0..MaxTime, now <= now', skew' = skew,
           issued' = issued, leaving \subseteq leaving', db' = db,
           cache' = cache \/ \E S \in SUBSET DOMAIN cache : cache' = Restrict(cache, S)
    PROVE  /\ Rows' /\ Entries' /\ Past'
           /\ DOMAIN cache' \subseteq Token /\ cache' \in [DOMAIN cache' -> Entry]
           /\ \A t \in DOMAIN cache' : cache'[t].cachedAt <= now'
<1>1. TypeOK /\ Rows /\ Entries /\ now \in Nat /\ now' \in Nat
    BY MaxTimeAssumption DEF IInv, TypeOK
<1>2. /\ DOMAIN cache' \subseteq DOMAIN cache /\ cache' \in [DOMAIN cache' -> Entry]
      /\ \A t \in DOMAIN cache' : cache'[t] = cache[t]
    BY <1>1 DEF TypeOK, Restrict
<1>3. /\ heldAt' \in [Token -> Nat]
      /\ \A t \in Token : heldAt[t] <= heldAt'[t] /\ heldAt'[t] <= now
    BY Observed
<1>4. Rows'
    BY <1>1 DEF Rows, TypeOK
<1>5. IsFiniteSet(DOMAIN cache') /\ CacheWithinBound'
  <2>1. /\ IsFiniteSet(DOMAIN cache') /\ Cardinality(DOMAIN cache') <= Cardinality(DOMAIN cache)
        /\ IsFiniteSet(DOMAIN cache)
    BY <1>1, <1>2, FS_Subset DEF Entries
  <2>2. Cardinality(DOMAIN cache') \in Nat /\ Cardinality(DOMAIN cache) \in Nat
    BY <2>1, FS_CardinalityType
  <2> QED
    BY <1>1, <2>1, <2>2, MaxEntriesAssumption DEF Entries, CacheWithinBound
<1>6. \A t \in DOMAIN cache' :
          /\ t \in Token /\ cache[t] \in Entry /\ cache[t].cachedAt <= now
          /\ cache[t].cachedAt \in Nat
    BY <1>1, <1>2 DEF TypeOK, Entry
<1>7. Entries'
  <2> SUFFICES ASSUME NEW t \in DOMAIN cache'
               PROVE  /\ issued'[t] # 0
                      /\ cache'[t].expiresAt = issued'[t]
                      /\ cache'[t].cachedAt <= heldAt'[t]
    BY <1>5 DEF Entries
  <2>1. cache[t].cachedAt <= heldAt[t] /\ heldAt[t] <= heldAt'[t] /\ heldAt[t] \in Nat
        /\ heldAt'[t] \in Nat
    BY <1>1, <1>2, <1>3, <1>6 DEF Entries, TypeOK
  <2> QED
    BY <1>1, <1>2, <1>6, <2>1 DEF Entries
<1>8. Past'
    BY <1>1, <1>3 DEF Past
<1>9. \A t \in DOMAIN cache' : cache'[t].cachedAt <= now'
    BY <1>1, <1>2, <1>6
<1> QED
    BY <1>1, <1>2, <1>4, <1>7, <1>8, <1>9 DEF TypeOK
Places == {"idle", "judge", "evict", "query", "check", "put", "create",
           "remember", "revoke", "accepted", "rejected"}

\* The others' variables, and what they must not see in r's.
Elsewhere(r) ==
    \A q \in Request :
        q # r => /\ pc'[q] = pc[q] /\ tok'[q] = tok[q] /\ entry'[q] = entry[q]
                 /\ row'[q] = row[q] /\ began'[q] = began[q]
                 /\ pc[q] \in {"create", "remember"} => tok'[r] # tok[q]

\* A request is where it was, has a token that was handed out, or has none: in
\* each case the token is not one that another request is about to hand out.
LEMMA TokenIsNotOpening ==
    ASSUME IInv, NEW r \in Request, NEW t,
           t = tok[r] \/ t = NoToken \/ (t \in Token /\ issued[t] # 0)
    PROVE  \A q \in Request : q # r /\ pc[q] \in {"create", "remember"} => t # tok[q]
BY NoTokenAssumption DEF IInv, Opens

\* A step of one request that leaves the table alone: it is enough that the
\* request itself is in order.
LEMMA OneRequestSteps ==
    ASSUME IInv, Observe, NEW r \in Request,
           UNCHANGED <<now, skew, db, issued>>,
           leaving \subseteq leaving', leaving' \in SUBSET Token,
           revoked' \in SUBSET leaving',
           cache' = cache \/ \E S \in SUBSET DOMAIN cache : cache' = Restrict(cache, S),
           pc' \in [Request -> Places], tok' \in [Request -> Token \cup {NoToken}],
           entry' \in [Request -> Entry], row' \in [Request -> Nat],
           began' \in [Request -> Nat],
           Elsewhere(r), Knows(r)', Opens(r)'
    PROVE  IInv'
<1>1. TypeOK /\ now' \in 0..MaxTime /\ now' \in Nat /\ now <= now' /\ issued' \in [Token -> Nat]
    BY MaxTimeAssumption DEF IInv, TypeOK
<1>2. /\ Rows' /\ Entries' /\ Past'
      /\ DOMAIN cache' \subseteq Token /\ cache' \in [DOMAIN cache' -> Entry]
      /\ \A t \in DOMAIN cache' : cache'[t].cachedAt <= now'
    BY <1>1, SharedStays
<1>3. TypeOK'
  <2>1. heldAt' \in [Token -> Nat]
    BY Observed
  <2> QED
    BY <1>1, <1>2, <2>1 DEF TypeOK, Places
<1>4. ASSUME NEW q \in Request PROVE Knows(q)' /\ Opens(q)'
  <2>1. CASE q = r
    BY <2>1
  <2>2. CASE q # r
    <3>1. Knows(q)'
        BY <1>1, <2>2, KnowsStays DEF Elsewhere
    <3>2. pc[q] \in {"create", "remember"} => \A p \in Request : p # q => tok'[p] # tok[q]
        BY <2>2 DEF Elsewhere, IInv, Opens
    <3>3. Opens(q)'
        BY <1>1, <2>2, <3>2, OpensStays DEF Elsewhere
    <3> QED
        BY <3>1, <3>3
  <2> QED
    BY <2>1, <2>2
<1> QED
    BY <1>2, <1>3, <1>4 DEF IInv

-----------------------------------------------------------------------------
(* Authenticate *)

\* The entry that Get read is one that the cache holds.
LEMMA AuthenticateKeeps ==
    ASSUME IInv, NEW r \in Request, NEW t \in Token, Authenticate(r, t)
    PROVE  IInv'
<1>1. /\ TypeOK /\ now \in Nat /\ Observe
      /\ UNCHANGED <<now, skew, db, cache, row, issued, leaving, revoked>>
    BY MaxTimeAssumption DEF IInv, TypeOK, Authenticate, Frame, history
<1>2. /\ pc[r] = "idle" /\ issued[t] # 0
      /\ tok' = [tok EXCEPT ![r] = t] /\ began' = [began EXCEPT ![r] = now]
      /\ \/ /\ t \in DOMAIN cache
            /\ pc' = [pc EXCEPT ![r] = "judge"] /\ entry' = [entry EXCEPT ![r] = cache[t]]
         \/ pc' = [pc EXCEPT ![r] = "query"] /\ entry' = entry
    BY DEF Authenticate
<1>3. /\ pc' \in [Request -> Places] /\ tok' \in [Request -> Token \cup {NoToken}]
      /\ entry' \in [Request -> Entry] /\ began' \in [Request -> Nat] /\ row' \in [Request -> Nat]
    BY <1>1, <1>2 DEF TypeOK, Places
<1>4. tok'[r] = t /\ began'[r] = now /\ Elsewhere(r)
  <2>1. \A q \in Request : q # r /\ pc[q] \in {"create", "remember"} => t # tok[q]
    BY <1>2, TokenIsNotOpening
  <2> QED
    BY <1>1, <1>2, <2>1 DEF TypeOK, Elsewhere
<1>5. t \in DOMAIN cache =>
          cache[t].expiresAt = issued[t] /\ cache[t].cachedAt <= heldAt'[t]
  <2>1. heldAt'[t] \in Nat /\ heldAt[t] \in Nat /\ heldAt[t] <= heldAt'[t]
    BY <1>1, Observed DEF TypeOK
  <2> HAVE t \in DOMAIN cache
  <2>2. cache[t].cachedAt \in Nat /\ cache[t].cachedAt <= heldAt[t]
    BY <1>1 DEF IInv, TypeOK, Entries, Entry
  <2> QED
    BY <2>1, <2>2 DEF IInv, Entries
<1>6. Knows(r)' /\ Opens(r)'
  <2>1. pc'[r] = "query" \/ (pc'[r] = "judge" /\ entry'[r] = cache[t] /\ t \in DOMAIN cache)
    BY <1>1, <1>2 DEF TypeOK
  <2> QED
    BY <1>1, <1>2, <1>4, <1>5, <2>1 DEF Knows, Opens
<1> QED
    BY <1>1, <1>3, <1>4, <1>6, OneRequestSteps DEF TypeOK

\* A fresh entry is evidence that the row was there, and the session alive,
\* not long before the request came.
LEMMA JudgeKeeps ==
    ASSUME IInv, NEW r \in Request, Judge(r)
    PROVE  IInv'
<1>1. /\ TypeOK /\ now \in Nat /\ Observe /\ CacheTTL \in Nat
      /\ UNCHANGED <<now, skew, db, cache, tok, row, began, issued, leaving, revoked>>
    BY MaxTimeAssumption, TTLAssumption DEF IInv, TypeOK, Judge, Frame, history
<1>2. /\ pc[r] = "judge" /\ entry' = [entry EXCEPT ![r] = NoEntry]
      /\ \/ pc' = [pc EXCEPT ![r] = "evict"]
         \/ pc' = [pc EXCEPT ![r] = "accepted"] /\ ~Stale(entry[r])
    BY DEF Judge
<1>3. /\ pc' \in [Request -> Places] /\ tok' \in [Request -> Token \cup {NoToken}]
      /\ entry' \in [Request -> Entry] /\ began' \in [Request -> Nat] /\ row' \in [Request -> Nat]
    BY <1>1, <1>2 DEF TypeOK, Places, NoEntry, Entry
<1>4. Elsewhere(r)
  <2>1. \A q \in Request : q # r /\ pc[q] \in {"create", "remember"} => tok[r] # tok[q]
    BY TokenIsNotOpening
  <2> QED
    BY <1>1, <1>2, <2>1 DEF TypeOK, Elsewhere
<1>5. /\ tok[r] \in Token /\ issued[tok[r]] # 0 /\ issued[tok[r]] \in Nat
      /\ entry[r].expiresAt = issued[tok[r]] /\ entry[r].cachedAt <= heldAt[tok[r]]
      /\ entry[r].cachedAt \in Nat /\ began[r] <= now /\ began[r] \in Nat
    BY <1>1, <1>2 DEF IInv, TypeOK, Knows, Entry
<1>6. /\ heldAt[tok[r]] \in Nat /\ heldAt'[tok[r]] \in Nat
      /\ heldAt[tok[r]] <= heldAt'[tok[r]]
    BY <1>1, <1>5, Observed DEF TypeOK
<1>7. ~Stale(entry[r]) => began[r] < issued[tok[r]] /\ began[r] <= heldAt'[tok[r]] + CacheTTL
    BY <1>1, <1>5, <1>6 DEF Stale
<1>8. Knows(r)' /\ Opens(r)'
  <2>1. pc'[r] = "evict" \/ (pc'[r] = "accepted" /\ ~Stale(entry[r]))
    BY <1>1, <1>2 DEF TypeOK
  <2> QED
    BY <1>1, <1>5, <1>7, <2>1 DEF Knows, Opens
<1> QED
    BY <1>1, <1>3, <1>4, <1>8, OneRequestSteps DEF TypeOK

\* Evict removes from the cache and learns nothing.
LEMMA EvictKeeps ==
    ASSUME IInv, NEW r \in Request, Evict(r)
    PROVE  IInv'
<1>1. /\ TypeOK /\ now \in Nat /\ Observe /\ pc[r] = "evict"
      /\ UNCHANGED <<now, skew, db, tok, entry, row, began, issued, leaving, revoked>>
      /\ pc' = [pc EXCEPT ![r] = "query"]
      /\ \E S \in SUBSET DOMAIN cache : cache' = Restrict(cache, S)
    BY MaxTimeAssumption DEF IInv, TypeOK, Evict, Goto, Without, Frame, history
<1>2. /\ pc' \in [Request -> Places] /\ tok' \in [Request -> Token \cup {NoToken}]
      /\ entry' \in [Request -> Entry] /\ began' \in [Request -> Nat] /\ row' \in [Request -> Nat]
    BY <1>1 DEF TypeOK, Places
<1>3. Elsewhere(r)
  <2>1. \A q \in Request : q # r /\ pc[q] \in {"create", "remember"} => tok[r] # tok[q]
    BY TokenIsNotOpening
  <2> QED
    BY <1>1, <2>1 DEF TypeOK, Elsewhere
<1>4. Knows(r)' /\ Opens(r)'
    BY <1>1 DEF IInv, TypeOK, Knows, Opens
<1> QED
    BY <1>1, <1>2, <1>3, <1>4, OneRequestSteps DEF TypeOK

\* The row found is the one written at login.
LEMMA QueryFindsKeeps ==
    ASSUME IInv, NEW r \in Request, QueryFinds(r)
    PROVE  IInv'
<1>1. /\ TypeOK /\ now \in Nat /\ Observe /\ pc[r] = "query"
      /\ UNCHANGED <<now, skew, db, cache, tok, entry, began, issued, leaving, revoked>>
      /\ pc' = [pc EXCEPT ![r] = "check"]
      /\ tok[r] \in DOMAIN db /\ row' = [row EXCEPT ![r] = db[tok[r]]]
    BY MaxTimeAssumption DEF IInv, TypeOK, QueryFinds, Goto, Frame, history
<1>2. tok[r] \in Token /\ issued[tok[r]] # 0 /\ db[tok[r]] = issued[tok[r]]
      /\ issued[tok[r]] \in Nat
    BY <1>1 DEF IInv, TypeOK, Knows, Rows
<1>3. /\ pc' \in [Request -> Places] /\ tok' \in [Request -> Token \cup {NoToken}]
      /\ entry' \in [Request -> Entry] /\ began' \in [Request -> Nat] /\ row' \in [Request -> Nat]
    BY <1>1, <1>2 DEF TypeOK, Places
<1>4. Elsewhere(r)
  <2>1. \A q \in Request : q # r /\ pc[q] \in {"create", "remember"} => tok[r] # tok[q]
    BY TokenIsNotOpening
  <2> QED
    BY <1>1, <2>1 DEF TypeOK, Elsewhere
<1>5. Knows(r)' /\ Opens(r)'
    BY <1>1, <1>2 DEF IInv, TypeOK, Knows, Opens
<1> QED
    BY <1>1, <1>3, <1>4, <1>5, OneRequestSteps DEF TypeOK

\* A row that is not there was deleted for a cause; one that is there is dead
\* on the database's clock.
LEMMA QueryFindsNothingKeeps ==
    ASSUME IInv, NEW r \in Request, QueryFindsNothing(r)
    PROVE  IInv'
<1>1. /\ TypeOK /\ now \in Nat /\ skew \in Int /\ Observe /\ pc[r] = "query"
      /\ UNCHANGED <<now, skew, db, cache, tok, entry, row, began, issued, leaving, revoked>>
      /\ pc' = [pc EXCEPT ![r] = "rejected"]
      /\ ~(tok[r] \in DOMAIN db /\ db[tok[r]] > now + skew)
    BY MaxTimeAssumption, SkewsAssumption
    DEF IInv, TypeOK, QueryFindsNothing, Goto, Frame, history
<1>2. tok[r] \in Token /\ issued[tok[r]] # 0 /\ issued[tok[r]] \in Nat
    BY <1>1 DEF IInv, TypeOK, Knows
<1>3. tok[r] \in leaving \/ now >= issued[tok[r]] \/ now + skew >= issued[tok[r]]
    BY <1>1, <1>2 DEF IInv, Rows
<1>4. /\ pc' \in [Request -> Places] /\ tok' \in [Request -> Token \cup {NoToken}]
      /\ entry' \in [Request -> Entry] /\ began' \in [Request -> Nat] /\ row' \in [Request -> Nat]
    BY <1>1 DEF TypeOK, Places
<1>5. Elsewhere(r)
  <2>1. \A q \in Request : q # r /\ pc[q] \in {"create", "remember"} => tok[r] # tok[q]
    BY TokenIsNotOpening
  <2> QED
    BY <1>1, <2>1 DEF TypeOK, Elsewhere
<1>6. Knows(r)' /\ Opens(r)'
    BY <1>1, <1>2, <1>3 DEF IInv, TypeOK, Knows, Opens
<1> QED
    BY <1>1, <1>4, <1>5, <1>6, OneRequestSteps DEF TypeOK

\* A row that passes the test shows that the session was alive when the request
\* came, which was earlier.
LEMMA CheckExpiryKeeps ==
    ASSUME IInv, NEW r \in Request, CheckExpiry(r)
    PROVE  IInv'
<1>1. /\ TypeOK /\ now \in Nat /\ Observe /\ pc[r] = "check"
      /\ UNCHANGED <<now, skew, db, cache, tok, entry, row, began, issued, leaving, revoked>>
      /\ pc' = [pc EXCEPT ![r] = IF now < row[r] THEN "put" ELSE "rejected"]
    BY MaxTimeAssumption DEF IInv, TypeOK, CheckExpiry, Frame, history
<1>2. /\ tok[r] \in Token /\ issued[tok[r]] # 0 /\ issued[tok[r]] \in Nat
      /\ row[r] = issued[tok[r]] /\ began[r] <= now /\ began[r] \in Nat
    BY <1>1 DEF IInv, TypeOK, Knows
<1>3. /\ pc' \in [Request -> Places] /\ tok' \in [Request -> Token \cup {NoToken}]
      /\ entry' \in [Request -> Entry] /\ began' \in [Request -> Nat] /\ row' \in [Request -> Nat]
    BY <1>1 DEF TypeOK, Places
<1>4. Elsewhere(r)
  <2>1. \A q \in Request : q # r /\ pc[q] \in {"create", "remember"} => tok[r] # tok[q]
    BY TokenIsNotOpening
  <2> QED
    BY <1>1, <2>1 DEF TypeOK, Elsewhere
<1>5. Knows(r)' /\ Opens(r)'
  <2>1. (pc'[r] = "put" /\ now < row[r]) \/ (pc'[r] = "rejected" /\ now >= row[r])
    BY <1>1, <1>2 DEF TypeOK
  <2> QED
    BY <1>1, <1>2, <2>1 DEF Knows, Opens
<1> QED
    BY <1>1, <1>3, <1>4, <1>5, OneRequestSteps DEF TypeOK

\* A request that has returned knows nothing and leaves the others alone.
LEMMA Returned ==
    ASSUME IInv, NEW r \in Request, Return(r), now' \in Nat
    PROVE  /\ pc' \in [Request -> Places] /\ tok' \in [Request -> Token \cup {NoToken}]
           /\ entry' \in [Request -> Entry] /\ row' \in [Request -> Nat]
           /\ began' \in [Request -> Nat]
           /\ Elsewhere(r) /\ Knows(r)' /\ Opens(r)'
<1>1. TypeOK
    BY DEF IInv
<1>2. \A q \in Request : q # r /\ pc[q] \in {"create", "remember"} => NoToken # tok[q]
    BY TokenIsNotOpening
<1>3. /\ pc' \in [Request -> Places] /\ tok' \in [Request -> Token \cup {NoToken}]
      /\ entry' \in [Request -> Entry] /\ row' \in [Request -> Nat]
      /\ began' \in [Request -> Nat]
    BY <1>1 DEF TypeOK, Return, Places, NoEntry, Entry
<1>4. Elsewhere(r)
    BY <1>1, <1>2 DEF TypeOK, Return, Elsewhere
<1>5. pc'[r] = "idle" /\ began'[r] = 0
    BY <1>1 DEF TypeOK, Return
<1> QED
    BY <1>3, <1>4, <1>5 DEF Knows, Opens

\* Respond is a return.
LEMMA RespondKeeps ==
    ASSUME IInv, NEW r \in Request, Respond(r)
    PROVE  IInv'
<1>1. /\ Return(r) /\ Observe /\ TypeOK /\ now \in Nat
      /\ UNCHANGED <<now, skew, db, cache, issued, leaving, revoked>>
    BY MaxTimeAssumption DEF Respond, Frame, history, IInv, TypeOK
<1> QED
    BY <1>1, Returned, OneRequestSteps DEF TypeOK

\* An element fits into a set that is not full.
LEMMA OneMoreFits ==
    ASSUME NEW S, NEW x, IsFiniteSet(S), NEW n \in Nat, Cardinality(S) < n \/ x \in S,
           Cardinality(S) <= n
    PROVE  IsFiniteSet(S \cup {x}) /\ Cardinality(S \cup {x}) <= n
<1>1. Cardinality(S) \in Nat
    BY FS_CardinalityType
<1>2. /\ IsFiniteSet(S \cup {x})
      /\ Cardinality(S \cup {x}) = IF x \in S THEN Cardinality(S) ELSE Cardinality(S) + 1
    BY FS_AddElement
<1> QED
    BY <1>1, <1>2

\* A full cache is swept, and filled again only as far as it was emptied.
LEMMA PutKeepsBound ==
    ASSUME IInv, NEW t \in Token, NEW e \in Nat, Put(t, e)
    PROVE  /\ DOMAIN cache' \subseteq Token /\ cache' \in [DOMAIN cache' -> Entry]
           /\ IsFiniteSet(DOMAIN cache') /\ CacheWithinBound'
           /\ \A x \in DOMAIN cache' :
                 \/ x \in DOMAIN cache /\ cache'[x] = cache[x]
                 \/ x = t /\ cache'[x] = [expiresAt |-> e, cachedAt |-> now]
<1>1. /\ TypeOK /\ now \in Nat /\ MaxEntries \in Nat /\ IsFiniteSet(DOMAIN cache)
      /\ Cardinality(DOMAIN cache) \in Nat /\ Cardinality(DOMAIN cache) <= MaxEntries
    BY MaxTimeAssumption, MaxEntriesAssumption, FS_CardinalityType
    DEF IInv, TypeOK, Entries, CacheWithinBound
<1> DEFINE fresh == [expiresAt |-> e, cachedAt |-> now]
           full == t \notin DOMAIN cache /\ Cardinality(DOMAIN cache) >= MaxEntries
<1>2. fresh \in Entry
    BY <1>1 DEF Entry
<1>3. CASE cache' = cache
    BY <1>1, <1>3 DEF TypeOK, CacheWithinBound
<1>4. CASE ~full /\ cache' = Insert(cache, t, fresh)
  <2>1. DOMAIN cache' = DOMAIN cache \cup {t}
        /\ \A x \in DOMAIN cache' : cache'[x] = IF x = t THEN fresh ELSE cache[x]
    BY <1>4 DEF Insert
  <2>2. IsFiniteSet(DOMAIN cache') /\ Cardinality(DOMAIN cache') <= MaxEntries
    <3>1. Cardinality(DOMAIN cache) < MaxEntries \/ t \in DOMAIN cache
        BY <1>1, <1>4
    <3>2. /\ IsFiniteSet(DOMAIN cache \cup {t})
          /\ Cardinality(DOMAIN cache \cup {t}) <= MaxEntries
        BY <1>1, <3>1, OneMoreFits
    <3> QED
        BY <2>1, <3>2
  <2>3. cache' \in [DOMAIN cache' -> Entry]
    BY <1>1, <1>2, <1>4, <2>1 DEF TypeOK, Insert
  <2> QED
    BY <1>1, <2>1, <2>2, <2>3 DEF TypeOK, CacheWithinBound
<1>5. CASE full /\ Swept # cache /\ cache' = Insert(Swept, t, fresh)
  <2>1. DOMAIN Swept \subseteq DOMAIN cache /\ \A x \in DOMAIN Swept : Swept[x] = cache[x]
    BY DEF Swept, Restrict
  <2>2. DOMAIN Swept # DOMAIN cache
    <3>1. cache = Restrict(cache, DOMAIN cache)
        BY <1>1 DEF TypeOK, Restrict
    <3>2. Swept = Restrict(cache, DOMAIN Swept)
        BY DEF Swept, Restrict
    <3> QED
        BY <1>5, <3>1, <3>2
  <2>3. /\ IsFiniteSet(DOMAIN Swept) /\ Cardinality(DOMAIN Swept) <= Cardinality(DOMAIN cache)
        /\ Cardinality(DOMAIN Swept) # Cardinality(DOMAIN cache)
    BY <1>1, <2>1, <2>2, FS_Subset
  <2>4. Cardinality(DOMAIN Swept) \in Nat
    BY <2>3, FS_CardinalityType
  <2>5. DOMAIN cache' = DOMAIN Swept \cup {t}
        /\ \A x \in DOMAIN cache' : cache'[x] = IF x = t THEN fresh ELSE Swept[x]
    BY <1>5 DEF Insert
  <2>6. IsFiniteSet(DOMAIN cache') /\ Cardinality(DOMAIN cache') <= MaxEntries
    <3>1. Cardinality(DOMAIN Swept) < MaxEntries /\ Cardinality(DOMAIN Swept) <= MaxEntries
        BY <1>1, <2>3, <2>4
    <3>2. /\ IsFiniteSet(DOMAIN Swept \cup {t})
          /\ Cardinality(DOMAIN Swept \cup {t}) <= MaxEntries
        BY <1>1, <2>3, <3>1, OneMoreFits
    <3> QED
        BY <2>5, <3>2
  <2>7. cache' \in [DOMAIN cache' -> Entry]
    BY <1>1, <1>2, <1>5, <2>1, <2>5 DEF TypeOK, Insert
  <2> QED
    BY <1>1, <2>1, <2>5, <2>6, <2>7 DEF TypeOK, CacheWithinBound
<1> QED
    BY <1>3, <1>4, <1>5 DEF Put

\* What Refresh and Remember leave in the cache is of this instant, and the row
\* was in the hands of the request.
LEMMA PutKeepsEntries ==
    ASSUME IInv, Observe, NEW r \in Request, pc[r] \in {"put", "remember"},
           tok[r] \in Token, row[r] \in Nat \ {0}, Put(tok[r], row[r]),
           now' = now, issued' \in [Token -> Nat], issued'[tok[r]] = row[r],
           \A t \in Token : issued[t] # 0 => issued'[t] = issued[t]
    PROVE  /\ Entries' /\ Past'
           /\ DOMAIN cache' \subseteq Token /\ cache' \in [DOMAIN cache' -> Entry]
           /\ \A t \in DOMAIN cache' : cache'[t].cachedAt <= now'
           /\ heldAt' \in [Token -> Nat] /\ heldAt'[tok[r]] = now
<1>1. /\ TypeOK /\ now \in Nat
      /\ \A t \in DOMAIN cache : /\ t \in Token /\ cache[t].cachedAt <= now
                                 /\ cache[t].cachedAt \in Nat
    BY MaxTimeAssumption DEF IInv, TypeOK, Entry
<1>2. /\ heldAt' \in [Token -> Nat]
      /\ \A t \in Token : heldAt[t] <= heldAt'[t] /\ heldAt'[t] <= now
      /\ heldAt'[tok[r]] = now
    BY Observed DEF Held, Holds
<1>3. /\ DOMAIN cache' \subseteq Token /\ cache' \in [DOMAIN cache' -> Entry]
      /\ IsFiniteSet(DOMAIN cache') /\ CacheWithinBound'
      /\ \A x \in DOMAIN cache' :
            \/ x \in DOMAIN cache /\ cache'[x] = cache[x]
            \/ x = tok[r] /\ cache'[x] = [expiresAt |-> row[r], cachedAt |-> now]
    BY PutKeepsBound
<1>4. ASSUME NEW t \in DOMAIN cache'
      PROVE  /\ issued'[t] # 0 /\ cache'[t].expiresAt = issued'[t]
             /\ cache'[t].cachedAt <= heldAt'[t] /\ cache'[t].cachedAt <= now
  <2>1. CASE t \in DOMAIN cache /\ cache'[t] = cache[t]
    <3>1. /\ issued[t] # 0 /\ cache[t].expiresAt = issued[t]
          /\ cache[t].cachedAt <= heldAt[t]
        BY <2>1 DEF IInv, Entries
    <3>2. heldAt[t] \in Nat /\ heldAt'[t] \in Nat /\ heldAt[t] <= heldAt'[t]
        BY <1>1, <1>2, <2>1 DEF TypeOK
    <3> QED
        BY <1>1, <2>1, <3>1, <3>2
  <2>2. CASE t = tok[r] /\ cache'[t] = [expiresAt |-> row[r], cachedAt |-> now]
    BY <1>1, <1>2, <2>2
  <2> QED
    BY <1>3, <2>1, <2>2
<1>5. Entries'
    BY <1>3, <1>4 DEF Entries
<1>6. Past'
    BY <1>1, <1>2 DEF Past
<1> QED
    BY <1>1, <1>2, <1>3, <1>4, <1>5, <1>6

\* The row was alive when it was read, and in hand until now.
LEMMA RefreshKeeps ==
    ASSUME IInv, NEW r \in Request, Refresh(r)
    PROVE  IInv'
<1>1. /\ TypeOK /\ now \in Nat /\ CacheTTL \in Nat /\ Observe /\ pc[r] = "put"
      /\ UNCHANGED <<now, skew, db, tok, entry, began, issued, leaving, revoked>>
      /\ pc' = [pc EXCEPT ![r] = "accepted"] /\ row' = [row EXCEPT ![r] = 0]
      /\ Put(tok[r], row[r])
    BY MaxTimeAssumption, TTLAssumption DEF IInv, TypeOK, Refresh, Goto, Frame, history
<1>2. /\ tok[r] \in Token /\ issued[tok[r]] # 0 /\ issued[tok[r]] \in Nat
      /\ row[r] = issued[tok[r]] /\ began[r] <= now /\ began[r] \in Nat
      /\ began[r] < issued[tok[r]]
    BY <1>1 DEF IInv, TypeOK, Knows
<1>3. /\ Entries' /\ Past'
      /\ DOMAIN cache' \subseteq Token /\ cache' \in [DOMAIN cache' -> Entry]
      /\ \A t \in DOMAIN cache' : cache'[t].cachedAt <= now'
      /\ heldAt' \in [Token -> Nat] /\ heldAt'[tok[r]] = now
    BY <1>1, <1>2, PutKeepsEntries DEF TypeOK
<1>4. TypeOK' /\ Rows'
    BY <1>1, <1>3 DEF TypeOK, IInv, Rows
<1>5. ASSUME NEW q \in Request PROVE Knows(q)' /\ Opens(q)'
  <2>1. CASE q = r
    <3>1. pc'[r] = "accepted"
        BY <1>1 DEF TypeOK
    <3> QED
        BY <1>1, <1>2, <1>3, <2>1, <3>1 DEF Knows, Opens
  <2>2. CASE q # r
    <3>1. pc'[q] = pc[q] /\ row'[q] = row[q]
        BY <1>1, <2>2 DEF TypeOK
    <3>2. Knows(q)'
        BY <1>1, <3>1, KnowsStays DEF TypeOK
    <3>3. Opens(q)'
        BY <1>1, <3>1, OpensStays DEF IInv, Opens
    <3> QED
        BY <3>2, <3>3
  <2> QED
    BY <2>1, <2>2
<1> QED
    BY <1>3, <1>4, <1>5 DEF IInv

-----------------------------------------------------------------------------
(* openSession *)

\* The token is new to the table, the clients and the other requests.
LEMMA OpenSessionKeeps ==
    ASSUME IInv, NEW r \in Request, NEW t \in Token, OpenSession(r, t)
    PROVE  IInv'
<1>1. /\ TypeOK /\ now \in Nat /\ SessionTTL \in Nat \ {0} /\ Observe
      /\ UNCHANGED <<now, skew, db, cache, entry, began, issued, leaving, revoked>>
      /\ t \notin DOMAIN db /\ issued[t] = 0 /\ \A q \in Request : tok[q] # t
      /\ pc' = [pc EXCEPT ![r] = "create"] /\ tok' = [tok EXCEPT ![r] = t]
      /\ row' = [row EXCEPT ![r] = now + SessionTTL]
    BY MaxTimeAssumption, TTLAssumption DEF IInv, TypeOK, OpenSession, Frame, history
<1>2. /\ pc' \in [Request -> Places] /\ tok' \in [Request -> Token \cup {NoToken}]
      /\ entry' \in [Request -> Entry] /\ began' \in [Request -> Nat] /\ row' \in [Request -> Nat]
    BY <1>1 DEF TypeOK, Places
<1>3. Elsewhere(r)
    BY <1>1 DEF TypeOK, Elsewhere
<1>4. /\ pc'[r] = "create" /\ tok'[r] = t /\ row'[r] = now + SessionTTL
      /\ row'[r] # 0 /\ began[r] <= now
    BY <1>1 DEF TypeOK, IInv, Knows
<1>5. Knows(r)' /\ Opens(r)'
    BY <1>1, <1>4 DEF TypeOK, Knows, Opens
<1> QED
    BY <1>1, <1>2, <1>3, <1>5, OneRequestSteps DEF TypeOK

\* A row of a token that nobody has been given disturbs nobody.
LEMMA NewRow ==
    ASSUME IInv, Observe, NEW r \in Request, pc[r] = "create",
           db' = Insert(db, tok[r], row[r]),
           UNCHANGED <<now, skew, cache, issued, leaving, revoked>>,
           pc' \in [Request -> Places], tok' \in [Request -> Token \cup {NoToken}],
           entry' \in [Request -> Entry], row' \in [Request -> Nat],
           began' \in [Request -> Nat],
           Elsewhere(r), Knows(r)', Opens(r)'
    PROVE  IInv'
<1>1. /\ TypeOK /\ now \in Nat /\ tok[r] \in Token /\ issued[tok[r]] = 0
      /\ row[r] \in Nat
    BY MaxTimeAssumption DEF IInv, TypeOK, Opens
<1>2. /\ DOMAIN db' = DOMAIN db \cup {tok[r]}
      /\ \A x \in DOMAIN db' : db'[x] = IF x = tok[r] THEN row[r] ELSE db[x]
    BY DEF Insert
<1>3. DOMAIN db' \subseteq Token /\ db' \in [DOMAIN db' -> Nat]
    BY <1>1, <1>2 DEF TypeOK, Insert
<1>4. /\ heldAt' \in [Token -> Nat]
      /\ \A t \in Token : heldAt[t] <= heldAt'[t] /\ heldAt'[t] <= now
    BY Observed
<1>5. TypeOK'
    BY <1>1, <1>3, <1>4 DEF TypeOK, Places
<1>6. Rows'
    BY <1>1, <1>2 DEF IInv, Rows
<1>7. Past' /\ Entries'
  <2>1. \A t \in DOMAIN cache : /\ t \in Token /\ cache[t].cachedAt \in Nat
                                /\ heldAt[t] \in Nat /\ heldAt'[t] \in Nat
    BY <1>1, <1>4 DEF TypeOK, Entry
  <2> QED
    BY <1>4, <2>1 DEF IInv, Entries, CacheWithinBound, Past
<1>8. ASSUME NEW q \in Request PROVE Knows(q)' /\ Opens(q)'
  <2>1. CASE q = r
    BY <2>1
  <2>2. CASE q # r
    <3>1. Knows(q)'
        BY <1>1, <2>2, KnowsStays DEF TypeOK, Elsewhere
    <3>2. pc[q] \in {"create", "remember"} =>
              /\ tok[r] # tok[q] /\ \A p \in Request : p # q => tok'[p] # tok[q]
        BY <2>2 DEF Elsewhere, IInv, Opens
    <3>3. pc[q] \in {"create", "remember"} =>
              /\ tok[q] \in DOMAIN db' <=> tok[q] \in DOMAIN db
              /\ tok[q] \in DOMAIN db => db'[tok[q]] = db[tok[q]]
        BY <1>2, <3>2
    <3>4. Opens(q)'
        BY <1>1, <2>2, <3>2, <3>3, OpensStays DEF Elsewhere
    <3> QED
        BY <3>1, <3>4
  <2> QED
    BY <2>1, <2>2
<1> QED
    BY <1>5, <1>6, <1>7, <1>8 DEF IInv

\* The row holds what the request is about to tell its client.
LEMMA CreateRowKeeps ==
    ASSUME IInv, NEW r \in Request, CreateRow(r)
    PROVE  IInv'
<1>1. /\ TypeOK /\ now \in Nat /\ Observe /\ pc[r] = "create"
      /\ UNCHANGED <<now, skew, cache, tok, entry, row, began, issued, leaving, revoked>>
      /\ pc' = [pc EXCEPT ![r] = "remember"] /\ db' = Insert(db, tok[r], row[r])
    BY MaxTimeAssumption DEF IInv, TypeOK, CreateRow, Goto, Frame, history
<1>2. /\ pc' \in [Request -> Places] /\ tok' \in [Request -> Token \cup {NoToken}]
      /\ entry' \in [Request -> Entry] /\ began' \in [Request -> Nat] /\ row' \in [Request -> Nat]
    BY <1>1 DEF TypeOK, Places
<1>3. Elsewhere(r)
  <2>1. \A q \in Request : q # r /\ pc[q] \in {"create", "remember"} => tok[r] # tok[q]
    BY TokenIsNotOpening
  <2> QED
    BY <1>1, <2>1 DEF TypeOK, Elsewhere
<1>4. pc'[r] = "remember" /\ tok[r] \in DOMAIN db' /\ db'[tok[r]] = row[r]
    BY <1>1 DEF TypeOK, Insert
<1>5. Knows(r)' /\ Opens(r)'
    BY <1>1, <1>4 DEF IInv, TypeOK, Knows, Opens
<1> QED
    BY <1>1, <1>2, <1>3, <1>5, NewRow

\* From now on the token is the client's; nobody else was opening it.
LEMMA RememberKeeps ==
    ASSUME IInv, NEW r \in Request, Remember(r)
    PROVE  IInv'
<1>1. /\ TypeOK /\ now \in Nat /\ Observe /\ pc[r] = "remember"
      /\ UNCHANGED <<now, skew, db, leaving, revoked>>
      /\ issued' = [issued EXCEPT ![tok[r]] = row[r]] /\ Put(tok[r], row[r]) /\ Return(r)
    BY MaxTimeAssumption DEF IInv, TypeOK, Remember, Frame
<1>2. /\ tok[r] \in Token /\ issued[tok[r]] = 0 /\ row[r] \in Nat \ {0}
      /\ \A q \in Request : q # r => tok[q] # tok[r]
      /\ IF tok[r] \in DOMAIN db THEN db[tok[r]] = row[r] ELSE now >= row[r]
    BY <1>1 DEF IInv, TypeOK, Opens
<1>3. /\ issued' \in [Token -> Nat] /\ issued'[tok[r]] = row[r]
      /\ \A t \in Token : t # tok[r] => issued'[t] = issued[t]
      /\ \A t \in Token : issued[t] # 0 => issued'[t] = issued[t]
    BY <1>1, <1>2 DEF TypeOK
<1>4. /\ Entries' /\ Past'
      /\ DOMAIN cache' \subseteq Token /\ cache' \in [DOMAIN cache' -> Entry]
      /\ \A t \in DOMAIN cache' : cache'[t].cachedAt <= now'
      /\ heldAt' \in [Token -> Nat] /\ heldAt'[tok[r]] = now
    BY <1>1, <1>2, <1>3, PutKeepsEntries
<1>5. /\ pc' \in [Request -> Places] /\ tok' \in [Request -> Token \cup {NoToken}]
      /\ entry' \in [Request -> Entry] /\ row' \in [Request -> Nat]
      /\ began' \in [Request -> Nat]
      /\ Elsewhere(r) /\ Knows(r)' /\ Opens(r)'
    BY <1>1, Returned
<1>6. TypeOK'
    BY <1>1, <1>3, <1>4, <1>5 DEF TypeOK, Places
<1>7. Rows'
    BY <1>1, <1>2, <1>3 DEF IInv, Rows
<1>8. ASSUME NEW q \in Request PROVE Knows(q)' /\ Opens(q)'
  <2>1. CASE q = r
    BY <1>5, <2>1
  <2>2. CASE q # r
    <3>1. Knows(q)'
        BY <1>1, <1>3, <1>5, <2>2, KnowsStays DEF Elsewhere
    <3>2. pc[q] \in {"create", "remember"} =>
              /\ issued'[tok[q]] = issued[tok[q]]
              /\ \A p \in Request : p # q => tok'[p] # tok[q]
        BY <1>2, <1>3, <1>5, <2>2 DEF Elsewhere, IInv, Opens
    <3>3. Opens(q)'
        BY <1>1, <1>5, <2>2, <3>2, OpensStays DEF Elsewhere
    <3> QED
        BY <3>1, <3>3
  <2> QED
    BY <2>1, <2>2
<1> QED
    BY <1>4, <1>6, <1>7, <1>8 DEF IInv

-----------------------------------------------------------------------------
(* Logout *)

\* Only a token that was handed out is closed.
LEMMA LogoutKeeps ==
    ASSUME IInv, NEW r \in Request, NEW t \in Token, Logout(r, t)
    PROVE  IInv'
<1>1. /\ TypeOK /\ now \in Nat /\ Observe /\ pc[r] = "idle" /\ issued[t] # 0
      /\ UNCHANGED <<now, skew, db, entry, row, began, issued, revoked>>
      /\ pc' = [pc EXCEPT ![r] = "revoke"] /\ tok' = [tok EXCEPT ![r] = t]
      /\ leaving' = leaving \cup {t}
      /\ \E S \in SUBSET DOMAIN cache : cache' = Restrict(cache, S)
    BY MaxTimeAssumption DEF IInv, TypeOK, Logout, Without, Frame
<1>2. /\ pc' \in [Request -> Places] /\ tok' \in [Request -> Token \cup {NoToken}]
      /\ entry' \in [Request -> Entry] /\ began' \in [Request -> Nat] /\ row' \in [Request -> Nat]
    BY <1>1 DEF TypeOK, Places
<1>3. Elsewhere(r)
  <2>1. \A q \in Request : q # r /\ pc[q] \in {"create", "remember"} => t # tok[q]
    BY <1>1, TokenIsNotOpening
  <2> QED
    BY <1>1, <2>1 DEF TypeOK, Elsewhere
<1>4. Knows(r)' /\ Opens(r)'
    BY <1>1 DEF IInv, TypeOK, Knows, Opens
<1> QED
    BY <1>1, <1>2, <1>3, <1>4, OneRequestSteps DEF TypeOK

Unmoved(q) == /\ pc'[q] = pc[q] /\ tok'[q] = tok[q] /\ entry'[q] = entry[q]
              /\ row'[q] = row[q] /\ began'[q] = began[q]

\* Rows may go when their owner is closing the session, or when they are dead.
LEMMA FewerRows ==
    ASSUME IInv, Observe, NEW S \in SUBSET DOMAIN db, db' = Restrict(db, S),
           \A t \in DOMAIN db \ S : (issued[t] # 0 /\ t \in leaving) \/ db[t] <= now,
           UNCHANGED <<now, skew, cache, issued, leaving>>,
           revoked' \in SUBSET leaving',
           pc' \in [Request -> Places], tok' \in [Request -> Token \cup {NoToken}],
           entry' \in [Request -> Entry], row' \in [Request -> Nat],
           began' \in [Request -> Nat],
           \A q \in Request : Unmoved(q) \/ (Knows(q)' /\ Opens(q)'),
           \A p, q \in Request :
               p # q /\ pc[q] \in {"create", "remember"} => tok'[p] # tok[q]
    PROVE  IInv'
<1>1. TypeOK /\ now \in Nat
    BY MaxTimeAssumption DEF IInv, TypeOK
<1>2. DOMAIN db' = S /\ \A x \in S : db'[x] = db[x]
    BY DEF Restrict
<1>3. DOMAIN db' \subseteq Token /\ db' \in [DOMAIN db' -> Nat]
    BY <1>1, <1>2 DEF TypeOK, Restrict
<1>4. /\ heldAt' \in [Token -> Nat]
      /\ \A t \in Token : heldAt[t] <= heldAt'[t] /\ heldAt'[t] <= now
    BY Observed
<1>5. TypeOK'
    BY <1>1, <1>3, <1>4 DEF TypeOK, Places
<1>6. Rows'
  <2> SUFFICES ASSUME NEW t \in Token, issued'[t] # 0
               PROVE  IF t \in DOMAIN db' THEN db'[t] = issued'[t]
                      ELSE t \in leaving' \/ now' >= issued'[t]
    BY DEF Rows
  <2>1. IF t \in DOMAIN db THEN db[t] = issued[t] ELSE t \in leaving \/ now >= issued[t]
    BY DEF IInv, Rows
  <2>2. CASE t \in S
    BY <1>2, <2>1, <2>2
  <2>3. CASE t \in DOMAIN db \ S
    BY <1>1, <1>2, <2>1, <2>3 DEF TypeOK
  <2>4. CASE t \notin DOMAIN db
    BY <1>2, <2>1, <2>4
  <2> QED
    BY <2>2, <2>3, <2>4
<1>7. Past' /\ Entries'
  <2>1. \A t \in DOMAIN cache : /\ t \in Token /\ cache[t].cachedAt \in Nat
                                /\ heldAt[t] \in Nat /\ heldAt'[t] \in Nat
    BY <1>1, <1>4 DEF TypeOK, Entry
  <2> QED
    BY <1>4, <2>1 DEF IInv, Entries, CacheWithinBound, Past
<1>8. ASSUME NEW q \in Request, Unmoved(q) PROVE Knows(q)' /\ Opens(q)'
  <2>1. Knows(q)'
    BY <1>1, <1>8, KnowsStays DEF TypeOK, Unmoved
  <2>2. Opens(q)'
    <3> SUFFICES ASSUME pc[q] \in {"create", "remember"}
                 PROVE  /\ tok[q] \in Token /\ issued[tok[q]] = 0 /\ row[q] # 0
                        /\ \A p \in Request : p # q => tok'[p] # tok[q]
                        /\ pc[q] = "create" => tok[q] \notin S
                        /\ pc[q] = "remember" =>
                              IF tok[q] \in S THEN db[tok[q]] = row[q] ELSE now >= row[q]
        BY <1>2, <1>8 DEF Opens, Unmoved
    <3>1. Opens(q) /\ row[q] \in Nat
        BY <1>1 DEF IInv, TypeOK
    <3> QED
        BY <1>1, <3>1 DEF Opens
  <2> QED
    BY <2>1, <2>2
<1> QED
    BY <1>5, <1>6, <1>7, <1>8 DEF IInv

\* A request that closes a session takes the row with it when it returns.
LEMMA RevokedRow ==
    ASSUME IInv, Observe, NEW r \in Request, pc[r] = "revoke", Return(r),
           db' = Without(db, tok[r]), UNCHANGED <<now, skew, cache, issued, leaving>>,
           revoked' \in SUBSET leaving'
    PROVE  IInv'
<1>1. TypeOK /\ now \in Nat /\ issued[tok[r]] # 0 /\ tok[r] \in leaving
    BY MaxTimeAssumption DEF IInv, TypeOK, Knows
<1>2. /\ pc' \in [Request -> Places] /\ tok' \in [Request -> Token \cup {NoToken}]
      /\ entry' \in [Request -> Entry] /\ row' \in [Request -> Nat]
      /\ began' \in [Request -> Nat]
      /\ Elsewhere(r) /\ Knows(r)' /\ Opens(r)'
    BY <1>1, Returned
<1>3. \A q \in Request : Unmoved(q) \/ (Knows(q)' /\ Opens(q)')
    BY <1>2 DEF Elsewhere, Unmoved
<1>4. ASSUME NEW p \in Request, NEW q \in Request, p # q, pc[q] \in {"create", "remember"}
      PROVE  tok'[p] # tok[q]
  <2>1. Opens(q) /\ q # r
    BY <1>4 DEF IInv
  <2>2. CASE p = r
    BY <1>2, <1>4, <2>1, <2>2 DEF Elsewhere
  <2>3. CASE p # r
    BY <1>2, <1>4, <2>1, <2>3 DEF Elsewhere, Opens
  <2> QED
    BY <2>2, <2>3
<1> DEFINE S == DOMAIN db \ {tok[r]}
<1>5. /\ S \in SUBSET DOMAIN db /\ db' = Restrict(db, S)
      /\ \A t \in DOMAIN db \ S : issued[t] # 0 /\ t \in leaving
    BY <1>1 DEF Without
<1> HIDE DEF S
<1> QED
    BY <1>2, <1>3, <1>4, <1>5, FewerRows

\* The row goes, and the request with it.
LEMMA DeleteRowKeeps ==
    ASSUME IInv, NEW r \in Request, DeleteRow(r)
    PROVE  IInv'
<1>1. /\ TypeOK /\ Observe /\ pc[r] = "revoke" /\ Return(r) /\ db' = Without(db, tok[r])
      /\ UNCHANGED <<now, skew, cache, issued, leaving>> /\ revoked' = revoked \cup {tok[r]}
    BY DEF IInv, DeleteRow, Frame
<1>2. tok[r] \in leaving
    BY <1>1 DEF IInv, Knows
<1> QED
    BY <1>1, <1>2, RevokedRow DEF TypeOK

\* The statement may have had its effect; the request returns.
LEMMA DatabaseFailsKeeps ==
    ASSUME IInv, NEW r \in Request, DatabaseFails(r)
    PROVE  IInv'
<1>1. /\ TypeOK /\ now \in Nat /\ Observe /\ Return(r)
      /\ UNCHANGED <<now, skew, cache, issued, leaving, revoked>>
    BY MaxTimeAssumption DEF IInv, TypeOK, DatabaseFails, Frame, history
<1>2. /\ pc' \in [Request -> Places] /\ tok' \in [Request -> Token \cup {NoToken}]
      /\ entry' \in [Request -> Entry] /\ row' \in [Request -> Nat]
      /\ began' \in [Request -> Nat]
      /\ Elsewhere(r) /\ Knows(r)' /\ Opens(r)'
    BY <1>1, Returned
<1>3. CASE db' = db
    BY <1>1, <1>2, <1>3, OneRequestSteps DEF TypeOK
<1>4. CASE pc[r] = "create" /\ db' = Insert(db, tok[r], row[r])
    BY <1>1, <1>2, <1>4, NewRow
<1>5. CASE pc[r] = "revoke" /\ db' = Without(db, tok[r])
    BY <1>1, <1>5, RevokedRow DEF TypeOK
<1> QED
    BY <1>3, <1>4, <1>5 DEF DatabaseFails

-----------------------------------------------------------------------------
(* The janitor, the clock, the process *)

\* The requests stay where they are.
LEMMA NobodyMoves ==
    ASSUME IInv, UNCHANGED request
    PROVE  /\ pc' \in [Request -> Places] /\ tok' \in [Request -> Token \cup {NoToken}]
           /\ entry' \in [Request -> Entry] /\ row' \in [Request -> Nat]
           /\ began' \in [Request -> Nat]
           /\ \A q \in Request : Unmoved(q)
           /\ \A p, q \in Request :
                 p # q /\ pc[q] \in {"create", "remember"} => tok'[p] # tok[q]
<1>1. TypeOK /\ \A q \in Request : Opens(q)
    BY DEF IInv
<1> QED
    BY <1>1 DEF TypeOK, Places, request, Unmoved, Opens

\* DeleteExpired deletes what is dead on the application's clock.
LEMMA DeleteExpiredKeeps == IInv /\ DeleteExpired => IInv'
<1> SUFFICES ASSUME IInv, DeleteExpired PROVE IInv'
    OBVIOUS
<1> DEFINE S == {t \in DOMAIN db : db[t] > now}
<1>1. /\ TypeOK /\ now \in Nat /\ Observe /\ db' = Restrict(db, S)
      /\ UNCHANGED request /\ UNCHANGED <<now, skew, cache, issued, leaving, revoked>>
    BY MaxTimeAssumption DEF IInv, TypeOK, DeleteExpired, Frame, history
<1>2. S \in SUBSET DOMAIN db /\ \A t \in DOMAIN db \ S : db[t] <= now
    BY <1>1 DEF TypeOK
<1> HIDE DEF S
<1> QED
    BY <1>1, <1>2, NobodyMoves, FewerRows DEF TypeOK

\* What may happen without the requests: time passes, the cache loses entries.
LEMMA BackgroundSteps ==
    ASSUME IInv, Observe, now' \in 0..MaxTime, now <= now',
           UNCHANGED <<skew, db, issued, leaving, revoked>>,
           cache' = cache \/ \E S \in SUBSET DOMAIN cache : cache' = Restrict(cache, S),
           UNCHANGED request
    PROVE  IInv'
<1>1. TypeOK /\ now \in Nat /\ now' \in Nat
    BY MaxTimeAssumption DEF IInv, TypeOK
<1>2. /\ Rows' /\ Entries' /\ Past'
      /\ DOMAIN cache' \subseteq Token /\ cache' \in [DOMAIN cache' -> Entry]
      /\ \A t \in DOMAIN cache' : cache'[t].cachedAt <= now'
    BY SharedStays
<1>3. heldAt' \in [Token -> Nat]
    BY Observed
<1>4. TypeOK'
    BY <1>1, <1>2, <1>3 DEF TypeOK, request
<1>5. ASSUME NEW q \in Request PROVE Knows(q)' /\ Opens(q)'
  <2>1. Unmoved(q) /\ (pc[q] \in {"create", "remember"} =>
                          \A p \in Request : p # q => tok'[p] # tok[q])
    BY NobodyMoves
  <2>2. Knows(q)'
    BY <1>1, <2>1, KnowsStays DEF TypeOK, Unmoved
  <2>3. Opens(q)'
    BY <1>1, <2>1, OpensStays DEF Unmoved
  <2> QED
    BY <2>2, <2>3
<1> QED
    BY <1>2, <1>4, <1>5 DEF IInv

\* The sweep only removes entries.
LEMMA SweepKeeps == IInv /\ Sweep => IInv'
<1> SUFFICES ASSUME IInv, Sweep PROVE IInv'
    OBVIOUS
<1>1. /\ Observe /\ UNCHANGED request /\ UNCHANGED <<now, skew, db, issued, leaving, revoked>>
      /\ \E S \in SUBSET DOMAIN cache : cache' = Restrict(cache, S)
    BY DEF Sweep, Swept, Frame, history
<1>2. now' \in 0..MaxTime /\ now <= now'
    BY <1>1, MaxTimeAssumption DEF IInv, TypeOK
<1> QED
    BY <1>1, <1>2, BackgroundSteps

\* Sessions only get older.
LEMMA ClockKeeps == IInv /\ ClockAdvances => IInv'
<1> SUFFICES ASSUME IInv, ClockAdvances PROVE IInv'
    OBVIOUS
<1>1. /\ Observe /\ UNCHANGED request
      /\ UNCHANGED <<skew, db, cache, issued, leaving, revoked>>
    BY DEF ClockAdvances, Frame, history
<1>2. now' \in 0..MaxTime /\ now <= now'
    BY MaxTimeAssumption DEF IInv, TypeOK, ClockAdvances
<1> QED
    BY <1>1, <1>2, BackgroundSteps

\* A new process knows nothing.
LEMMA RestartKeeps == IInv /\ Restart => IInv'
<1> SUFFICES ASSUME IInv, Restart PROVE IInv'
    OBVIOUS
<1>1. /\ TypeOK /\ now \in Nat /\ Observe
      /\ UNCHANGED <<now, skew, db, issued, leaving, revoked>>
    BY MaxTimeAssumption DEF IInv, TypeOK, Restart, Frame, history
<1>2. cache' = Restrict(cache, {})
    BY DEF Restart, Restrict
<1>3. now' \in 0..MaxTime /\ now <= now'
    BY <1>1 DEF TypeOK
<1>4. /\ Rows' /\ Entries' /\ Past'
      /\ DOMAIN cache' \subseteq Token /\ cache' \in [DOMAIN cache' -> Entry]
      /\ \A t \in DOMAIN cache' : cache'[t].cachedAt <= now'
    BY <1>1, <1>2, <1>3, SharedStays
<1>5. /\ pc' \in [Request -> Places] /\ tok' \in [Request -> Token \cup {NoToken}]
      /\ entry' \in [Request -> Entry] /\ row' \in [Request -> Nat]
      /\ began' \in [Request -> Nat]
    BY DEF Restart, Places, NoEntry, Entry
<1>6. heldAt' \in [Token -> Nat]
    BY <1>1, Observed
<1>7. TypeOK'
    BY <1>1, <1>4, <1>5, <1>6 DEF TypeOK, Places
<1>8. \A q \in Request : Knows(q)' /\ Opens(q)'
    BY <1>1 DEF Restart, Knows, Opens
<1> QED
    BY <1>4, <1>7, <1>8 DEF IInv

-----------------------------------------------------------------------------
(* The theorems *)

\* Nobody has a session.
LEMMA InitIInv == Init => IInv
<1> SUFFICES ASSUME Init PROVE IInv
    OBVIOUS
<1>1. TypeOK
    BY MaxTimeAssumption DEF Init, TypeOK, NoEntry, Entry
<1>2. Entries
    BY FS_EmptySet, MaxEntriesAssumption DEF Init, Entries, CacheWithinBound
<1>3. Rows /\ Past
    BY DEF Init, Rows, Past
<1>4. \A r \in Request : Knows(r) /\ Opens(r)
    BY DEF Init, Knows, Opens
<1> QED
    BY <1>1, <1>2, <1>3, <1>4 DEF IInv

\* Every step keeps the invariant.
LEMMA NextIInv == IInv /\ [Next]_vars => IInv'
<1> SUFFICES ASSUME IInv, [Next]_vars PROVE IInv'
    OBVIOUS
<1>1. ASSUME NEW r \in Request, NEW t \in Token,
             Authenticate(r, t) \/ OpenSession(r, t) \/ Logout(r, t)
      PROVE  IInv'
    BY <1>1, AuthenticateKeeps, OpenSessionKeeps, LogoutKeeps
<1>2. ASSUME NEW r \in Request, Step(r) PROVE IInv'
    BY <1>2, JudgeKeeps, EvictKeeps, QueryFindsKeeps, QueryFindsNothingKeeps,
       CheckExpiryKeeps, RefreshKeeps, CreateRowKeeps, RememberKeeps, DeleteRowKeeps,
       DatabaseFailsKeeps, RespondKeeps DEF Step
<1>3. CASE Sweep \/ DeleteExpired \/ ClockAdvances \/ Restart
    BY <1>3, SweepKeeps, DeleteExpiredKeeps, ClockKeeps, RestartKeeps
<1>4. CASE UNCHANGED vars
    BY <1>4 DEF vars, request, history, IInv, TypeOK, Rows, Entries, CacheWithinBound,
                Past, Knows, Opens
<1> QED
    BY <1>1, <1>2, <1>3, <1>4 DEF Next

\* The invariant holds in every reachable state of service.go's sessions.
THEOREM SessionsInvariant == Spec => []IInv
BY InitIInv, NextIInv, PTL DEF Spec

\* Every variable keeps its type.
THEOREM TypeCorrect == Spec => []TypeOK
<1>1. IInv => TypeOK
    BY DEF IInv
<1> QED
    BY <1>1, SessionsInvariant, PTL

\* SessionCache never holds more than cacheMaxEntries entries.
THEOREM CacheIsBounded == Spec => []CacheWithinBound
<1>1. IInv => CacheWithinBound
    BY DEF IInv, Entries
<1> QED
    BY <1>1, SessionsInvariant, PTL

\* Authenticate accepts no session that was dead when the request arrived,
\* whatever the entry, the row and the clocks said.
THEOREM OnlyLiveSessions == Spec => []AcceptsOnlyLiveSessions
<1>1. IInv => AcceptsOnlyLiveSessions
    BY DEF IInv, Knows, AcceptsOnlyLiveSessions
<1> QED
    BY <1>1, SessionsInvariant, PTL

\* A session that was closed is accepted for cacheTTL more at most.
THEOREM RevocationIsBounded == Spec => []RevocationWithinTTL
<1>1. IInv => RevocationWithinTTL
    BY DEF IInv, Knows, RevocationWithinTTL
<1> QED
    BY <1>1, SessionsInvariant, PTL

\* No session is refused while it is alive and nobody closes it.
THEOREM RejectionHasCause == Spec => []RejectsOnlyForCause
<1>1. IInv => RejectsOnlyForCause
    BY DEF IInv, Knows, RejectsOnlyForCause
<1> QED
    BY <1>1, SessionsInvariant, PTL

=============================================================================
