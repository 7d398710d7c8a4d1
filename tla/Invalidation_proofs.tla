------------------------ MODULE Invalidation_proofs ------------------------
(***************************************************************************)
(* Proofs about the token caches and the invalidation stream, for every    *)
(* number of workers, tokens and requests, every TTL, cache size and query *)
(* timeout.                                                                *)
(*                                                                         *)
(* The first part is about TokenCache, where invalidation events come in   *)
(* any order or never.  The second part is about Invalidation: the stream  *)
(* and its listeners implement the evictions of TokenCache, so the bounds  *)
(* of the first part hold with it, and a handled revocation stays          *)
(* effective.                                                              *)
(***************************************************************************)
EXTENDS Invalidation, TLAPS

USE DEF db, lookups, cacheVars

Entry == [life : 0..CacheTTL, deactivated : BOOLEAN]

\* What a step may do to one cache: each entry is kept, removed, or is the new
\* entry of token t.
LEMMA SetEffect ==
    ASSUME CacheTypeOK, NEW w \in Workers, NEW t \in Tokens, NEW flag \in BOOLEAN,
           Set(w, t, flag)
    PROVE  /\ cache' \in [Workers -> [Tokens -> Entry]]
           /\ \A v \in Workers, x \in Tokens :
                \/ cache'[v][x] = cache[v][x]
                \/ cache'[v][x] = Absent
                \/ v = w /\ x = t /\ cache'[v][x] = [life |-> CacheTTL, deactivated |-> flag]
<1> USE CacheAssumption DEF Entry, CacheTypeOK, Absent
<1>1. PICK victims \in SUBSET (Cached(w) \ {t}) :
         cache' = [cache EXCEPT ![w] = [x \in Tokens |->
               IF x = t THEN [life |-> CacheTTL, deactivated |-> flag]
               ELSE IF x \in victims THEN Absent ELSE @[x]]]
  BY DEF Set, Victims
<1> DEFINE row == [x \in Tokens |->
               IF x = t THEN [life |-> CacheTTL, deactivated |-> flag]
               ELSE IF x \in victims THEN Absent ELSE cache[w][x]]
<1>2. row \in [Tokens -> Entry]
  OBVIOUS
<1>3. cache' = [cache EXCEPT ![w] = row]
  BY <1>1
<1> HIDE DEF row
<1>4. cache' \in [Workers -> [Tokens -> Entry]]
  BY <1>2, <1>3
<1>5. ASSUME NEW v \in Workers, NEW x \in Tokens
      PROVE  \/ cache'[v][x] = cache[v][x]
             \/ cache'[v][x] = Absent
             \/ v = w /\ x = t /\ cache'[v][x] = [life |-> CacheTTL, deactivated |-> flag]
  <2>1. CASE v # w
    BY <1>3, <2>1
  <2>2. CASE v = w
    BY <1>3, <2>2 DEF row
  <2> QED
    BY <2>1, <2>2
<1> QED
  BY <1>4, <1>5

\* Evicting only removes.
LEMMA EvictEffect ==
    ASSUME CacheTypeOK, NEW w \in Workers, NEW ts, Evict(w, ts)
    PROVE  /\ cache' \in [Workers -> [Tokens -> Entry]]
           /\ \A v \in Workers, x \in Tokens :
                cache'[v][x] = cache[v][x] \/ cache'[v][x] = Absent
<1> USE CacheAssumption DEF Entry, CacheTypeOK, Absent
<1> DEFINE row == [x \in Tokens |-> IF x \in ts THEN Absent ELSE cache[w][x]]
<1>1. row \in [Tokens -> Entry]
  OBVIOUS
<1>2. cache' = [cache EXCEPT ![w] = row]
  BY DEF Evict
<1>3. \A x \in Tokens : row[x] = cache[w][x] \/ row[x] = Absent
  OBVIOUS
<1> HIDE DEF row
<1> QED
  BY <1>1, <1>2, <1>3

\* A restart empties one cache.
LEMMA RestartEffect ==
    ASSUME CacheTypeOK, NEW w \in Workers, Restart(w)
    PROVE  /\ cache' \in [Workers -> [Tokens -> Entry]]
           /\ \A v \in Workers, x \in Tokens :
                cache'[v][x] = cache[v][x] \/ cache'[v][x] = Absent
BY CacheAssumption DEF Entry, CacheTypeOK, Absent, Restart

\* A tick shortens the life of every entry by one.
LEMMA TickEffect ==
    ASSUME CacheTypeOK, Tick
    PROVE  /\ cache' \in [Workers -> [Tokens -> Entry]]
           /\ \A v \in Workers, x \in Tokens :
                \/ cache'[v][x] = Absent
                \/ /\ cache'[v][x].life = cache[v][x].life - 1
                   /\ cache'[v][x].deactivated = cache[v][x].deactivated
<1> USE CacheAssumption DEF Entry, CacheTypeOK, Absent
<1>1. cache' = [v \in Workers |-> [x \in Tokens |-> Aged(cache[v][x])]]
  BY DEF Tick
<1>2. ASSUME NEW e \in Entry
      PROVE  /\ Aged(e) \in Entry
             /\ \/ Aged(e) = Absent
                \/ Aged(e).life = e.life - 1 /\ Aged(e).deactivated = e.deactivated
  <2>1. e.life \in 0..CacheTTL /\ e.deactivated \in BOOLEAN
    OBVIOUS
  <2>2. CASE e.life <= 1
    BY <2>2 DEF Aged
  <2>3. CASE ~(e.life <= 1)
    <3>1. Aged(e) = [life |-> e.life - 1, deactivated |-> e.deactivated]
      BY <2>3 DEF Aged
    <3>2. e.life - 1 \in 0..CacheTTL
      BY <2>1, <2>3
    <3> QED
      BY <2>1, <3>1, <3>2
  <2> QED
    BY <2>2, <2>3
<1>3. \A v \in Workers, x \in Tokens : cache[v][x] \in Entry
  OBVIOUS
<1>4. \A v \in Workers, x \in Tokens : cache'[v][x] = Aged(cache[v][x])
  BY <1>1
<1>5. cache' \in [Workers -> [Tokens -> Entry]]
  BY <1>1, <1>2, <1>3
<1>6. ASSUME NEW v \in Workers, NEW x \in Tokens
      PROVE  \/ cache'[v][x] = Absent
             \/ /\ cache'[v][x].life = cache[v][x].life - 1
                /\ cache'[v][x].deactivated = cache[v][x].deactivated
  <2>1. cache[v][x] \in Entry /\ cache'[v][x] = Aged(cache[v][x])
    BY <1>3, <1>4
  <2> HIDE DEF CacheTypeOK, Entry, Absent
  <2> QED
    BY <1>2, <2>1
<1> QED
  BY <1>5, <1>6

\* The local state of a request keeps its type.
LEMMA AwaitType ==
    ASSUME CacheTypeOK, NEW r \in Requests, NEW p \in {"idle", "token", "user", "fill"},
           NEW a \in 0..FetchTime, NEW flag \in BOOLEAN, Await(r, p, a, flag)
    PROVE  /\ phase' \in [Requests -> {"idle", "token", "user", "fill"}]
           /\ age' \in [Requests -> 0..FetchTime]
           /\ saw_deactivated' \in [Requests -> BOOLEAN]
BY DEF Await, CacheTypeOK

-----------------------------------------------------------------------------
(* Type correctness *)

\* Every step of the cache, of the lookups and of the tables keeps its types.
LEMMA CacheTypeStep ==
    ASSUME CacheTypeOK, CacheNext \/ UNCHANGED cacheVars PROVE CacheTypeOK'
<1> USE CacheAssumption
<1>0. \A r \in Requests : /\ r.worker \in Workers /\ r.token \in Tokens
                          /\ age[r] \in 0..FetchTime /\ 0 \in 0..FetchTime
  BY DEF RequestShape, CacheTypeOK
<1>1. ASSUME NEW r \in Requests, LookupMiss(r) PROVE CacheTypeOK'
  BY <1>0, <1>1, AwaitType DEF LookupMiss, CacheTypeOK
<1>2. ASSUME NEW r \in Requests, ReadToken(r) PROVE CacheTypeOK'
  <2>1. Await(r, "user", 0, FALSE) \/ Await(r, "idle", 0, FALSE)
    BY <1>2 DEF ReadToken, Return
  <2> QED
    BY <1>0, <1>2, <2>1, AwaitType DEF ReadToken, CacheTypeOK
<1>3. ASSUME NEW r \in Requests, ReadUser(r) PROVE CacheTypeOK'
  <2> DEFINE account == accounts[UserOf[r.token]]
             refused == account = "deleted" \/ (account = "deactivated" /\ ~r.allow_deactivated)
             flag == account = "deactivated"
  <2>1. /\ IF refused THEN Return(r) ELSE Await(r, "fill", age[r], flag)
        /\ UNCHANGED <<db, cache>>
    BY <1>3, Zenon DEF ReadUser, Flag
  <2>2. flag \in BOOLEAN
    OBVIOUS
  <2> HIDE DEF refused, flag
  <2>3. CASE refused
    BY <1>0, <2>1, <2>3, AwaitType DEF Return, CacheTypeOK
  <2>4. CASE ~refused
    <3>1. Await(r, "fill", age[r], flag) /\ age[r] \in 0..FetchTime
      BY <1>0, <2>1, <2>4, Zenon
    <3>2. "fill" \in {"idle", "token", "user", "fill"}
      OBVIOUS
    <3>3. /\ phase' \in [Requests -> {"idle", "token", "user", "fill"}]
          /\ age' \in [Requests -> 0..FetchTime]
          /\ saw_deactivated' \in [Requests -> BOOLEAN]
      BY <2>2, <3>1, <3>2, AwaitType, Zenon
    <3> QED
      BY <2>1, <3>3 DEF CacheTypeOK
  <2> QED
    BY <2>3, <2>4
<1>4. ASSUME NEW r \in Requests, FillCache(r) PROVE CacheTypeOK'
  <2>1. cache' \in [Workers -> [Tokens -> Entry]]
    <3>1. saw_deactivated[r] \in BOOLEAN
      BY DEF CacheTypeOK
    <3>2. Set(r.worker, r.token, saw_deactivated[r])
      BY <1>4 DEF FillCache
    <3> QED
      BY <1>0, <3>1, <3>2, SetEffect, Zenon
  <2> QED
    BY <1>0, <1>4, <2>1, AwaitType DEF FillCache, Return, CacheTypeOK, Entry
<1>5. ASSUME NEW r \in Requests, LookupFails(r) PROVE CacheTypeOK'
  BY <1>5 DEF LookupFails, Await, Return, CacheTypeOK
<1>6. ASSUME NEW w \in Workers, NEW ts, Evict(w, ts), UNCHANGED <<db, lookups>>
      PROVE  CacheTypeOK'
  BY <1>6, EvictEffect DEF CacheTypeOK, Entry
<1>7. ASSUME NEW t \in Tokens, IssueToken(t) \/ ExpireToken(t) PROVE CacheTypeOK'
  BY <1>7 DEF IssueToken, ExpireToken, CacheTypeOK
<1>8. ASSUME NEW ts, RevokeTokens(ts) PROVE CacheTypeOK'
  BY <1>8 DEF RevokeTokens, CacheTypeOK
<1>9. ASSUME NEW u \in Users, DeactivateAccount(u) \/ ReactivateAccount(u)
      PROVE  CacheTypeOK'
  BY <1>9 DEF DeactivateAccount, ReactivateAccount, CacheTypeOK, Horizon
<1>10. ASSUME NEW u \in Users, DeleteAccount(u) PROVE CacheTypeOK'
  BY <1>10 DEF DeleteAccount, CacheTypeOK
<1>11. ASSUME NEW w \in Workers, Restart(w) PROVE CacheTypeOK'
  <2>1. cache' \in [Workers -> [Tokens -> Entry]]
    BY <1>11, RestartEffect
  <2> QED
    BY <1>11, <2>1 DEF Restart, CacheTypeOK, Entry
<1>12. ASSUME Tick PROVE CacheTypeOK'
  <2>1. cache' \in [Workers -> [Tokens -> Entry]]
    BY <1>12, TickEffect
  <2>2. age' \in [Requests -> 0..FetchTime]
    BY <1>12 DEF Tick, CacheTypeOK
  <2>3. token_age' \in [Tokens -> 0..Horizon] /\ account_age' \in [Users -> 0..Horizon]
    BY <1>12 DEF Tick, CacheTypeOK, Older, Horizon
  <2> QED
    BY <1>12, <2>1, <2>2, <2>3 DEF Tick, CacheTypeOK, Entry
<1>13. CASE UNCHANGED cacheVars
  BY <1>13 DEF CacheTypeOK
<1> QED
  BY <1>1, <1>2, <1>3, <1>4, <1>5, <1>6, <1>7, <1>8, <1>9, <1>10, <1>11, <1>12, <1>13
     DEF CacheNext, Lookup, EvictToken, EvictUser

\* The caches, the lookups and the tables keep their types.
THEOREM CacheTypeCorrect == CacheSpec => []CacheTypeOK
<1>1. CacheInit => CacheTypeOK
  BY CacheAssumption DEF CacheInit, CacheTypeOK, Absent, Horizon
<1>2. CacheTypeOK /\ [CacheNext]_cacheVars => CacheTypeOK'
  BY CacheTypeStep
<1> QED
  BY <1>1, <1>2, PTL DEF CacheSpec

-----------------------------------------------------------------------------
(* Bounded staleness *)

\* The inductive invariant: the age of a dead token or account and the ticks
\* its entry has left add up to at most Horizon, because a lookup is at least
\* as old as whatever died under it.
ValidIsYoung ==
    /\ \A t \in Tokens : access_tokens[t] \in {"none", "live"} => token_age[t] = 0
    /\ \A u \in Users : accounts[u] = "active" => account_age[u] = 0

LookupFresh ==
    \A r \in Requests :
        /\ phase[r] \in {"user", "fill"} => token_age[r.token] <= age[r]
        /\ phase[r] = "fill" /\ saw_deactivated[r] = FALSE
              => account_age[UserOf[r.token]] <= age[r]

EntryFresh ==
    \A w \in Workers, t \in Tokens : cache[w][t].life > 0 =>
        /\ token_age[t] + cache[w][t].life <= Horizon
        /\ cache[w][t].deactivated = FALSE
              => account_age[UserOf[t]] + cache[w][t].life <= Horizon

StaleInv == ValidIsYoung /\ LookupFresh /\ EntryFresh

\* A step that removes entries and ends requests, and lets no age grow.
LEMMA StaleFrame ==
    ASSUME CacheTypeOK, LookupFresh, EntryFresh, UNCHANGED token_age,
           \A u \in Users : account_age'[u] = account_age[u] \/ account_age'[u] = 0,
           \A w \in Workers, t \in Tokens :
              cache'[w][t] = cache[w][t] \/ cache'[w][t] = Absent,
           \A r \in Requests :
              \/ phase'[r] \in {"idle", "token"}
              \/ /\ phase'[r] = phase[r] /\ age'[r] = age[r]
                 /\ saw_deactivated'[r] = saw_deactivated[r]
    PROVE  LookupFresh' /\ EntryFresh'
<1> USE CacheAssumption DEF CacheTypeOK
<1>1. ASSUME NEW r \in Requests
      PROVE  /\ phase'[r] \in {"user", "fill"} => token_age'[r.token] <= age'[r]
             /\ phase'[r] = "fill" /\ saw_deactivated'[r] = FALSE
                   => account_age'[UserOf[r.token]] <= age'[r]
  <2>1. CASE phase'[r] \in {"idle", "token"}
    BY <2>1
  <2>2. CASE /\ phase'[r] = phase[r] /\ age'[r] = age[r]
             /\ saw_deactivated'[r] = saw_deactivated[r]
    <3>1. UserOf[r.token] \in Users /\ age[r] \in Nat
      BY DEF RequestShape
    <3>2. account_age'[UserOf[r.token]] = account_age[UserOf[r.token]]
            \/ account_age'[UserOf[r.token]] = 0
      BY <3>1
    <3> QED
      BY <2>2, <3>1, <3>2 DEF LookupFresh
  <2> QED
    BY <2>1, <2>2
<1>2. ASSUME NEW w \in Workers, NEW t \in Tokens, cache'[w][t].life > 0
      PROVE  /\ token_age'[t] + cache'[w][t].life <= Horizon
             /\ cache'[w][t].deactivated = FALSE
                   => account_age'[UserOf[t]] + cache'[w][t].life <= Horizon
  <2>1. cache'[w][t] = cache[w][t]
    BY <1>2 DEF Absent
  <2>2. /\ cache[w][t].life \in 0..CacheTTL /\ UserOf[t] \in Users
        /\ account_age[UserOf[t]] \in Nat
    BY DEF Horizon
  <2>3. cache[w][t].life <= Horizon
    BY <2>2 DEF Horizon
  <2> QED
    <3>1. account_age'[UserOf[t]] = account_age[UserOf[t]] \/ account_age'[UserOf[t]] = 0
      BY <2>2
    <3>2. /\ token_age[t] + cache[w][t].life <= Horizon
          /\ cache[w][t].deactivated = FALSE
                => account_age[UserOf[t]] + cache[w][t].life <= Horizon
      BY <1>2, <2>1 DEF EntryFresh
    <3>3. token_age'[t] + cache'[w][t].life <= Horizon
      BY <2>1, <3>2
    <3>4. ASSUME cache'[w][t].deactivated = FALSE
          PROVE  account_age'[UserOf[t]] + cache'[w][t].life <= Horizon
      BY <2>1, <2>2, <2>3, <3>1, <3>2, <3>4
    <3> QED
      BY <3>3, <3>4
<1> QED
  BY <1>1, <1>2 DEF LookupFresh, EntryFresh

\* A request that starts or ends holds no lookup.
LEMMA StaleAwait ==
    ASSUME CacheTypeOK, StaleInv, NEW r \in Requests, NEW p \in {"idle", "token"},
           Await(r, p, 0, FALSE), UNCHANGED <<db, cache>>
    PROVE  StaleInv'
<1>1. ASSUME NEW q \in Requests
      PROVE  \/ phase'[q] \in {"idle", "token"}
             \/ /\ phase'[q] = phase[q] /\ age'[q] = age[q]
                /\ saw_deactivated'[q] = saw_deactivated[q]
  BY DEF Await, CacheTypeOK
<1>2. ValidIsYoung'
  BY DEF StaleInv, ValidIsYoung
<1> QED
  BY <1>1, <1>2, StaleFrame DEF StaleInv

\* A step that changes rows only.
LEMMA StaleRows ==
    ASSUME StaleInv, ValidIsYoung', UNCHANGED <<token_age, account_age, cache, lookups>>
    PROVE  StaleInv'
BY DEF StaleInv, LookupFresh, EntryFresh, lookups

\* Every step keeps the staleness invariant.
LEMMA StaleStep ==
    ASSUME CacheTypeOK, StaleInv, CacheNext PROVE StaleInv'
<1> USE CacheAssumption
<1>0. \A r \in Requests : r.worker \in Workers /\ r.token \in Tokens
  BY DEF RequestShape
<1>1. ASSUME NEW r \in Requests, LookupMiss(r) PROVE StaleInv'
  BY <1>1, StaleAwait DEF LookupMiss
<1>2. ASSUME NEW r \in Requests, ReadToken(r) PROVE StaleInv'
  <2>1. CASE access_tokens[r.token] = "live"
    <3>1. token_age[r.token] = 0
      BY <1>0, <2>1 DEF StaleInv, ValidIsYoung
    <3>2. Await(r, "user", 0, FALSE) /\ UNCHANGED <<db, cache>>
      BY <1>2, <2>1 DEF ReadToken, IsValid
    <3> QED
      BY <3>1, <3>2 DEF Await, StaleInv, ValidIsYoung, LookupFresh, EntryFresh, CacheTypeOK
  <2>2. CASE access_tokens[r.token] # "live"
    <3>1. Return(r) /\ UNCHANGED <<db, cache>>
      BY <1>2, <2>2 DEF ReadToken, IsValid
    <3> QED
      BY <3>1, StaleAwait DEF Return
  <2> QED
    BY <2>1, <2>2
<1>3. ASSUME NEW r \in Requests, ReadUser(r) PROVE StaleInv'
  <2> DEFINE account == accounts[UserOf[r.token]]
             refused == account = "deleted" \/ (account = "deactivated" /\ ~r.allow_deactivated)
             flag == account = "deactivated"
  <2>1. /\ phase[r] = "user"
        /\ IF refused THEN Return(r) ELSE Await(r, "fill", age[r], flag)
        /\ UNCHANGED <<db, cache>>
    BY <1>3, Zenon DEF ReadUser, Flag
  <2>2. flag \in BOOLEAN /\ (flag = FALSE => refused \/ account = "active")
    <3>1. account \in {"active", "deactivated", "deleted"}
      BY <1>0 DEF CacheTypeOK
    <3> QED
      BY <3>1
  <2> HIDE DEF refused, flag, account
  <2>3. CASE refused
    <3>1. Return(r)
      BY <2>1, <2>3, Zenon
    <3> QED
      BY <2>1, <3>1, StaleAwait DEF Return
  <2>4. CASE ~refused
    <3>1. Await(r, "fill", age[r], flag)
      BY <2>1, <2>4, Zenon
    <3>2. flag = FALSE => account_age[UserOf[r.token]] = 0
      BY <1>0, <2>2, <2>4 DEF StaleInv, ValidIsYoung, account
    <3>3. LookupFresh'
      BY <1>0, <2>1, <2>2, <3>1, <3>2 DEF Await, StaleInv, LookupFresh, CacheTypeOK
    <3> QED
      BY <2>1, <3>3 DEF StaleInv, ValidIsYoung, EntryFresh
  <2> QED
    BY <2>3, <2>4, Zenon
<1>4. ASSUME NEW r \in Requests, FillCache(r) PROVE StaleInv'
  <2>1. ValidIsYoung' /\ LookupFresh'
    BY <1>4 DEF FillCache, Return, Await, StaleInv, ValidIsYoung, LookupFresh, CacheTypeOK
  <2>2. ASSUME NEW w \in Workers, NEW t \in Tokens, cache'[w][t].life > 0
        PROVE  /\ token_age'[t] + cache'[w][t].life <= Horizon
               /\ cache'[w][t].deactivated = FALSE
                     => account_age'[UserOf[t]] + cache'[w][t].life <= Horizon
    <3>1. saw_deactivated[r] \in BOOLEAN /\ age[r] \in 0..FetchTime
      BY DEF CacheTypeOK
    <3>2. Set(r.worker, r.token, saw_deactivated[r]) /\ phase[r] = "fill" /\ UNCHANGED db
      BY <1>4 DEF FillCache
    <3>3. \/ cache'[w][t] = cache[w][t]
          \/ cache'[w][t] = Absent
          \/ /\ t = r.token
             /\ cache'[w][t] = [life |-> CacheTTL, deactivated |-> saw_deactivated[r]]
      BY <1>0, <3>1, <3>2, SetEffect, SMTT(20)
    <3>4. CASE cache'[w][t] = cache[w][t]
      BY <2>2, <3>2, <3>4 DEF StaleInv, EntryFresh
    <3>5. CASE cache'[w][t] = Absent
      BY <2>2, <3>5 DEF Absent
    <3>6. CASE /\ t = r.token
               /\ cache'[w][t] = [life |-> CacheTTL, deactivated |-> saw_deactivated[r]]
      <4>1. cache'[w][t].life = CacheTTL /\ cache'[w][t].deactivated = saw_deactivated[r]
        BY <3>6
      <4>2. /\ token_age[t] <= age[r]
            /\ saw_deactivated[r] = FALSE => account_age[UserOf[t]] <= age[r]
        BY <3>2, <3>6 DEF StaleInv, LookupFresh
      <4>3. token_age[t] \in Nat /\ account_age[UserOf[t]] \in Nat
        BY DEF CacheTypeOK, Horizon
      <4> QED
        BY <3>1, <3>2, <4>1, <4>2, <4>3 DEF Horizon
    <3> QED
      BY <3>3, <3>4, <3>5, <3>6
  <2> QED
    BY <2>1, <2>2 DEF StaleInv, EntryFresh
<1>5. ASSUME NEW r \in Requests, LookupFails(r) PROVE StaleInv'
  BY <1>5, StaleAwait DEF LookupFails, Return
<1>6. ASSUME NEW w \in Workers, NEW ts, Evict(w, ts), UNCHANGED <<db, lookups>>
      PROVE  StaleInv'
  <2>1. ValidIsYoung' /\ UNCHANGED <<token_age, account_age>>
    BY <1>6 DEF StaleInv, ValidIsYoung, db
  <2>2. \A v \in Workers, t \in Tokens :
          cache'[v][t] = cache[v][t] \/ cache'[v][t] = Absent
    BY <1>6, EvictEffect
  <2>3. UNCHANGED <<phase, age, saw_deactivated>>
    BY <1>6 DEF lookups
  <2>4. LookupFresh' /\ EntryFresh'
    <3>1. LookupFresh /\ EntryFresh
      BY DEF StaleInv
    <3> QED
      BY <2>1, <2>2, <2>3, <3>1, StaleFrame
  <2> QED
    BY <2>1, <2>4 DEF StaleInv
<1>7. ASSUME NEW t \in Tokens, IssueToken(t) \/ ExpireToken(t) PROVE StaleInv'
  <2>1. UNCHANGED <<accounts, token_age, account_age, cache, lookups>>
    BY <1>7 DEF IssueToken, ExpireToken
  <2>2. ASSUME NEW x \in Tokens, access_tokens'[x] \in {"none", "live"}
        PROVE  access_tokens[x] \in {"none", "live"}
    BY <1>7, <2>2 DEF IssueToken, ExpireToken, CacheTypeOK
  <2>3. ValidIsYoung'
    BY <2>1, <2>2 DEF StaleInv, ValidIsYoung
  <2> QED
    BY <2>1, <2>3, StaleRows
<1>8. ASSUME NEW ts, RevokeTokens(ts) PROVE StaleInv'
  <2>1. UNCHANGED <<accounts, token_age, account_age, cache, lookups>>
    BY <1>8 DEF RevokeTokens
  <2>2. ASSUME NEW x \in Tokens, access_tokens'[x] \in {"none", "live"}
        PROVE  access_tokens[x] \in {"none", "live"}
    BY <1>8, <2>2 DEF RevokeTokens, CacheTypeOK
  <2>3. ValidIsYoung'
    BY <2>1, <2>2 DEF StaleInv, ValidIsYoung
  <2> QED
    BY <2>1, <2>3, StaleRows
<1>9. ASSUME NEW u \in Users, DeactivateAccount(u) PROVE StaleInv'
  <2>1. UNCHANGED <<access_tokens, token_age, account_age, cache, lookups>>
    BY <1>9 DEF DeactivateAccount
  <2>2. ASSUME NEW v \in Users, accounts'[v] = "active" PROVE accounts[v] = "active"
    BY <1>9, <2>2 DEF DeactivateAccount, CacheTypeOK
  <2>3. ValidIsYoung'
    BY <2>1, <2>2 DEF StaleInv, ValidIsYoung
  <2> QED
    BY <2>1, <2>3, StaleRows
<1>9a. ASSUME NEW u \in Users, ReactivateAccount(u) PROVE StaleInv'
  <2>1. UNCHANGED <<access_tokens, token_age, cache, phase, age, saw_deactivated>>
    BY <1>9a DEF ReactivateAccount, lookups
  <2>2. ASSUME NEW v \in Users
        PROVE  /\ account_age'[v] = account_age[v] \/ account_age'[v] = 0
               /\ accounts'[v] = "active" => v = u \/ accounts[v] = "active"
               /\ v = u => account_age'[v] = 0
    BY <1>9a DEF ReactivateAccount, CacheTypeOK
  <2>3. ValidIsYoung'
    BY <2>1, <2>2 DEF StaleInv, ValidIsYoung
  <2>4. LookupFresh' /\ EntryFresh'
    <3>1. LookupFresh /\ EntryFresh
      BY DEF StaleInv
    <3> QED
      BY <2>1, <2>2, <3>1, StaleFrame
  <2> QED
    BY <2>3, <2>4 DEF StaleInv
<1>10. ASSUME NEW u \in Users, DeleteAccount(u) PROVE StaleInv'
  <2>1. UNCHANGED <<token_age, account_age, cache, lookups>>
    BY <1>10 DEF DeleteAccount
  <2>2. ASSUME NEW v \in Users, accounts'[v] = "active" PROVE accounts[v] = "active"
    BY <1>10, <2>2 DEF DeleteAccount, CacheTypeOK
  <2>3. ASSUME NEW x \in Tokens, access_tokens'[x] \in {"none", "live"}
        PROVE  access_tokens[x] \in {"none", "live"}
    BY <1>10, <2>3 DEF DeleteAccount, CacheTypeOK
  <2>4. ValidIsYoung'
    BY <2>1, <2>2, <2>3 DEF StaleInv, ValidIsYoung
  <2> QED
    BY <2>1, <2>4, StaleRows
<1>11. ASSUME NEW w \in Workers, Restart(w) PROVE StaleInv'
  <2>1. ValidIsYoung' /\ UNCHANGED <<token_age, account_age>>
    BY <1>11 DEF Restart, StaleInv, ValidIsYoung, db
  <2>2. \A v \in Workers, t \in Tokens :
          cache'[v][t] = cache[v][t] \/ cache'[v][t] = Absent
    BY <1>11, RestartEffect
  <2>3. ASSUME NEW q \in Requests
        PROVE  \/ phase'[q] \in {"idle", "token"}
               \/ /\ phase'[q] = phase[q] /\ age'[q] = age[q]
                  /\ saw_deactivated'[q] = saw_deactivated[q]
    <3>1. phase'[q] = IF q.worker = w THEN "idle" ELSE phase[q]
      BY <1>11 DEF Restart
    <3>2. age'[q] = IF q.worker = w THEN 0 ELSE age[q]
      BY <1>11 DEF Restart
    <3>3. saw_deactivated[q] \in BOOLEAN
      BY DEF CacheTypeOK
    <3>4. q.worker # w => saw_deactivated'[q] = saw_deactivated[q]
      BY <1>11, <3>3 DEF Restart
    <3> QED
      BY <3>1, <3>2, <3>4
  <2>4. LookupFresh' /\ EntryFresh'
    <3>1. LookupFresh /\ EntryFresh
      BY DEF StaleInv
    <3> QED
      BY <2>1, <2>2, <2>3, <3>1, StaleFrame
  <2> QED
    BY <2>1, <2>4 DEF StaleInv
<1>12. ASSUME Tick PROVE StaleInv'
  <2>1. ValidIsYoung'
    BY <1>12 DEF Tick, ValidIsYoung
  <2>2. /\ \A t \in Tokens : token_age[t] \in Nat /\ token_age'[t] \in Nat
                             /\ token_age'[t] <= token_age[t] + 1
        /\ \A u \in Users : account_age[u] \in Nat /\ account_age'[u] \in Nat
                            /\ account_age'[u] <= account_age[u] + 1
    BY <1>12 DEF Tick, Older, CacheTypeOK, Horizon
  <2>3. LookupFresh'
    BY <1>0, <1>12, <2>2 DEF Tick, StaleInv, LookupFresh, CacheTypeOK
  <2>4. ASSUME NEW w \in Workers, NEW t \in Tokens, cache'[w][t].life > 0
        PROVE  /\ token_age'[t] + cache'[w][t].life <= Horizon
               /\ cache'[w][t].deactivated = FALSE
                     => account_age'[UserOf[t]] + cache'[w][t].life <= Horizon
    <3>1. /\ cache'[w][t].life = cache[w][t].life - 1
          /\ cache'[w][t].deactivated = cache[w][t].deactivated
      <4>1. Absent.life = 0
        BY DEF Absent
      <4>2. cache'[w][t] # Absent
        BY <2>4, <4>1
      <4> QED
        BY <1>12, <4>2, TickEffect
    <3>2. cache[w][t].life \in Nat /\ UserOf[t] \in Users
      BY DEF CacheTypeOK
    <3>3. cache[w][t].life > 0
      BY <2>4, <3>1, <3>2
    <3> QED
      BY <2>2, <3>1, <3>2, <3>3 DEF StaleInv, EntryFresh, Horizon
  <2> QED
    BY <2>1, <2>3, <2>4 DEF StaleInv, EntryFresh
<1> QED
  BY <1>1, <1>2, <1>3, <1>4, <1>5, <1>6, <1>7, <1>8, <1>9, <1>9a, <1>10, <1>11, <1>12
     DEF CacheNext, Lookup, EvictToken, EvictUser

\* The three bounds hold in every state and step, whatever invalidation events
\* arrive: entries of dead tokens and accounts live less than FetchTime + CacheTTL,
\* and a dead token enters a cache at most FetchTime after its end.
THEOREM StaleInvariant == CacheSpec => []StaleInv
<1>1. CacheInit => StaleInv
  BY CacheAssumption
     DEF CacheInit, StaleInv, ValidIsYoung, LookupFresh, EntryFresh, Absent
<1>2. CacheTypeOK /\ StaleInv /\ [CacheNext]_cacheVars => StaleInv'
  <2> SUFFICES ASSUME CacheTypeOK, StaleInv, UNCHANGED cacheVars PROVE StaleInv'
    BY StaleStep
  <2> QED
    BY DEF StaleInv, ValidIsYoung, LookupFresh, EntryFresh
<1> QED
  BY <1>1, <1>2, CacheTypeCorrect, PTL DEF CacheSpec

\* A worker accepts a dead token for less than FetchTime + CacheTTL.
THEOREM TokenStaleSafe == CacheSpec => []TokenStaleBound
<1>1. CacheTypeOK /\ StaleInv => TokenStaleBound
  BY CacheAssumption DEF CacheTypeOK, StaleInv, EntryFresh, TokenStaleBound, Cached, Horizon
<1> QED
  BY <1>1, CacheTypeCorrect, StaleInvariant, PTL

\* A worker serves a deactivated or deleted account for less than that.
THEOREM AccountStaleSafe == CacheSpec => []AccountStaleBound
<1>1. CacheTypeOK /\ StaleInv => AccountStaleBound
  <2> SUFFICES ASSUME CacheTypeOK, StaleInv, NEW w \in Workers, NEW t \in Cached(w),
                      ~cache[w][t].deactivated
               PROVE  account_age[UserOf[t]] < Horizon
    BY DEF AccountStaleBound
  <2>1. /\ t \in Tokens /\ cache[w][t].life > 0 /\ cache[w][t].life \in Nat
        /\ UserOf[t] \in Users /\ account_age[UserOf[t]] \in Nat
    BY CacheAssumption DEF Cached, CacheTypeOK, Horizon
  <2>2. cache[w][t].deactivated \in BOOLEAN
    BY <2>1 DEF CacheTypeOK
  <2>3. cache[w][t].deactivated = FALSE
    BY <2>2, Zenon
  <2> QED
    BY <2>1, <2>3, CacheAssumption DEF StaleInv, EntryFresh, Horizon
<1> QED
  BY <1>1, CacheTypeCorrect, StaleInvariant, PTL

\* Only a fill adds entries: every other step keeps, ages or removes those of a
\* cache.
LEMMA OnlyFillAdds ==
    ASSUME CacheTypeOK, CacheNext \/ UNCHANGED cacheVars, \A r \in Requests : ~FillCache(r),
           NEW w \in Workers
    PROVE  Cached(w)' \subseteq Cached(w)
<1> USE CacheAssumption
<1> SUFFICES ASSUME NEW t \in Tokens, cache'[w][t].life > 0, cache[w][t].life = 0
             PROVE  FALSE
  BY DEF Cached, CacheTypeOK
<1>1. Absent.life = 0
  BY DEF Absent
<1>2. cache'[w][t] # cache[w][t] /\ cache'[w][t] # Absent
  BY <1>1
<1>3. ASSUME NEW v \in Workers, NEW ts, Evict(v, ts) PROVE FALSE
  BY <1>2, <1>3, EvictEffect
<1>4. ASSUME NEW v \in Workers, Restart(v) PROVE FALSE
  BY <1>2, <1>4, RestartEffect
<1>5. ~Tick
  <2> SUFFICES ASSUME Tick PROVE FALSE
    OBVIOUS
  <2>1. cache'[w][t].life = cache[w][t].life - 1
    BY <1>2, TickEffect
  <2> QED
    BY <2>1
<1>6. ~UNCHANGED cache
  BY <1>2
<1> QED
  BY <1>3, <1>4, <1>5, <1>6
     DEF CacheNext, LookupMiss, Lookup, ReadToken, ReadUser, LookupFails, EvictToken,
         EvictUser, IssueToken, RevokeTokens, ExpireToken, DeactivateAccount,
         ReactivateAccount, DeleteAccount

\* A cache takes in a dead token at most FetchTime after its end: only FillCache
\* adds entries, and its lookup read the token while it was alive.
THEOREM LateFillSafe == CacheSpec => LateFillBound
<1> DEFINE Late == \A w \in Workers : \A t \in Tokens :
                     t \notin Cached(w) /\ t \in Cached(w)' => token_age'[t] <= FetchTime
<1>1. CacheTypeOK /\ StaleInv /\ [CacheNext]_cacheVars => [Late]_cacheVars
  <2> SUFFICES ASSUME CacheTypeOK, StaleInv, CacheNext, NEW w \in Workers, NEW t \in Tokens,
                      t \notin Cached(w), t \in Cached(w)'
               PROVE  token_age'[t] <= FetchTime
    OBVIOUS
  <2> USE CacheAssumption
  <2>1. cache'[w][t].life > 0 /\ cache[w][t].life = 0
    BY DEF Cached, CacheTypeOK
  <2>2. Absent.life = 0
    BY DEF Absent
  <2>3. cache'[w][t] # cache[w][t] /\ cache'[w][t] # Absent
    BY <2>1, <2>2
  <2>4. ASSUME NEW r \in Requests, FillCache(r) PROVE token_age'[t] <= FetchTime
    <3>1. r.worker \in Workers /\ r.token \in Tokens
      BY DEF RequestShape
    <3>2. saw_deactivated[r] \in BOOLEAN /\ age[r] \in 0..FetchTime
      BY DEF CacheTypeOK
    <3>3. Set(r.worker, r.token, saw_deactivated[r]) /\ phase[r] = "fill" /\ UNCHANGED db
      BY <2>4 DEF FillCache
    <3>4. t = r.token
      <4>1. \/ cache'[w][t] = cache[w][t]
            \/ cache'[w][t] = Absent
            \/ /\ t = r.token
               /\ cache'[w][t] = [life |-> CacheTTL, deactivated |-> saw_deactivated[r]]
        BY <3>1, <3>2, <3>3, SetEffect, SMTT(20)
      <4> QED
        BY <2>3, <4>1
    <3>5. token_age[t] <= age[r]
      BY <3>3, <3>4 DEF StaleInv, LookupFresh
    <3>6. token_age[t] \in Nat
      BY DEF CacheTypeOK, Horizon
    <3> QED
      BY <3>2, <3>3, <3>5, <3>6
  <2>5. \E r \in Requests : FillCache(r)
    BY OnlyFillAdds
  <2> QED
    BY <2>4, <2>5
<1> QED
  BY <1>1, CacheTypeCorrect, StaleInvariant, PTL DEF CacheSpec, LateFillBound

-----------------------------------------------------------------------------
(* The stream *)

USE DEF streamVars, invVars

\* What Handle needs to know of the stream.
StreamInv ==
    /\ stream \in Seq(StreamEvents)
    /\ trimmed \in Nat
    /\ reading \in [Workers -> Int]
    /\ \A w \in Workers : reading[w] >= -1
    /\ last_id \in [Workers -> Int]
    /\ \A w \in Workers : last_id[w] >= -1
    /\ outgoing \subseteq Outgoing

\* What is published is an event of the stream, and so is what follows it.
LEMMA PublishedType ==
    ASSUME NEW e \in Outgoing, e.event # "local_evict"
    PROVE  Published(e) \in StreamEvents /\ NextOf(e) \subseteq Outgoing
BY DEF Outgoing, StreamEvents, Published, NextOf, RefreshRevoked, TokenRevoked

\* XADD keeps the stream well-formed.
LEMMA XAddType ==
    ASSUME StreamInv, NEW e \in StreamEvents, XAdd(e)
    PROVE  stream' \in Seq(StreamEvents) /\ trimmed' \in Nat
<1>1. stream' \in Seq(StreamEvents) /\ Len(stream') \in Nat
  BY DEF XAdd, StreamInv
<1> QED
  BY <1>1, InvalidationAssumption DEF XAdd, StreamInv

\* The entry that Handle takes is an entry of the stream.
LEMMA HandledEntry ==
    ASSUME StreamInv, NEW w \in Workers, Handle(w)
    PROVE  \E i \in 1..Len(stream) :
              /\ stream[i] \in StreamEvents
              /\ Evict(w, EvictedBy(stream[i]))
              /\ Clears(w, EvictedBy(stream[i]))
<1> DEFINE i == (IF reading[w] < trimmed THEN trimmed ELSE reading[w]) + 1
<1>1. reading[w] # NotReading /\ i <= Len(stream)
  BY DEF Handle
<1>2. i \in 1..Len(stream)
  BY <1>1 DEF StreamInv, NotReading
<1>3. stream[i] \in StreamEvents
  BY <1>2 DEF StreamInv
<1>4. /\ Evict(w, EvictedBy(stream[i]))
      /\ Clears(w, EvictedBy(stream[i]))
  BY DEF Handle
<1> QED
  BY <1>2, <1>3, <1>4

\* The stream holds well-formed events only.
LEMMA StreamTyped == InvSpec => []StreamInv
<1>1. InvInit => StreamInv
  BY DEF InvInit, StreamInv, NotReading, Latest
<1>2. StreamInv /\ [InvNext]_invVars => StreamInv'
  <2> SUFFICES ASSUME StreamInv, [InvNext]_invVars PROVE StreamInv'
    OBVIOUS
  <2>1. ASSUME UNCHANGED <<stream, trimmed, reading, last_id>>,
               outgoing' \subseteq Outgoing
        PROVE  StreamInv'
    BY <2>1 DEF StreamInv
  <2>2. ASSUME NEW e \in outgoing, PublishEvent(e) \/ RequestFails(e) PROVE StreamInv'
    <3>1. e \in Outgoing /\ outgoing \subseteq Outgoing
      BY DEF StreamInv
    <3>2. UNCHANGED <<reading, last_id>>
      BY <2>2 DEF PublishEvent, RequestFails
    <3>3. CASE UNCHANGED <<stream, trimmed>> /\ outgoing' = outgoing \ {e}
      BY <2>1, <3>1, <3>2, <3>3
    <3>4. CASE /\ e.event # "local_evict" /\ XAdd(Published(e))
               /\ outgoing' \subseteq outgoing \cup NextOf(e)
      <4>1. Published(e) \in StreamEvents /\ NextOf(e) \subseteq Outgoing
        BY <3>1, <3>4, PublishedType
      <4>2. stream' \in Seq(StreamEvents) /\ trimmed' \in Nat
        BY <3>4, <4>1, XAddType
      <4> QED
        BY <3>1, <3>2, <3>4, <4>1, <4>2 DEF StreamInv
    <3> QED
      BY <2>2, <3>3, <3>4 DEF PublishEvent, RequestFails
  <2>3. ASSUME NEW e \in Outgoing, Then(e) PROVE StreamInv'
    BY <2>1, <2>3 DEF Then, StreamInv
  <2>4. ASSUME NEW w \in Workers, Poll(w) PROVE StreamInv'
    <3>1. UNCHANGED <<stream, trimmed>>
      BY <2>4 DEF Poll
    <3> DEFINE n == IF last_id[w] = Latest THEN Len(stream) ELSE last_id[w]
    <3>2. reading' = [reading EXCEPT ![w] = n] /\ UNCHANGED last_id
      BY <2>4 DEF Poll, Position
    <3>3. Len(stream) \in Nat /\ last_id[w] \in Int /\ last_id[w] >= -1
      BY DEF StreamInv
    <3>4. n \in Int /\ n >= -1
      BY <3>3
    <3> HIDE DEF n
    <3>5. reading' \in [Workers -> Int] /\ \A v \in Workers : reading'[v] >= -1
      BY <3>2, <3>4 DEF StreamInv
    <3>6. UNCHANGED outgoing
      BY <2>4 DEF Poll
    <3> QED
      BY <3>1, <3>2, <3>5, <3>6 DEF StreamInv
  <2>5. ASSUME NEW w \in Workers, PollEnds(w) \/ RestartWorker(w) PROVE StreamInv'
    <3>1. /\ UNCHANGED <<stream, trimmed>>
          /\ reading' = [reading EXCEPT ![w] = -1]
          /\ last_id' = last_id \/ last_id' = [last_id EXCEPT ![w] = -1]
      BY <2>5 DEF PollEnds, RestartWorker, NotReading, Latest
    <3>2. reading' \in [Workers -> Int] /\ \A v \in Workers : reading'[v] >= -1
      BY <3>1 DEF StreamInv
    <3>3. last_id' \in [Workers -> Int] /\ \A v \in Workers : last_id'[v] >= -1
      <4>1. CASE last_id' = last_id
        BY <4>1 DEF StreamInv
      <4>2. CASE last_id' = [last_id EXCEPT ![w] = -1]
        BY <4>2 DEF StreamInv
      <4> QED
        BY <3>1, <4>1, <4>2
    <3>4. outgoing' \subseteq Outgoing
      BY <2>5 DEF PollEnds, RestartWorker, StreamInv
    <3> QED
      BY <3>1, <3>2, <3>3, <3>4 DEF StreamInv
  <2>6. ASSUME NEW w \in Workers, Handle(w) PROVE StreamInv'
    <3> DEFINE i == (IF reading[w] < trimmed THEN trimmed ELSE reading[w]) + 1
    <3>1. /\ UNCHANGED <<stream, trimmed>>
          /\ last_id' = [last_id EXCEPT ![w] = i]
          /\ reading' = [reading EXCEPT ![w] = NotReading]
      BY <2>6 DEF Handle, CursorAfter
    <3>2. i \in Int /\ i >= -1
      BY DEF StreamInv
    <3> HIDE DEF i
    <3>4. reading' \in [Workers -> Int] /\ \A v \in Workers : reading'[v] >= -1
      BY <3>1 DEF StreamInv, NotReading
    <3>5. last_id' \in [Workers -> Int] /\ \A v \in Workers : last_id'[v] >= -1
      BY <3>1, <3>2 DEF StreamInv
    <3>6. UNCHANGED outgoing
      BY <2>6 DEF Handle
    <3> QED
      BY <3>1, <3>4, <3>5, <3>6 DEF StreamInv
  <2>7. ASSUME NEW w \in Workers, NEW t \in Tokens, LogoutCommit(w, t) PROVE StreamInv'
    <3>1. LocalEvict(w, t) \in Outgoing
      BY DEF LocalEvict, Outgoing
    <3> QED
      BY <2>3, <2>7, <3>1 DEF LogoutCommit
  <2>8. ASSUME NEW w \in Workers, NEW t \in Tokens, LogoutEvict(w, t) PROVE StreamInv'
    <3>1. LogoutEvents(t) \in Outgoing
      BY DEF LogoutEvents, Outgoing
    <3>2. outgoing \subseteq Outgoing
      BY DEF StreamInv
    <3> QED
      BY <2>1, <2>8, <3>1, <3>2 DEF LogoutEvict
  <2>9. ASSUME NEW u \in Users, ReuseCommit(u) \/ LoginReactivates(u) \/ LoginRehashes(u)
        PROVE  StreamInv'
    <3>1. UserInvalidated(u) \in Outgoing
      BY DEF UserInvalidated, Outgoing, StreamEvents
    <3> QED
      BY <2>3, <2>9, <3>1 DEF ReuseCommit, LoginReactivates, LoginRehashes
  <2>10. CASE RefreshCommit
    <3>1. RefreshRevoked \in Outgoing
      BY DEF RefreshRevoked, Outgoing, StreamEvents
    <3> QED
      BY <2>3, <2>10, <3>1 DEF RefreshCommit
  <2>11. CASE Unannounced \/ UNCHANGED invVars
    <3>1. outgoing \subseteq Outgoing
      BY DEF StreamInv
    <3> QED
      BY <2>1, <2>11, <3>1 DEF Unannounced
  <2> QED
    BY <2>2, <2>4, <2>5, <2>6, <2>7, <2>8, <2>9, <2>10, <2>11 DEF InvNext, Listener
<1> QED
  BY <1>1, <1>2, PTL DEF InvSpec

-----------------------------------------------------------------------------
(* Implementation of TokenCache *)

\* Handling an entry is one of the evictions of TokenCache.
LEMMA HandleEvicts ==
    ASSUME CacheTypeOK, StreamInv, NEW w \in Workers, Handle(w)
    PROVE  \/ \E t \in Tokens : EvictToken(w, t)
           \/ \E u \in Users : EvictUser(w, u)
           \/ UNCHANGED cacheVars
<1>1. PICK i \in 1..Len(stream) :
          stream[i] \in StreamEvents /\ Evict(w, EvictedBy(stream[i]))
  BY HandledEntry
<1>2. UNCHANGED <<db, lookups>>
  BY DEF Handle
<1>3. CASE stream[i] \in [event : {"token_revoked"}, token : Tokens]
  <2>1. EvictedBy(stream[i]) = {stream[i].token} /\ stream[i].token \in Tokens
    BY <1>3 DEF EvictedBy
  <2>2. EvictToken(w, stream[i].token)
    BY <1>1, <1>2, <2>1, Zenon DEF EvictToken
  <2> QED
    BY <2>1, <2>2
<1>4. CASE stream[i] \in [event : {"user_invalidated"}, user : Users]
  <2>1. EvictedBy(stream[i]) = TokensOf(stream[i].user) /\ stream[i].user \in Users
    BY <1>4 DEF EvictedBy
  <2>2. EvictUser(w, stream[i].user)
    BY <1>1, <1>2, <2>1, Zenon DEF EvictUser
  <2> QED
    BY <2>1, <2>2
<1>5. CASE stream[i] \in [event : {"refresh_revoked"}]
  <2>1. EvictedBy(stream[i]) = {}
    BY <1>5 DEF EvictedBy
  <2>2. Evict(w, {})
    BY <1>1, <2>1, Zenon
  <2>3. cache' = cache
    BY <2>2 DEF Evict, CacheTypeOK
  <2> QED
    BY <1>2, <2>3 DEF cacheVars
<1> QED
  BY <1>1, <1>3, <1>4, <1>5 DEF StreamEvents

\* A step of the composition is a step of TokenCache, or leaves it alone.
LEMMA CacheStep ==
    ASSUME CacheTypeOK, StreamInv, [InvNext]_invVars PROVE CacheNext \/ UNCHANGED cacheVars
<1>1. CASE UNCHANGED invVars
  BY <1>1, Zenon
<1>2. CASE Unannounced
  BY <1>2, Zenon DEF Unannounced, CacheNext
<1>3. ASSUME NEW w \in Workers, NEW t \in Tokens, LogoutCommit(w, t) \/ LogoutEvict(w, t)
      PROVE  CacheNext
  BY <1>3, Zenon DEF LogoutCommit, LogoutEvict, CacheNext
<1>4. ASSUME NEW u \in Users, ReuseCommit(u) \/ LoginReactivates(u) PROVE CacheNext
  BY <1>4, Zenon DEF ReuseCommit, LoginReactivates, CacheNext
<1>5. ASSUME RefreshCommit \/ \E u \in Users : LoginRehashes(u) PROVE UNCHANGED cacheVars
  BY <1>5, Zenon DEF LoginRehashes, RefreshCommit
<1>6. ASSUME NEW e \in outgoing, PublishEvent(e) \/ RequestFails(e)
      PROVE  UNCHANGED cacheVars
  BY <1>6, Zenon DEF PublishEvent, RequestFails
<1>7. ASSUME NEW w \in Workers, Poll(w) \/ PollEnds(w) PROVE UNCHANGED cacheVars
  BY <1>7, Zenon DEF Poll, PollEnds
<1>8. ASSUME NEW w \in Workers, Handle(w) PROVE CacheNext \/ UNCHANGED cacheVars
  BY <1>8, HandleEvicts, Zenon DEF CacheNext
<1>9. ASSUME NEW w \in Workers, RestartWorker(w) PROVE CacheNext
  BY <1>9, Zenon DEF RestartWorker, CacheNext
<1> QED
  BY <1>1, <1>2, <1>3, <1>4, <1>5, <1>6, <1>7, <1>8, <1>9, Zenon DEF InvNext, Listener

\* The events of the stream and the requests around it only evict, revoke and
\* look up as TokenCache specifies.
LEMMA CacheImplemented == InvSpec => CacheSpec
<1>1. InvInit => CacheInit /\ CacheTypeOK
  BY CacheAssumption DEF InvInit, CacheInit, CacheTypeOK, Absent, Horizon
<1>2. CacheTypeOK /\ StreamInv /\ [InvNext]_invVars => CacheTypeOK' /\ [CacheNext]_cacheVars
  BY CacheStep, CacheTypeStep, Zenon
<1> QED
  BY <1>1, <1>2, StreamTyped, PTL DEF InvSpec, CacheSpec

\* With the stream in place, and however it fails, a dead token and a dead account
\* are still served for less than FetchTime + CacheTTL.
THEOREM ClusterStaleSafe == InvSpec => [](TokenStaleBound /\ AccountStaleBound)
BY CacheImplemented, TokenStaleSafe, AccountStaleSafe, PTL

-----------------------------------------------------------------------------
(* InvalidationClears *)

\* The strengthening: what a worker has cleared is dead, and no lookup of it has
\* passed its check there.
ClearedInv ==
    \A w \in Workers, t \in Tokens :
        <<w, t>> \in cleared => Dead(t) /\ t \notin Cached(w) /\ ~Passed(w, t)

\* A dead token stays dead.
LEMMA DeadForGood ==
    ASSUME CacheTypeOK, CacheNext \/ UNCHANGED cacheVars, NEW t \in Tokens, Dead(t)
    PROVE  Dead(t)'
<1>1. CASE UNCHANGED access_tokens
  BY <1>1 DEF Dead
<1>2. ASSUME NEW x \in Tokens, IssueToken(x) \/ ExpireToken(x) PROVE Dead(t)'
  BY <1>2 DEF IssueToken, ExpireToken, Dead, CacheTypeOK
<1>3. ASSUME NEW ts, RevokeTokens(ts) PROVE Dead(t)'
  BY <1>3 DEF RevokeTokens, Dead, CacheTypeOK
<1>4. ASSUME NEW u \in Users, DeleteAccount(u) PROVE Dead(t)'
  BY <1>4 DEF DeleteAccount, Dead, CacheTypeOK
<1>5. ASSUME NEW r \in Requests, LookupMiss(r) \/ Lookup(r) PROVE UNCHANGED access_tokens
  BY <1>5 DEF LookupMiss, Lookup, ReadToken, ReadUser, FillCache, LookupFails, db
<1>6. ASSUME \/ \E w \in Workers, x \in Tokens : EvictToken(w, x)
             \/ \E w \in Workers, u \in Users : EvictUser(w, u)
             \/ \E u \in Users : DeactivateAccount(u) \/ ReactivateAccount(u)
             \/ \E w \in Workers : Restart(w)
             \/ Tick
      PROVE  UNCHANGED access_tokens
  BY <1>6 DEF EvictToken, EvictUser, DeactivateAccount, ReactivateAccount, Restart, Tick, db
<1>7. CASE UNCHANGED cacheVars
  BY <1>1, <1>7 DEF cacheVars, db
<1> QED
  BY <1>1, <1>2, <1>3, <1>4, <1>5, <1>6, <1>7 DEF CacheNext

\* No step takes a dead token into a cache, or lets a new lookup of it pass,
\* where no lookup had passed before.
LEMMA StaysClear ==
    ASSUME CacheTypeOK, CacheNext \/ UNCHANGED cacheVars, NEW w \in Workers, NEW t \in Tokens,
           Dead(t), t \notin Cached(w), ~Passed(w, t)
    PROVE  t \notin Cached(w)' /\ ~Passed(w, t)'
<1> DEFINE Clear == t \notin Cached(w)' /\ ~Passed(w, t)'
<1>0. \A r \in Requests : r.worker \in Workers /\ r.token \in Tokens
  BY CacheAssumption DEF RequestShape
<1>1. cache[w][t].life = 0 /\ Absent.life = 0
  BY DEF Cached, CacheTypeOK, Absent
<1>2. \A r \in Requests : r.worker = w /\ r.token = t => phase[r] \notin {"user", "fill"}
  BY DEF Passed
<1>3. ASSUME cache'[w][t].life = 0 PROVE t \notin Cached(w)'
  BY <1>3 DEF Cached
<1>4. ASSUME \A r \in Requests : phase'[r] = phase[r] \/ phase'[r] \in {"idle", "token"}
             \/ r.token # t \/ r.worker # w
      PROVE  ~Passed(w, t)'
  BY <1>2, <1>4 DEF Passed
<1>5. ASSUME UNCHANGED cache, UNCHANGED phase PROVE Clear
  BY <1>1, <1>3, <1>4, <1>5
<1>6. ASSUME NEW r \in Requests, NEW p, NEW a, NEW flag, Await(r, p, a, flag),
             p \in {"idle", "token"} \/ r.token # t \/ r.worker # w
      PROVE  ~Passed(w, t)'
  <2>1. \A q \in Requests : phase'[q] = IF q = r THEN p ELSE phase[q]
    BY <1>6 DEF Await, CacheTypeOK
  <2> QED
    BY <1>4, <1>6, <2>1
<1>7. ASSUME NEW r \in Requests, LookupMiss(r) \/ LookupFails(r) PROVE Clear
  BY <1>1, <1>3, <1>6, <1>7 DEF LookupMiss, LookupFails, Return
<1>8. ASSUME NEW r \in Requests, ReadToken(r) PROVE Clear
  <2>1. CASE access_tokens[r.token] = "live"
    <3>1. r.token # t
      BY <2>1 DEF Dead
    <3> QED
      BY <1>1, <1>3, <1>6, <1>8, <2>1, <3>1 DEF ReadToken, IsValid
  <2>2. CASE access_tokens[r.token] # "live"
    BY <1>1, <1>3, <1>6, <1>8, <2>2 DEF ReadToken, Return, IsValid
  <2> QED
    BY <2>1, <2>2
<1>9. ASSUME NEW r \in Requests, ReadUser(r) PROVE Clear
  <2>1. r.token # t \/ r.worker # w
    BY <1>2, <1>9 DEF ReadUser
  <2>2. UNCHANGED cache /\ \E p, a, flag : Await(r, p, a, flag)
    BY <1>9, Zenon DEF ReadUser, Return
  <2> QED
    BY <1>1, <1>3, <1>6, <2>1, <2>2
<1>10. ASSUME NEW r \in Requests, FillCache(r) PROVE Clear
  <2>1. r.token # t \/ r.worker # w
    BY <1>2, <1>10 DEF FillCache
  <2>2. /\ Set(r.worker, r.token, saw_deactivated[r])
        /\ Await(r, "idle", 0, FALSE)
        /\ saw_deactivated[r] \in BOOLEAN
    BY <1>10 DEF FillCache, Return, CacheTypeOK
  <2>3. cache'[w][t] = cache[w][t] \/ cache'[w][t] = Absent
    <3>1. saw_deactivated[r] \in BOOLEAN
      BY <2>2
    <3>2. Set(r.worker, r.token, saw_deactivated[r])
      BY <2>2
    <3>3. \/ cache'[w][t] = cache[w][t]
          \/ cache'[w][t] = Absent
          \/ /\ w = r.worker /\ t = r.token
             /\ cache'[w][t] = [life |-> CacheTTL, deactivated |-> saw_deactivated[r]]
      BY <1>0, <3>1, <3>2, SetEffect, SMTT(20)
    <3> QED
      BY <2>1, <3>3
  <2> QED
    BY <1>1, <1>3, <1>6, <2>2, <2>3
<1>11. ASSUME NEW v \in Workers, NEW ts, Evict(v, ts), UNCHANGED phase PROVE Clear
  <2>1. cache'[w][t] = cache[w][t] \/ cache'[w][t] = Absent
    BY <1>11, EvictEffect
  <2> QED
    BY <1>1, <1>3, <1>4, <1>11, <2>1
<1>12. ASSUME NEW v \in Workers, Restart(v) PROVE Clear
  <2>1. cache'[w][t] = cache[w][t] \/ cache'[w][t] = Absent
    BY <1>12, RestartEffect
  <2>2. \A r \in Requests : phase'[r] = phase[r] \/ phase'[r] \in {"idle", "token"}
    BY <1>12 DEF Restart
  <2> QED
    BY <1>1, <1>3, <1>4, <2>1, <2>2
<1>13. ASSUME Tick PROVE Clear
  <2>1. cache'[w][t] = Absent \/ cache'[w][t].life = -1
    BY <1>1, <1>13, TickEffect
  <2>2. cache'[w][t].life \in 0..CacheTTL
    BY <1>13, TickEffect DEF Entry
  <2>3. cache'[w][t].life = 0
    BY <1>1, <2>1, <2>2, CacheAssumption
  <2>4. UNCHANGED phase
    BY <1>13 DEF Tick
  <2> QED
    BY <1>3, <1>4, <2>3, <2>4
<1>14. ASSUME \/ \E x \in Tokens : IssueToken(x) \/ RevokeTokens({x}) \/ ExpireToken(x)
              \/ \E u \in Users : \/ RevokeTokens(TokensOf(u))
                                  \/ DeactivateAccount(u)
                                  \/ ReactivateAccount(u)
                                  \/ DeleteAccount(u)
              \/ UNCHANGED cacheVars
       PROVE  Clear
  BY <1>5, <1>14 DEF IssueToken, RevokeTokens, ExpireToken, DeactivateAccount,
     ReactivateAccount, DeleteAccount, lookups, cacheVars
<1>15. ASSUME \/ \E v \in Workers, x \in Tokens : EvictToken(v, x)
              \/ \E v \in Workers, u \in Users : EvictUser(v, u)
       PROVE  Clear
  BY <1>11, <1>15 DEF EvictToken, EvictUser, lookups
<1>16. ASSUME NEW r \in Requests, LookupMiss(r) \/ Lookup(r) PROVE Clear
  BY <1>7, <1>8, <1>9, <1>10, <1>16 DEF Lookup
<1> HIDE DEF Clear
<1>17. Clear
  BY <1>12, <1>13, <1>14, <1>15, <1>16 DEF CacheNext
<1> QED
  BY <1>17 DEF Clear

\* A pair that a step adds to cleared is one that the step evicts.
LEMMA ClearedAdds ==
    ASSUME StreamInv, [InvNext]_invVars, NEW w \in Workers, NEW t \in Tokens,
           <<w, t>> \in cleared', <<w, t>> \notin cleared
    PROVE  /\ Dead(t) /\ ~Passed(w, t)
           /\ UNCHANGED phase
           /\ \E ts : t \in ts /\ Evict(w, ts)
<1> DEFINE Goal == /\ Dead(t) /\ ~Passed(w, t)
                   /\ UNCHANGED phase
                   /\ \E ts : t \in ts /\ Evict(w, ts)
<1>1. ASSUME NEW v \in Workers, NEW ts, Clears(v, ts), Evict(v, ts), UNCHANGED phase
      PROVE  Goal
  <2>1. v = w /\ t \in ts /\ Dead(t) /\ ~Passed(w, t)
    BY <1>1, Zenon DEF Clears
  <2> QED
    BY <1>1, <2>1
<1>2. ASSUME cleared' \subseteq cleared PROVE FALSE
  BY <1>2
<1> HIDE DEF Goal
<1>3. ASSUME NEW v \in Workers, Handle(v) PROVE Goal
  <2>1. UNCHANGED phase
    BY <1>3 DEF Handle, lookups
  <2> QED
    BY <1>1, <1>3, <2>1, HandledEntry
<1>4. ASSUME NEW v \in Workers, NEW x \in Tokens, LogoutEvict(v, x) PROVE Goal
  BY <1>1, <1>4 DEF LogoutEvict, EvictToken, lookups
<1>5. ASSUME NEW v \in Workers, NEW x \in Tokens, LogoutCommit(v, x) PROVE Goal
  BY <1>2, <1>5 DEF LogoutCommit, Then
<1>6. ASSUME NEW u \in Users, ReuseCommit(u) \/ LoginReactivates(u) \/ LoginRehashes(u)
      PROVE  Goal
  BY <1>2, <1>6 DEF ReuseCommit, LoginReactivates, LoginRehashes, Then
<1>7. ASSUME NEW e \in outgoing, PublishEvent(e) \/ RequestFails(e) PROVE Goal
  BY <1>2, <1>7 DEF PublishEvent, RequestFails
<1>8. ASSUME NEW v \in Workers, Poll(v) \/ PollEnds(v) \/ RestartWorker(v) PROVE Goal
  BY <1>2, <1>8 DEF Poll, PollEnds, RestartWorker
<1>9. ASSUME RefreshCommit \/ Unannounced \/ UNCHANGED invVars PROVE Goal
  BY <1>2, <1>9 DEF RefreshCommit, Then, Unannounced
<1>10. Goal
  BY <1>3, <1>4, <1>5, <1>6, <1>7, <1>8, <1>9 DEF InvNext, Listener
<1> QED
  BY <1>10 DEF Goal

\* Nothing brings a cleared token back.
LEMMA ClearedStep ==
    ASSUME CacheTypeOK, ClearedInv, StreamInv, [InvNext]_invVars PROVE ClearedInv'
<1> SUFFICES ASSUME NEW w \in Workers, NEW t \in Tokens, <<w, t>> \in cleared'
             PROVE  Dead(t)' /\ t \notin Cached(w)' /\ ~Passed(w, t)'
  BY DEF ClearedInv
<1>1. CASE <<w, t>> \in cleared
  <2>1. Dead(t) /\ t \notin Cached(w) /\ ~Passed(w, t)
    BY <1>1 DEF ClearedInv
  <2> QED
    BY <2>1, CacheStep, DeadForGood, StaysClear
<1>2. CASE <<w, t>> \notin cleared
  <2>1. /\ Dead(t) /\ ~Passed(w, t)
        /\ UNCHANGED phase
        /\ \E ts : t \in ts /\ Evict(w, ts)
    BY <1>2, ClearedAdds
  <2>2. cache'[w][t] = Absent
    BY <2>1 DEF Evict, CacheTypeOK
  <2>3. Dead(t)'
    BY <2>1, CacheStep, DeadForGood
  <2>4. t \notin Cached(w)'
    BY <2>2 DEF Cached, Absent
  <2>5. ~Passed(w, t)'
    BY <2>1 DEF Passed
  <2> QED
    BY <2>3, <2>4, <2>5
<1> QED
  BY <1>1, <1>2

\* A worker that has evicted a dead token never serves it again, except for a
\* lookup that had passed its check when the eviction came.
THEOREM ClearsSafe == InvSpec => []InvalidationClears
<1>1. InvInit => ClearedInv
  BY DEF InvInit, ClearedInv
<1>2. CacheTypeOK /\ StreamInv /\ ClearedInv /\ [InvNext]_invVars => ClearedInv'
  BY ClearedStep
<1>3. ClearedInv => InvalidationClears
  BY DEF ClearedInv, InvalidationClears
<1> QED
  BY <1>1, <1>2, <1>3, StreamTyped, CacheImplemented, CacheTypeCorrect, PTL
     DEF InvSpec

-----------------------------------------------------------------------------
(* The cursor *)

\* A listener that has handled an entry waits after the last one it has
\* handled, never again after "$".
CursorInv ==
    /\ handled \in [Workers -> SUBSET Nat]
    /\ CursorSkipsNothing
    /\ \A w \in Workers : handled[w] # {} =>
           last_id[w] # Latest /\ reading[w] \in {NotReading, last_id[w]}

\* A step that at most adds to the stream and trims it.
LEMMA CursorFrame ==
    ASSUME StreamInv, CursorInv, UNCHANGED <<handled, last_id, reading>>,
           trimmed' \in Nat, trimmed' >= trimmed
    PROVE  CursorInv'
<1>1. ASSUME NEW w \in Workers, NEW i \in handled[w], NEW j \in i..last_id[w]
      PROVE  j \in handled[w] \/ j <= trimmed'
  <2>1. /\ j \in handled[w] \/ j <= trimmed
        /\ j \in Int /\ trimmed \in Nat
    BY <1>1 DEF CursorInv, CursorSkipsNothing, StreamInv
  <2> QED
    BY <2>1
<1>2. CursorSkipsNothing'
  BY <1>1 DEF CursorSkipsNothing
<1> QED
  BY <1>2 DEF CursorInv

\* The entry that is handled is the one after the cursor, or the first one left.
LEMMA CursorHandle ==
    ASSUME StreamInv, CursorInv, NEW w \in Workers, Handle(w) PROVE CursorInv'
<1>0. PICK i : i = (IF reading[w] < trimmed THEN trimmed ELSE reading[w]) + 1
  OBVIOUS
<1>1. /\ reading[w] # NotReading /\ UNCHANGED trimmed
      /\ handled' = [handled EXCEPT ![w] = @ \cup {i}]
      /\ last_id' = [last_id EXCEPT ![w] = i]
      /\ reading' = [reading EXCEPT ![w] = NotReading]
  BY <1>0 DEF Handle, CursorAfter
<1>2. reading[w] \in Nat /\ trimmed \in Nat /\ i \in Nat /\ i > 0
  BY <1>0, <1>1 DEF StreamInv, NotReading
<1>3. /\ handled'[w] = handled[w] \cup {i} /\ last_id'[w] = i /\ reading'[w] = NotReading
      /\ \A v \in Workers : v # w => /\ handled'[v] = handled[v] /\ last_id'[v] = last_id[v]
                                     /\ reading'[v] = reading[v]
  BY <1>1 DEF StreamInv, CursorInv
<1>4. handled' \in [Workers -> SUBSET Nat]
  BY <1>1, <1>2 DEF CursorInv
<1>5. ASSUME NEW k \in handled'[w], NEW j \in k..i PROVE j \in handled'[w] \/ j <= trimmed
  <2>0. k \in Nat /\ j \in Nat
    BY <1>4
  <2>1. CASE k = i
    BY <1>2, <1>3, <2>0, <2>1
  <2>2. CASE k \in handled[w]
    <3>1. reading[w] = last_id[w]
      BY <1>1, <2>2 DEF CursorInv
    <3>2. CASE j <= last_id[w]
      <4>1. last_id[w] \in Int /\ j \in k..last_id[w]
        BY <2>0, <3>2 DEF StreamInv
      <4> QED
        BY <1>3, <2>2, <4>1 DEF CursorInv, CursorSkipsNothing
    <3>3. CASE ~ (j <= last_id[w])
      <4>1. j <= trimmed \/ j = i
        BY <1>0, <1>2, <2>0, <3>1, <3>3
      <4> QED
        BY <1>3, <4>1
    <3> QED
      BY <3>2, <3>3
  <2> QED
    BY <1>3, <2>1, <2>2
<1>6. CursorSkipsNothing'
  <2> SUFFICES ASSUME NEW v \in Workers, NEW k \in handled'[v], NEW j \in k..last_id'[v]
               PROVE  j \in handled'[v] \/ j <= trimmed'
    BY DEF CursorSkipsNothing
  <2>1. CASE v = w
    BY <1>1, <1>3, <1>5, <2>1
  <2>2. CASE v # w
    <3>1. k \in handled[v] /\ j \in k..last_id[v] /\ handled'[v] = handled[v]
      BY <1>3, <2>2
    <3> QED
      BY <1>1, <3>1 DEF CursorInv, CursorSkipsNothing
  <2> QED
    BY <2>1, <2>2
<1>7. ASSUME NEW v \in Workers, handled'[v] # {}
      PROVE  last_id'[v] # Latest /\ reading'[v] \in {NotReading, last_id'[v]}
  <2>1. CASE v = w
    BY <1>2, <1>3, <2>1 DEF Latest
  <2>2. CASE v # w
    BY <1>3, <1>7, <2>2 DEF CursorInv
  <2> QED
    BY <2>1, <2>2
<1> QED
  BY <1>4, <1>6, <1>7 DEF CursorInv

\* XADD never brings a trimmed entry back.
LEMMA TrimGrows ==
    ASSUME StreamInv, NEW e \in StreamEvents, XAdd(e) PROVE trimmed' \in Nat /\ trimmed' >= trimmed
<1>1. stream' \in Seq(StreamEvents) /\ Len(stream') \in Nat
  BY DEF XAdd, StreamInv
<1> QED
  BY <1>1, InvalidationAssumption DEF XAdd, StreamInv

\* Every step keeps the cursors.
LEMMA CursorStep ==
    ASSUME StreamInv, CursorInv, [InvNext]_invVars PROVE CursorInv'
<1>0. trimmed \in Nat /\ trimmed >= trimmed
  BY DEF StreamInv
<1>1. ASSUME UNCHANGED <<handled, last_id, reading, trimmed>> PROVE CursorInv'
  BY <1>0, <1>1, CursorFrame
<1>2. ASSUME NEW e \in outgoing, PublishEvent(e) \/ RequestFails(e) PROVE CursorInv'
  <2>1. UNCHANGED <<handled, last_id, reading>>
    BY <1>2 DEF PublishEvent, RequestFails
  <2>2. UNCHANGED trimmed \/ (e.event # "local_evict" /\ XAdd(Published(e)))
    BY <1>2 DEF PublishEvent, RequestFails
  <2>3. CASE UNCHANGED trimmed
    BY <1>1, <2>1, <2>3
  <2>4. CASE e.event # "local_evict" /\ XAdd(Published(e))
    <3>1. Published(e) \in StreamEvents
      BY <2>4, PublishedType DEF StreamInv
    <3>2. trimmed' \in Nat /\ trimmed' >= trimmed
      BY <2>4, <3>1, TrimGrows
    <3> QED
      BY <2>1, <3>2, CursorFrame
  <2> QED
    BY <2>2, <2>3, <2>4
<1>3. ASSUME NEW w \in Workers, Poll(w) PROVE CursorInv'
  <2>1. /\ UNCHANGED <<handled, last_id, trimmed>>
        /\ reading' = [reading EXCEPT ![w] = Position(w)]
    BY <1>3 DEF Poll
  <2>2. CursorSkipsNothing'
    BY <2>1 DEF CursorInv, CursorSkipsNothing
  <2>3. ASSUME NEW v \in Workers, handled[v] # {}
        PROVE  last_id[v] # Latest /\ reading'[v] \in {NotReading, last_id[v]}
    <3>1. last_id[v] # Latest /\ reading[v] \in {NotReading, last_id[v]}
      BY <2>3 DEF CursorInv
    <3>2. reading'[v] = IF v = w THEN Position(w) ELSE reading[v]
      BY <2>1 DEF StreamInv
    <3> QED
      BY <3>1, <3>2 DEF Position
  <2> QED
    BY <2>1, <2>2, <2>3 DEF CursorInv
<1>4. ASSUME NEW w \in Workers, PollEnds(w) PROVE CursorInv'
  <2>1. /\ UNCHANGED <<handled, last_id, trimmed>>
        /\ reading' = [reading EXCEPT ![w] = NotReading]
    BY <1>4 DEF PollEnds
  <2>2. CursorSkipsNothing'
    BY <2>1 DEF CursorInv, CursorSkipsNothing
  <2>3. \A v \in Workers : handled[v] # {} =>
            last_id[v] # Latest /\ reading'[v] \in {NotReading, last_id[v]}
    BY <2>1 DEF CursorInv, StreamInv
  <2> QED
    BY <2>1, <2>2, <2>3 DEF CursorInv
<1>5. ASSUME NEW w \in Workers, RestartWorker(w) PROVE CursorInv'
  <2>1. /\ UNCHANGED trimmed
        /\ handled' = [handled EXCEPT ![w] = {}]
        /\ last_id' = [last_id EXCEPT ![w] = Latest]
        /\ reading' = [reading EXCEPT ![w] = NotReading]
    BY <1>5 DEF RestartWorker
  <2>2. /\ handled'[w] = {}
        /\ \A v \in Workers : v # w => /\ handled'[v] = handled[v] /\ last_id'[v] = last_id[v]
                                       /\ reading'[v] = reading[v]
    BY <2>1 DEF CursorInv, StreamInv
  <2>3. handled' \in [Workers -> SUBSET Nat]
    BY <2>1 DEF CursorInv
  <2>4. CursorSkipsNothing'
    BY <2>1, <2>2 DEF CursorInv, CursorSkipsNothing
  <2>5. \A v \in Workers : handled'[v] # {} =>
            last_id'[v] # Latest /\ reading'[v] \in {NotReading, last_id'[v]}
    BY <2>2 DEF CursorInv
  <2> QED
    BY <2>3, <2>4, <2>5 DEF CursorInv
<1>6. ASSUME NEW w \in Workers, NEW t \in Tokens, LogoutCommit(w, t) \/ LogoutEvict(w, t)
      PROVE  UNCHANGED <<handled, last_id, reading, trimmed>>
  BY <1>6 DEF LogoutCommit, LogoutEvict, Then
<1>7. ASSUME RefreshCommit \/ Unannounced \/ UNCHANGED invVars
      PROVE  UNCHANGED <<handled, last_id, reading, trimmed>>
  BY <1>7 DEF RefreshCommit, Unannounced, Then
<1>8. ASSUME NEW u \in Users, ReuseCommit(u) \/ LoginReactivates(u) \/ LoginRehashes(u)
      PROVE  UNCHANGED <<handled, last_id, reading, trimmed>>
  BY <1>8 DEF ReuseCommit, LoginReactivates, LoginRehashes, Then
<1>9. ASSUME NEW w \in Workers, Handle(w) PROVE CursorInv'
  BY <1>9, CursorHandle
<1> QED
  BY <1>1, <1>2, <1>3, <1>4, <1>5, <1>6, <1>7, <1>8, <1>9 DEF InvNext, Listener

\* Whatever XREAD calls time out or fail and however Redis trims, a listener
\* skips no entry after the first it has handled: last_id is only ever set to
\* the id of the entry that was handled.
THEOREM CursorSafe == InvSpec => []CursorSkipsNothing
<1>1. InvInit => CursorInv
  BY DEF InvInit, CursorInv, CursorSkipsNothing
<1>2. CursorInv => CursorSkipsNothing
  BY DEF CursorInv
<1> QED
  BY <1>1, <1>2, CursorStep, StreamTyped, PTL DEF InvSpec
=============================================================================
