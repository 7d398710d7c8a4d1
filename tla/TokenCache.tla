----------------------------- MODULE TokenCache -----------------------------
(***************************************************************************)
(* The worker-local token caches (TokenCache in src/services/auth.py) and  *)
(* the two-level token validation that fills them (authenticate_token in   *)
(* src/api/dependencies.py), against the access_tokens and users tables.   *)
(*                                                                         *)
(* A cache hit looks neither at revocation nor at expiry, so what bounds   *)
(* the life of a revoked token is the TTL of its cache entry and the time  *)
(* a slow-path lookup may be in flight.  Time is relative: every Tick ages *)
(* the entries, the lookups and the dead tokens and accounts.              *)
(*                                                                         *)
(* Invalidation events arrive here in any order, or never; module          *)
(* Invalidation adds the event stream that carries them.                   *)
(***************************************************************************)
EXTENDS Naturals, FiniteSets

CONSTANTS
    Workers,    \* worker processes, each with its own cache
    Users,      \* accounts
    Tokens,     \* access tokens
    UserOf,     \* the account a token was issued to
    Requests,   \* requests to validate a token, see below
    CacheTTL,   \* ticks an entry lives (300 s in the code)
    CacheSize,  \* entries a cache holds (10000 in the code)
    FetchTime   \* ticks from reading the token row to storing the entry: the
                \* query for the user, which command_timeout bounds

\* A request is validated by one worker, for one token, by an endpoint that
\* does or does not allow deactivated accounts.
RequestShape == [worker : Workers, token : Tokens, allow_deactivated : BOOLEAN, id : Nat]

ASSUME CacheAssumption ==
    /\ UserOf \in [Tokens -> Users]
    /\ Requests \subseteq RequestShape
    /\ CacheTTL \in Nat \ {0}
    /\ CacheSize \in Nat \ {0}
    /\ FetchTime \in Nat

VARIABLES
    access_tokens,  \* rows of access_tokens: none, live, revoked, expired, gone
    accounts,       \* rows of users: active, deactivated, deleted
    cache,          \* per worker and token: ticks left and the cached user's flag
    phase,          \* the query a request waits for, "idle" when it is not running
    age,            \* ticks since a running request read its token row
    saw_deactivated,\* the deactivated flag of the user row a request has read
    token_age,      \* ticks since a token was last valid
    account_age     \* ticks since an account was last active

db       == <<access_tokens, accounts, token_age, account_age>>
lookups  == <<phase, age, saw_deactivated>>
cacheVars == <<db, cache, lookups>>

\* No entry outlives its token by as much as this.
Horizon == FetchTime + CacheTTL

Absent == [life |-> 0, deactivated |-> FALSE]

CacheInit ==
    /\ access_tokens = [t \in Tokens |-> "none"]
    /\ accounts = [u \in Users |-> "active"]
    /\ cache = [w \in Workers |-> [t \in Tokens |-> Absent]]
    /\ phase = [r \in Requests |-> "idle"]
    /\ age = [r \in Requests |-> 0]
    /\ saw_deactivated = [r \in Requests |-> FALSE]
    /\ token_age = [t \in Tokens |-> 0]
    /\ account_age = [u \in Users |-> 0]

-----------------------------------------------------------------------------
(* TokenCache: get, set, evict, evict_user *)

Cached(w) == {t \in Tokens : cache[w][t].life > 0}

\* What TTLCache may drop before it takes t: another entry when it is full.  Which
\* one depends on the order of use, and is left open.
Victims(w, t) ==
    {vs \in SUBSET (Cached(w) \ {t}) :
        Cardinality(vs) =
            IF t \notin Cached(w) /\ Cardinality(Cached(w)) >= CacheSize THEN 1 ELSE 0}

Set(w, t, flag) ==
    \E vs \in Victims(w, t) :
        cache' = [cache EXCEPT ![w] = [x \in Tokens |->
            IF x = t THEN [life |-> CacheTTL, deactivated |-> flag]
            ELSE IF x \in vs THEN Absent ELSE @[x]]]

\* Fault: the entries are looked up under another key.
EvictNothing(w, ts) == UNCHANGED cache

Evict(w, ts) ==
    cache' = [cache EXCEPT ![w] = [x \in Tokens |-> IF x \in ts THEN Absent ELSE @[x]]]

TokensOf(u) == {t \in Tokens : UserOf[t] = u}

\* handle_invalidation_event, and the eviction a logout does itself.
EvictToken(w, t) == Evict(w, {t}) /\ UNCHANGED <<db, lookups>>
EvictUser(w, u)  == Evict(w, TokensOf(u)) /\ UNCHANGED <<db, lookups>>

-----------------------------------------------------------------------------
(* authenticate_token *)

\* The request goes on to await p with local state a and flag; at the end of
\* the request both are gone.
Await(r, p, a, flag) ==
    /\ phase' = [phase EXCEPT ![r] = p]
    /\ age' = [age EXCEPT ![r] = a]
    /\ saw_deactivated' = [saw_deactivated EXCEPT ![r] = flag]

Return(r) == Await(r, "idle", 0, FALSE)

\* A miss: the slow path waits for a connection and the token row.  A hit is
\* answered from the entry and changes nothing.
LookupMiss(r) ==
    /\ phase[r] = "idle"
    /\ r.token \notin Cached(r.worker)
    /\ Await(r, "token", 0, FALSE)
    /\ UNCHANGED <<db, cache>>

\* Fault: is_revoked and the expiry are not looked at.
IsKnown(t) == access_tokens[t] # "none"

\* The row exists and is neither revoked nor expired.
IsValid(t) == access_tokens[t] = "live"

\* get_access_token: a token that is not valid ends the request.
ReadToken(r) ==
    /\ phase[r] = "token"
    /\ IF IsValid(r.token) THEN Await(r, "user", 0, FALSE) ELSE Return(r)
    /\ UNCHANGED <<db, cache>>

\* Fault: the record is built without the column.
FlagDefault(account) == FALSE

Flag(account) == account = "deactivated"

\* get_user_by_id, a second statement outside any transaction.
ReadUser(r) ==
    LET account == accounts[UserOf[r.token]]
        refused == account = "deleted" \/ (account = "deactivated" /\ ~r.allow_deactivated)
    IN  /\ phase[r] = "user"
        /\ IF refused THEN Return(r) ELSE Await(r, "fill", age[r], Flag(account))
        /\ UNCHANGED <<db, cache>>

\* The connection has been released: the entry is stored and the request ends.
FillCache(r) ==
    /\ phase[r] = "fill"
    /\ Set(r.worker, r.token, saw_deactivated[r])
    /\ Return(r)
    /\ UNCHANGED db

\* A query times out or the connection breaks.
LookupFails(r) ==
    /\ phase[r] # "idle"
    /\ Return(r)
    /\ UNCHANGED <<db, cache>>

Lookup(r) == ReadToken(r) \/ ReadUser(r) \/ FillCache(r) \/ LookupFails(r)

-----------------------------------------------------------------------------
(* Committed transactions of the services *)

\* The ages measure from the step that ends the token's or account's validity.
IssueToken(t) ==
    /\ access_tokens[t] = "none"
    /\ accounts[UserOf[t]] # "deleted"
    /\ access_tokens' = [access_tokens EXCEPT ![t] = "live"]
    /\ UNCHANGED <<accounts, token_age, account_age, cache, lookups>>

\* UPDATE ... SET is_revoked = TRUE of the rows in ts that exist.
RevokeTokens(ts) ==
    /\ access_tokens' = [t \in Tokens |->
           IF t \in ts /\ access_tokens[t] \in {"live", "expired"} THEN "revoked"
           ELSE access_tokens[t]]
    /\ UNCHANGED <<accounts, token_age, account_age, cache, lookups>>

\* The clock passes expires_at.
ExpireToken(t) ==
    /\ access_tokens[t] = "live"
    /\ access_tokens' = [access_tokens EXCEPT ![t] = "expired"]
    /\ UNCHANGED <<accounts, token_age, account_age, cache, lookups>>

DeactivateAccount(u) ==
    /\ accounts[u] = "active"
    /\ accounts' = [accounts EXCEPT ![u] = "deactivated"]
    /\ UNCHANGED <<access_tokens, token_age, account_age, cache, lookups>>

ReactivateAccount(u) ==
    /\ accounts[u] = "deactivated"
    /\ accounts' = [accounts EXCEPT ![u] = "active"]
    /\ account_age' = [account_age EXCEPT ![u] = 0]
    /\ UNCHANGED <<access_tokens, token_age, cache, lookups>>

\* The tokens go with the account (ON DELETE CASCADE).
DeleteAccount(u) ==
    /\ accounts[u] # "deleted"
    /\ accounts' = [accounts EXCEPT ![u] = "deleted"]
    /\ access_tokens' = [t \in Tokens |->
           IF UserOf[t] = u /\ access_tokens[t] # "none" THEN "gone" ELSE access_tokens[t]]
    /\ UNCHANGED <<token_age, account_age, cache, lookups>>

-----------------------------------------------------------------------------
\* The worker process is replaced: an empty cache, no request.
Restart(w) ==
    /\ cache' = [cache EXCEPT ![w] = [t \in Tokens |-> Absent]]
    /\ phase' = [r \in Requests |-> IF r.worker = w THEN "idle" ELSE phase[r]]
    /\ age' = [r \in Requests |-> IF r.worker = w THEN 0 ELSE age[r]]
    /\ saw_deactivated' = [r \in Requests |-> r.worker # w /\ saw_deactivated[r]]
    /\ UNCHANGED db

Aged(e) == IF e.life <= 1 THEN Absent
           ELSE [life |-> e.life - 1, deactivated |-> e.deactivated]

Older(n) == IF n < Horizon THEN n + 1 ELSE n

\* Time passes, unless a lookup would exceed the query timeout.
Tick ==
    /\ \A r \in Requests : phase[r] \in {"user", "fill"} => age[r] < FetchTime
    /\ age' = [r \in Requests |->
           IF phase[r] \in {"user", "fill"} THEN age[r] + 1 ELSE age[r]]
    /\ cache' = [w \in Workers |-> [t \in Tokens |-> Aged(cache[w][t])]]
    /\ token_age' = [t \in Tokens |->
           IF access_tokens[t] \in {"none", "live"} THEN 0 ELSE Older(token_age[t])]
    /\ account_age' = [u \in Users |->
           IF accounts[u] = "active" THEN 0 ELSE Older(account_age[u])]
    /\ UNCHANGED <<access_tokens, accounts, phase, saw_deactivated>>

CacheNext ==
    \/ \E r \in Requests : LookupMiss(r) \/ Lookup(r)
    \/ \E w \in Workers, t \in Tokens : EvictToken(w, t)
    \/ \E w \in Workers, u \in Users : EvictUser(w, u)
    \/ \E t \in Tokens : IssueToken(t) \/ RevokeTokens({t}) \/ ExpireToken(t)
    \/ \E u \in Users : \/ RevokeTokens(TokensOf(u))
                        \/ DeactivateAccount(u)
                        \/ ReactivateAccount(u)
                        \/ DeleteAccount(u)
    \/ \E w \in Workers : Restart(w)
    \/ Tick

CacheSpec == CacheInit /\ [][CacheNext]_cacheVars

\* Time passes, and a running lookup is resumed when its query has ended.
CacheFairness ==
    /\ WF_cacheVars(Tick)
    /\ \A r \in Requests : WF_cacheVars(Lookup(r))

CacheLiveSpec == CacheSpec /\ CacheFairness

-----------------------------------------------------------------------------
(* Properties *)

\* Every variable has the type of the structure it models.
CacheTypeOK ==
    /\ access_tokens \in [Tokens -> {"none", "live", "revoked", "expired", "gone"}]
    /\ accounts \in [Users -> {"active", "deactivated", "deleted"}]
    /\ cache \in [Workers -> [Tokens -> [life : 0..CacheTTL, deactivated : BOOLEAN]]]
    /\ phase \in [Requests -> {"idle", "token", "user", "fill"}]
    /\ age \in [Requests -> 0..FetchTime]
    /\ saw_deactivated \in [Requests -> BOOLEAN]
    /\ token_age \in [Tokens -> 0..Horizon]
    /\ account_age \in [Users -> 0..Horizon]

\* A worker accepts a token that was revoked, has expired or lost its account
\* for less than FetchTime + CacheTTL, even if no invalidation event reaches it:
\* authenticate_token stores what it read, however late, and then the TTL runs.
TokenStaleBound ==
    \A w \in Workers : \A t \in Cached(w) : token_age[t] < Horizon

\* The same for the account: a worker serves a deactivated or deleted account
\* from its cache for less than that time.  Entries of the reactivation endpoint
\* carry the deactivated flag and are refused everywhere else.
AccountStaleBound ==
    \A w \in Workers : \A t \in Cached(w) :
        ~cache[w][t].deactivated => account_age[UserOf[t]] < Horizon

\* A lookup that was overtaken by a revocation stores the dead token at most
\* FetchTime after it: later no cache takes the token in again.
LateFillBound ==
    [][\A w \in Workers : \A t \in Tokens :
         t \notin Cached(w) /\ t \in Cached(w)' => token_age'[t] <= FetchTime]_cacheVars

\* Without any invalidation event, a revoked token ends up refused by every
\* worker for good.
RevokedEventuallyRefused ==
    \A t \in Tokens :
        access_tokens[t] = "revoked" ~> [](\A w \in Workers : t \notin Cached(w))
=============================================================================
