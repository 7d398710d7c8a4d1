---------------------------- MODULE Invalidation ----------------------------
(***************************************************************************)
(* Cache invalidation across the cluster: the requests that revoke tokens  *)
(* (logout, refresh and login in src/services/auth.py), the Redis stream   *)
(* they publish to, and the listener with which every worker follows the   *)
(* stream (src/redis/stream.py) and evicts from its TokenCache.            *)
(*                                                                         *)
(* Stream entries are numbered from 1.  A listener keeps the position of   *)
(* the last entry it has handled, or "$", which every XREAD turns into the *)
(* end of the stream at the time the command arrives.                      *)
(***************************************************************************)
EXTENDS TokenCache, Integers, FiniteSets, Sequences

CONSTANTS
    StreamMax,  \* entries XADD keeps at least when it trims (10000 in the code)
    MaxEvents,  \* bound on the events of a behaviour, published and still to be published
    StreamFaults\* whether Redis calls may fail

ASSUME InvalidationAssumption ==
    /\ StreamMax \in Nat \ {0}
    /\ MaxEvents \in Nat
    /\ StreamFaults \in BOOLEAN

VARIABLES
    outgoing,   \* what requests have still to do after their commit
    stream,     \* the entries of system_events_stream, trimmed ones included
    trimmed,    \* how many of them are gone
    last_id,    \* per worker, the position in the stream
    reading,    \* per worker, the position its blocked XREAD waits after
    started,    \* per worker, the end of the stream at its first XREAD
    handled,    \* per worker, the entries it has handled
    cleared     \* history: pairs <<worker, token>>, for a dead token that the
                \* worker was told to evict when no lookup of it had passed

streamVars == <<outgoing, stream, trimmed, last_id, reading, started, handled, cleared>>
invVars    == <<cacheVars, streamVars>>

Latest     == -1    \* "$"
NotReading == -1    \* no XREAD is in flight
NotStarted == -1    \* the listener has not sent its first XREAD

TokenRevoked(t)    == [event |-> "token_revoked", token |-> t]
UserInvalidated(u) == [event |-> "user_invalidated", user |-> u]
RefreshRevoked     == [event |-> "refresh_revoked"]

StreamEvents == [event : {"token_revoked"}, token : Tokens]
                    \cup [event : {"user_invalidated"}, user : Users]
                    \cup [event : {"refresh_revoked"}]

\* What a logout has still to do: evict on its own worker, then publish the
\* refresh token's event and after it the access token's.
LocalEvict(w, t)   == [event |-> "local_evict", worker |-> w, token |-> t]
LogoutEvents(t)    == [event |-> "logout_events", token |-> t]

Outgoing == StreamEvents
                \cup [event : {"local_evict"}, worker : Workers, token : Tokens]
                \cup [event : {"logout_events"}, token : Tokens]

InvInit ==
    /\ CacheInit
    /\ outgoing = {}
    /\ stream = <<>>
    /\ trimmed = 0
    /\ last_id = [w \in Workers |-> Latest]
    /\ reading = [w \in Workers |-> NotReading]
    /\ started = [w \in Workers |-> NotStarted]
    /\ handled = [w \in Workers |-> {}]
    /\ cleared = {}

-----------------------------------------------------------------------------
(* AuthService: what follows a commit *)

Then(e) ==
    /\ Len(stream) + Cardinality(outgoing) < MaxEvents
    /\ outgoing' = outgoing \cup {e}
    /\ UNCHANGED <<stream, trimmed, last_id, reading, started, handled, cleared>>

\* The refresh tokens are in no cache: the event that a rotation publishes, or a
\* logout without an access token, is one more entry of the stream.  The pairs
\* that a rotation or a login inserts are IssueToken's: no client presents them
\* before the request has returned.
RefreshCommit ==
    /\ \E t \in Tokens : access_tokens[t] \notin {"none", "gone"}
    /\ UNCHANGED cacheVars
    /\ Then(RefreshRevoked)

\* logout with an access token that has a row, on worker w.
LogoutCommit(w, t) ==
    /\ access_tokens[t] \notin {"none", "gone"}
    /\ RevokeTokens({t})
    /\ Then(LocalEvict(w, t))

\* refresh that finds a reused token: every token of the account.
ReuseCommit(u) ==
    /\ \E t \in TokensOf(u) : access_tokens[t] \notin {"none", "gone"}
    /\ RevokeTokens(TokensOf(u))
    /\ Then(UserInvalidated(u))

\* login into a deactivated account, or with a hash that has to be renewed.
LoginReactivates(u) == ReactivateAccount(u) /\ Then(UserInvalidated(u))

LoginRehashes(u) ==
    /\ accounts[u] = "active"
    /\ UNCHANGED cacheVars
    /\ Then(UserInvalidated(u))

\* A lookup on worker w has found token t valid and will store it.
Passed(w, t) == \E r \in Requests : r.worker = w /\ r.token = t /\ phase[r] \in {"user", "fill"}

Dead(t) == access_tokens[t] \notin {"none", "live"}

Clears(w, ts) ==
    cleared' = cleared \cup {<<w, t>> : t \in {x \in ts : Dead(x) /\ ~Passed(w, x)}}

\* Step 2 of logout: its own worker, before any event.
LogoutEvict(w, t) ==
    /\ LocalEvict(w, t) \in outgoing
    /\ EvictToken(w, t)
    /\ outgoing' = (outgoing \ {LocalEvict(w, t)}) \cup {LogoutEvents(t)}
    /\ Clears(w, {t})
    /\ UNCHANGED <<stream, trimmed, last_id, reading, started, handled>>

\* XADD with an approximate MAXLEN: Redis trims no more than the excess.
XAdd(e) ==
    /\ stream' = Append(stream, e)
    /\ trimmed' \in trimmed .. IF Len(stream') - StreamMax > trimmed
                               THEN Len(stream') - StreamMax ELSE trimmed

Published(e) == IF e.event = "logout_events" THEN RefreshRevoked ELSE e

NextOf(e) == IF e.event = "logout_events" THEN {TokenRevoked(e.token)} ELSE {}

PublishEvent(e) ==
    /\ e \in outgoing
    /\ e.event # "local_evict"
    /\ Len(stream) < MaxEvents
    /\ XAdd(Published(e))
    /\ outgoing' = (outgoing \ {e}) \cup NextOf(e)
    /\ UNCHANGED <<cacheVars, last_id, reading, started, handled, cleared>>

\* The request fails after its commit: the event is lost, or only the answer.
RequestFails(e) ==
    /\ StreamFaults
    /\ e \in outgoing
    /\ outgoing' = outgoing \ {e}
    /\ \/ UNCHANGED <<stream, trimmed>>
       \/ e.event # "local_evict" /\ Len(stream) < MaxEvents /\ XAdd(Published(e))
    /\ UNCHANGED <<cacheVars, last_id, reading, started, handled, cleared>>

-----------------------------------------------------------------------------
(* listen_to_stream on worker w *)

\* Fault: every poll reads from "$".
EndOfStream(w) == Len(stream)

\* The position after which XREAD looks for entries.
Position(w) == IF last_id[w] = Latest THEN Len(stream) ELSE last_id[w]

\* XREAD BLOCK 2000 arrives at Redis.
Poll(w) ==
    /\ reading[w] = NotReading
    /\ reading' = [reading EXCEPT ![w] = Position(w)]
    /\ started' = [started EXCEPT ![w] = IF @ = NotStarted THEN Len(stream) ELSE @]
    /\ UNCHANGED <<cacheVars, outgoing, stream, trimmed, last_id, handled, cleared>>

EvictedBy(e) == CASE e.event = "token_revoked"    -> {e.token}
                  [] e.event = "user_invalidated" -> TokensOf(e.user)
                  [] OTHER                        -> {}

\* Fault: the cursor jumps to the end of the stream.
CursorAtEnd(i) == Len(stream)

\* The cursor after entry i: its id.
CursorAfter(i) == i

\* XREAD answers with the next entry that is still there and the handler runs.
\* An answer with several entries is this step, and reads from the new
\* position, one after the other.
Handle(w) ==
    LET older == IF reading[w] < trimmed THEN trimmed ELSE reading[w]
        i     == older + 1
        ts    == EvictedBy(stream[i])
    IN  /\ reading[w] # NotReading
        /\ i <= Len(stream)
        /\ Evict(w, ts)
        /\ Clears(w, ts)
        /\ handled' = [handled EXCEPT ![w] = @ \cup {i}]
        /\ last_id' = [last_id EXCEPT ![w] = CursorAfter(i)]
        /\ reading' = [reading EXCEPT ![w] = NotReading]
        /\ UNCHANGED <<db, lookups, outgoing, stream, trimmed, started>>

\* Two seconds without an entry, or a connection that breaks: the loop goes on
\* with the position it had.
PollEnds(w) ==
    /\ reading[w] # NotReading
    /\ StreamFaults \/ reading[w] = Len(stream)
    /\ reading' = [reading EXCEPT ![w] = NotReading]
    /\ UNCHANGED <<cacheVars, outgoing, stream, trimmed, last_id, started, handled, cleared>>

\* A worker starts again, with an empty cache and "$".  The requests that were
\* about to evict on it are gone; those that publish end with RequestFails.
RestartWorker(w) ==
    /\ Restart(w)
    /\ last_id' = [last_id EXCEPT ![w] = Latest]
    /\ reading' = [reading EXCEPT ![w] = NotReading]
    /\ started' = [started EXCEPT ![w] = NotStarted]
    /\ handled' = [handled EXCEPT ![w] = {}]
    /\ cleared' = {p \in cleared : p[1] # w}
    /\ outgoing' = {e \in outgoing : e.event = "local_evict" => e.worker # w}
    /\ UNCHANGED <<stream, trimmed>>

-----------------------------------------------------------------------------
\* The steps of TokenCache that concern no event: validation of requests, new
\* tokens, expiry, the account endpoints of UserService, and time.
Unannounced ==
    /\ \/ \E r \in Requests : LookupMiss(r) \/ Lookup(r)
       \/ \E t \in Tokens : IssueToken(t) \/ ExpireToken(t)
       \/ \E u \in Users : DeactivateAccount(u) \/ ReactivateAccount(u) \/ DeleteAccount(u)
       \/ Tick
    /\ UNCHANGED streamVars

Listener(w) == Poll(w) \/ Handle(w)

InvNext ==
    \/ Unannounced
    \/ \E w \in Workers, t \in Tokens : LogoutCommit(w, t) \/ LogoutEvict(w, t)
    \/ RefreshCommit
    \/ \E u \in Users : ReuseCommit(u) \/ LoginReactivates(u) \/ LoginRehashes(u)
    \/ \E e \in outgoing : PublishEvent(e) \/ RequestFails(e)
    \/ \E w \in Workers : Listener(w) \/ PollEnds(w) \/ RestartWorker(w)

InvSpec == InvInit /\ [][InvNext]_invVars

\* The listener task runs, and Redis does not fail on every XREAD for which it
\* has an entry.
InvFairness == \A w \in Workers : WF_invVars(Poll(w)) /\ SF_invVars(Handle(w))

InvLiveSpec == InvSpec /\ InvFairness

-----------------------------------------------------------------------------
(* Properties *)

\* Every variable has its type, and no listener is past the end of the stream.
InvTypeOK ==
    /\ outgoing \subseteq Outgoing
    /\ stream \in Seq(StreamEvents)
    /\ trimmed \in 0..Len(stream)
    /\ last_id \in [Workers -> {Latest} \cup (1..Len(stream))]
    /\ reading \in [Workers -> {NotReading} \cup (0..Len(stream))]
    /\ started \in [Workers -> {NotStarted} \cup (0..Len(stream))]
    /\ handled \in [Workers -> SUBSET (1..Len(stream))]
    /\ cleared \subseteq Workers \X Tokens

\* Invalidation is effective: once a worker has evicted a dead token, for an event
\* or in a logout of its own, and no lookup had passed its check before, it never
\* serves the token again, whatever lookups, logins and other requests run.
InvalidationClears == \A w \in Workers, t \in Tokens : <<w, t>> \in cleared => t \notin Cached(w)

\* From its first entry on, a listener skips none, over timeouts and broken
\* connections, except what was trimmed before it could read it.
CursorSkipsNothing ==
    \A w \in Workers : \A i \in handled[w] : \A j \in i..last_id[w] :
        j \in handled[w] \/ j <= trimmed

\* A listener that has read an entry handles every later one, unless the entry
\* was trimmed or the worker restarted.
EventsConsumed ==
    \A w \in Workers : \A i \in 1..MaxEvents :
        (last_id[w] # Latest /\ i > last_id[w] /\ i <= Len(stream))
            ~> (i \in handled[w] \/ i <= trimmed \/ last_id[w] = Latest)

\* listen_to_stream: "with a local cursor to guarantee delivery even across
\* disconnects": an entry published since a listener started is not passed over.
DeliveryGuaranteed ==
    \A w \in Workers : started[w] # NotStarted =>
        \A i \in (started[w] + 1)..reading[w] : i \in handled[w] \/ i <= trimmed

\* README "Invalidation": "All workers consume the event and instantly clear the
\* token from their local memory."
ConsumedIsCleared ==
    \A w \in Workers : \A i \in handled[w] :
        stream[i].event = "token_revoked" => stream[i].token \notin Cached(w)

\* UserInvalidatedEvent: "Broadcast when [...] account is deactivated": once every
\* event has been published and handled and no lookup is running, no worker
\* serves a deactivated account as an active one.
DeactivationBroadcast ==
    outgoing = {} /\ (\A r \in Requests : phase[r] = "idle")
        /\ (\A w \in Workers : /\ started[w] # NotStarted
                               /\ (started[w] + 1)..Len(stream) \subseteq handled[w])
    => \A w \in Workers : \A t \in Cached(w) :
          accounts[UserOf[t]] = "deactivated" => cache[w][t].deactivated
=============================================================================
