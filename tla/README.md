# Verification of messenger-backend

TLA+ models of a chat backend that runs as several asyncio workers over one
PostgreSQL database and one Redis server, model-checked with TLC and proved with
TLAPS. Source paths below are relative to the repository (`src/...`); its own
`README.md` is called "the repository's README".

## 1. The system

Every worker is one process with one event loop. Code between two awaits is
atomic; at every await any other coroutine of the worker, and any other worker,
may run. Workers share nothing but PostgreSQL and Redis.

| Component | State | Operations | Module |
|---|---|---|---|
| WebSocket registry and presence: `services/websocket.py`, `api/routers/websocket.py`, `redis/queries.py` | per worker: sockets, routing table by group, reverse index by user, a lock per user; in Redis: the hash `active_user_counts` | register, unregister, membership and deletion handlers, HINCRBY, HDEL | `WebSocketManager` |
| Token cache: `TokenCache` in `services/auth.py`, `authenticate_token` in `api/dependencies.py` | per worker: a `TTLCache` of validated tokens | get, set, evict, evict_user; validation over three awaits | `TokenCache` |
| Invalidation stream: `redis/stream.py`, `redis/events.py`, the events of `services/auth.py` | the Redis stream, per worker a cursor | publish after commit, XADD with trimming, XREAD loop, eviction | `Invalidation` |
| Sessions: `AuthService` in `services/auth.py`, `database/queries.py`, `database/sql.py`, `database/connection.py` | `refresh_tokens`, `access_tokens`, row locks | login, refresh with reuse detection, logout | `Rotation`, `SessionFamily` |
| Groups and fan-out: `services/group.py`, `send_group_message`, `redis/pubsub.py`, `utils/tasks.py` | `groups`, `memberships`, background tasks, the Pub/Sub channel | create, delete, add, remove, post, publish, dispatch | `Fanout` |
| Friendships and direct messages: `services/user.py`, `send_direct_message`, account deletion | `friendships`, `direct_messages`, `users`, background tasks | request, accept, remove or decline, send, delete | `Social` |
| Message histories: the history queries of `services/messaging.py` | none of its own | paged reads | `History` |
| Accounts: `register` and `login` of `AuthService`, the account operations of `UserService` | `users`, row locks | register, login with reactivation and rehash, deactivate, reactivate, delete | `Accounts` |
| Life of a worker: `lifespan` of `main.py`, `database/connection.py`, `redis/connection.py`, the listener of `redis/pubsub.py` | the database catalog, where each worker is | connect with retries, create the schema, serve, shut down | `Lifespan` |
| Read-only endpoints, schemas, errors, settings, logging, crypto | none | | not modelled |

How they interact:

* A request changes the database in a transaction; after the commit it publishes,
  directly (invalidation events) or from a background task (pushes).
* The stream is read by a listener task of every worker, which evicts from that
  worker's token cache. `Invalidation` composes the stream with `TokenCache`.
* The Pub/Sub channel is read by another listener task, which starts a handler per
  message; handlers read and change the registry. `Fanout` composes groups, tasks
  and channel with `WebSocketManager`.
* A connecting socket reads the user's groups from the database while membership
  events arrive over the channel: two paths to the same routing tables.
* login and refresh meet on the same rows: `Accounts` models what login does to the
  account, `Rotation` what it does to the tokens.
* Workers meet at startup on the database catalog, without any lock between them.

What is hard here: steps of coroutines between two awaits of another one (registry,
cache, delivery of direct messages); two Redis commands where one would be needed
(presence); two SQL statements with different snapshots (reuse detection, membership
checks); events that are published late, out of order, or not at all; a listener that
loses its place; failures between a commit and what should follow it; pages of a
history that changes; rows that are read, then used after a slow hash; schema
statements of several workers at once, and a shutdown that needs Redis. `PROJECT.json`
lists these hazards with their lines and the properties that cover them.

What makes each part correct:

* registry: the two routing tables agree, route only connected users, and every
  disconnect is cleaned up; the presence hash never overcounts and drops its zeros;
* cache: a bound on how long a dead token or account is served;
* stream: an eviction stays effective; a listener with a position skips nothing;
* sessions: one live refresh token per login whatever runs concurrently, an
  acknowledged logout is final, and every request is answered;
* accounts: a session belongs to the account whose password was presented, a name has
  one owner, and a correct password is refused only after a concurrent change;
* life of a worker: it serves only on a complete schema, serves in the end, and stops
  when told to;
* fan-out: a member with an open socket is routed, a removed one stays routed only for
  the reasons that are named, nobody but members is sent a message, and a join arrives;
* friendships and messages: consent behind every friendship and message, no
  announcement without a commit, no orphaned rows;
* histories: a walk by cursor repeats nothing and misses nothing but ties.

## 2. The modules

`M` is a component, `MCM` gives it small constants for TLC, `M_proofs` holds its theorems
(those of TokenCache are in `Invalidation_proofs`, which builds on them). Operators whose
comment begins with `Fault:` are not part of any specification. They are deliberate bugs (a
dropped check, a missing lock, a wrong position) that replace the definition after them to
see that a property notices.

**WebSocketManager.** One program counter per socket, whose values are the awaits of
`websocket_endpoint`, `register_connection` and `unregister_connection` (listed at the
head of the module). `RegisterConnection`, `AddActiveUser`, `ListUserGroups` and
`MergeGroups` are the four segments of the handshake, `UnregisterConnection`,
`RemoveActiveUser` and `DeleteActiveUser` those of the cleanup. The lock is the
condition that no sibling socket is inside the Redis calls. Sets of pairs
`<<user, group>>` stand for the two dictionaries of sets. `purging` is the member list
that `_handle_group_deleted` holds while it awaits its sends. Membership events and
query results are arbitrary: this is the registry under any environment.

**TokenCache.** Ages instead of clocks: `token_age` and `account_age` count ticks since
a token or an account ceased to be valid, up to the horizon `FetchTime + CacheTTL`.
`authenticate_token` is `LookupMiss`, `ReadToken`, `ReadUser`, `FillCache`; `FetchTime`
bounds the time from the check of the token row to the store, which the pool and
command timeouts of the code bound. `Victims` is the eviction of cachetools' `TTLCache`, a
library: nothing is checked of it.

**Invalidation** extends TokenCache. Commits of logout, reuse detection and login put
what the request does next into `outgoing`; `PublishEvent` is XADD, `Poll` and `Handle`
are the two halves of an iteration of `listen_to_stream`, `PollEnds` its timeout or
error. `last_id` is the code's variable, with "$" as `Latest`.

**Rotation.** Each transaction of login, refresh and logout, statement by statement at READ
COMMITTED, with row locks, lock waits, a deadlock detector and failures before and after the
commit. A row a transaction has locked becomes revoked at its commit: all its updates
revoke. `Rotate` locks the presented row by its own UPDATE (`auth.py:205`), which finds it
locked already by the SELECT ... FOR UPDATE. `@retry` on `transaction()` wraps an async
generator that is entered once, so nothing is retried. `RotateUnsupplied` is not code: it
ends a rotation when the finite set `Pairs` is used up. **SessionFamily** is the abstract
promise: one live token per login, exchanged for a fresh one or revoked for good; `LiveOf`
in Rotation is the refinement mapping, the committed live tokens of each login.

**Fanout** extends WebSocketManager and replaces its environment by the tables
`groups` and `memberships`, tasks that publish in any order, per-worker inboxes filled
only while the worker is subscribed, and handlers that run in order of arrival. The
steps of the registry are those of WebSocketManager with the query reading `members`.
Two history variables record what the code does not make up for. `uninformed`: sockets that a
failure or a gap may have kept a JOIN from. `outdated`: pairs of a worker and a membership
whose LEAVE the worker missed, got before the JOIN it revokes, or dispatched while a
handshake held a list of groups read earlier. Neither is ever cleared.

**Social.** Friendship operations are single statements and so single steps;
`send_direct_message` is its check, its insert and its commit. `FRIENDSHIP_STATUS` has
`LIMIT 1` and no order: any row between the two users may be returned. `consent` and
`mutual` are history variables.

**History.** ORDER BY leaves ties open, so that a query has a set of results.
`created_at` is taken before the commit. A client asks for older messages until a page
is short.

**Accounts.** register and login, statement by statement at READ COMMITTED, and the
one-statement operations of `UserService`. `user_id`s are never used again, usernames are.
An account's password is named by its `user_id`, so that a login which mixes two accounts
shows. `lock` is held by an UPDATE of the users row; a token insert keeps a DELETE waiting
through its foreign key. A login that has changed the row publishes after its commit.

**Lifespan.** A worker from its process start to its end. Each CREATE statement is a look
at the catalog, an insert into it (which waits for a worker that is creating the same
object, and fails when that worker commits) and a commit; the advisory lock of
`main.py:50` is the single step it is. The listener task is modelled as far as shutdown
concerns it. PostgreSQL, Redis and the uvicorn supervisor are the environment.

## 3. The runs

| Run | Checks | Shows |
|---|---|---|
| `registry` | RoutingIndexed, RoutesHaveSockets, ZeroHasCleaner, NeverOvercounts, OfflineWhenClosed, CleanupFinishes | late group loads, joins, purges, errors and crashes corrupt no table; what the presence counter can be trusted for; the lock starves nobody |
| `cache` | TokenStaleBound, AccountStaleBound, LateFillBound, RevokedEventuallyRefused | without any event, a dead token or account is served for less than FetchTime + CacheTTL, then never again |
| `inv_stream` | InvalidationClears, CursorSkipsNothing, EventsConsumed | evictions are effective, a listener with a position skips only trimmed entries and handles every other one in the end |
| `rotation` | FamilySingleLive, LogoutSticks, NobodyIsStuck, ImplementsSessionFamily, RequestsEnd | rotation is linear under concurrency, deadlocks and failures, a token given up stays revoked, no lock is left behind, and no request hangs |
| `accounts` | SessionsAreOwned, UniqueNames, RefusalsAreExplained, CallsEnd | the slow hash between read and use of a row gives nobody another account; no name is given twice; every refusal of a correct password has a concurrent change behind it; every call ends |
| `fanout` | MembersAreRouted, OnlyMembersEver, StaleRoutesExplained, JoinReaches | query and events together lose no join; only people who were members are sent messages; a removed member is routed only while its LEAVE is under way, or where the worker missed it or was told of it out of order |
| `social` | FriendshipIsMutual, MessagesWereWelcome, NoPhantomBroadcast, NoOrphans | consent, announcements after commits, referential integrity |
| `history` | PageIsNewest, OnlyTiesAreMissed, NoRepeats, WalkEnds | the query with two limited branches is the plain query; the walk is exact up to ties and ends |
| `startup` | ReferencesExist, ServingIsComplete, StartupEnds, ShutdownEnds | workers that race, crash and lose their servers still end up serving on the whole schema; a shutdown hangs only if Redis is down |

Three runs show that a statement of the documentation does not hold of the code:

| Run | Statement | What happens |
|---|---|---|
| `presence_leak` | the counter returns to zero when the sockets close | two sockets of one account on one worker add two and take back one |
| `rotation_reuse` | reuse revokes all sessions | a rotation of the same login that inserted before the revocation and commits after it leaves a live pair |
| `startup_race` | one server executes the migration while the others wait | `pg_advisory_xact_lock` outside a transaction ends with its own statement; a worker executes a CREATE that another has completed, and fails |

Further divergences are stated as definitions without a run of their own. Putting the
name under INVARIANT (under PROPERTY where it is marked so) in the run's cfg, in place
of its properties, gives the counterexample:

* `OnlineIsListed` (registry; README:221): HDEL of one worker erases the increment of another,
  so a connected user is not listed.
* `EndedAreOffline` (registry; README:221): nothing takes back the counts of a worker that
  died, and the user stays listed.
* `LifecycleSerialized` (registry; README:218): `register_connection` takes no lock.
* `DeliveryGuaranteed` (inv_stream; `redis/stream.py:40`): the cursor stays "$" until the
  first entry has been read, and an entry published between two such polls is passed over.
* `ConsumedIsCleared` (inv_stream; README:94): a lookup that passed its check before the
  eviction stores the token after it.
* `DeactivationBroadcast` (inv_stream; `redis/events.py:121`): deactivation publishes
  nothing.
* `LogoutRevokes` (rotation; `services/auth.py:227`): an unknown access token rolls the
  revocation of the refresh token back (`services/auth.py:235`) and the client is told
  that it is logged out.
* `CorrectLoginAccepted` (accounts, PROPERTY; `services/errors.py:37`, README:212): of two
  concurrent logins with an outdated hash the second finds the hash changed and is answered
  "Invalid username or password."; the retry that README:212 promises never happens, as
  `@retry` on the generator of `connection.py:112` cannot enter it again.
* `RevocationHaltsBroadcasts` (fanout; `tests/e2e/test_multi_worker.py:226`): the JOIN's task
  publishes after the LEAVE's, or an old group list is merged after the LEAVE, and the removed
  user stays routed.
* `DeletionIsSynchronized` (fanout; `services/websocket.py:178`): the task that announces a
  deletion fails, or a JOIN is published after it, and the deleted group stays routed.
* `StoredByMembers` (fanout, PROPERTY, with the member as `Sender`; README:232): a message is
  stored after its sender's removal.
* `RefusedOnlyStrangers` (social, PROPERTY; `services/errors.py:201`): after crossed requests
  `FRIENDSHIP_STATUS` (`sql.py:243`) may return the pending row, and friends are refused.
* `OneRequestPerPair` (social; `services/errors.py:107`): two users can ask each other.
* `StrangersAreBlocked` (social, PROPERTY; `tests/integration/test_messages.py:64`): the
  friendship ends between the check and the insert.
* `WalkIsComplete` (history; `tests/integration/test_messages.py:248`): messages with the
  time of a page's last message are skipped.
* `ShutdownCompletes` (startup, PROPERTY; `main.py:84`): the cancelled listener unsubscribes in
  a `finally` clause (`pubsub.py:69`); with Redis down its ConnectionError replaces the
  CancelledError, `except Exception` catches it, and `gather` waits for ever.

What remains true next to these is a property of the passing run: `NeverOvercounts` and
`ZeroHasCleaner` (presence), `CursorSkipsNothing` (a listener with a position), `LogoutSticks`
(a logout that is not rolled back), `RefusalsAreExplained` (a refusal needs a concurrent
change), `StaleRoutesExplained` (a removed member of a group that exists), `OnlyMembersEver` (a
pushed message). None of them excludes the divergence itself, and the hazards of
`PROJECT.json` say so.

Observed but not modelled: `groups.created_by` is NOT NULL with ON DELETE SET NULL, so
deleting a group's creator fails; `drain_background_tasks` has no caller, so that a shutdown
loses tasks that have not run (in `Fanout` and `Social` the loss of a task); the subscription
shares a client whose `socket_timeout` may end an idle `listen()`, which `Unsubscribe` covers.

### Bounds

* `registry`: three sockets of one account, two on one worker and one on another. The
  lock, the shared counter and the sibling rule all concern one account; two sockets on a
  worker contend for the lock, two workers race on the counter, and a reconnect is a
  further socket. The table properties are proved for any number.
* `cache`: two tokens and a cache of one entry (so that storing evicts), three lookups, of
  which one admits deactivated accounts; TTL 2, query time 1. The bounds are proved for
  all values.
* `inv_stream`: one worker, one token, one lookup; two events (`MaxEvents`) over a stream
  that keeps one, so that an entry can be trimmed unread. Listeners do not interact, and a
  cursor is a local variable. Events of other workers are the same entries.
* `rotation`: three requests (a rotation, a reuse and a third that overtakes them), one
  account, three pairs.
* `accounts`: three accounts that share one username in turn, one of them with an outdated
  hash, and three calls: two that race and a third that registers the freed name. 52 000
  states.
* `startup`: two workers, the whole schema of twenty statements, two attempts to connect
  (`MaxAttempts`), one outage, crash or lost answer (`MaxFaults`); any server may be down at
  first. Two workers are enough for every race on one catalog entry. 228 000 states.
  `startup_race` needs no fault.
* `fanout`: a creator, a member with one socket, one group, one message, two membership
  changes per user (`MaxChanges`): join and leave in every order, with every failure. 120 000
  states. The invariants were also checked with four changes, where the member rejoins.
* `social`: three accounts (two parties and a third), two calls.
* `history`: four messages, two per direction, pages of two, four times: ties within a
  page, across a boundary and across directions.

### Fairness

* Registry: `WF(Serve(s))`: a resumed coroutine runs, Redis and the database answer or
  raise (every call has a timeout), and asyncio.Lock wakes its waiters.
* Cache: weak fairness of time and of running lookups.
* Stream: weak fairness of `Poll`, as the loop never ends, and strong fairness of
  `Handle`: Redis does not fail on every XREAD that has an entry. Without it the listener
  may retry for ever.
* Sessions: weak fairness of the statements and of the deadlock detector, not of failures:
  no request needs a timeout to end.
* Fan-out: weak fairness of tasks, dispatch and coroutines.
* Accounts: weak fairness of the statements; failures and other calls are free.
* Lifespan: the worker's own steps and its listener, the restart of a worker that has ended
  (uvicorn runs with `--workers 4`, whose supervisor replaces dead processes), and the return
  of PostgreSQL and Redis after an outage. Nobody has to send SIGTERM.
* History: the client keeps asking. Nothing is assumed of the writers.

## 4. The proofs

Theorems hold for every value of the constants under the named assumptions of the modules
(shapes of `Home`, `Owner`, `UserOf`; positive sizes and times; finite `Sockets`).

* **WebSocketManager_proofs.** `TypeCorrect`; `IndexSafe` and `RoutesSafe`, whose invariants
  are inductive only together: the purge keeps the index because what it removes was routed,
  and unregistering clears all routes because the index is complete; `PresenceSafe`,
  `CountSafe` and `OfflineSafe` from an invariant that relates the counter to the set of
  sockets that owe a decrement, and needs its finiteness.
* **Invalidation_proofs**, first the cache alone: `TokenStaleSafe`, `AccountStaleSafe` and
  `LateFillSafe` from `StaleInv`: a valid token has age zero, a lookup that has passed its
  check has run at least as long as the token has been dead, and the age and the ticks an
  entry has left add up to at most the horizon.
* Then the composition: `ClusterStaleSafe`, the bounds on the ages of tokens and accounts in
  the cluster, carried over from the cache by a lemma (`CacheImplemented`: every step is one
  of TokenCache or leaves the cache alone). `ClearsSafe` from `ClearedInv`: a cleared token
  is dead, not cached, and no lookup of it has passed; the last part makes it inductive.
  `CursorSafe` from `CursorInv`: a blocked XREAD of a listener with a position waits after
  exactly that position, and what has been handled reaches up to it.
* **Rotation_proofs.** `SingleLiveSafe` from `RotationInv`: who is about to rotate holds the
  row lock of a token that is still live, and inserted pairs are distinct and unused.
  `LogoutSafe` needs in addition that a request which can still commit holds the row of the
  token it was given. `NobodyStuckSafe` from `LocksInv`: a lock is held by a request under
  way. If all those that run were blocked, they would be a set as the deadlock detector looks
  for. `FamiliesImplemented` is the refinement of `SessionFamily`, one lemma per abstract
  step: a login's commit starts a family (`StartStep`), a rotation's commit exchanges its
  token (`ExchangeStep`), the commit of a logout or of the wipe revokes the families whose
  token it has locked (`RevokeStep`), and everything else, failures and the statements before
  a commit included, changes no family (`FamilyStutter`).
* **Accounts_proofs.** `SessionsSafe`, `NamesSafe` and the action property `RefusalsExplained`
  from one invariant: what a call knows of its own account at each of its statements
  (`Local`), that a call in its transaction works with the password it presented, and that no
  two registrations under way claim one name.
* **Fanout_proofs.** `FanoutTypes`; `ClusterRoutingSafe`, the registry's theorems for the cluster,
  carried over by a lemma (`RegistryImplemented`); `OnlyMembersSafe`: every route, loaded group
  list, pending JOIN and pending message names a pair that was a member's; `RoutedSafe`: for a
  socket at every await of its handshake, a member that is not routed has its JOIN among the
  tasks or in the worker's inbox, or is in the group list the handshake has loaded;
  `StaleRoutesSafe` from `LeavingInv`: once the LEAVE of an ended membership was published in
  order, no JOIN of the pair is left to publish, and a worker that is not `outdated` either
  has no trace of the pair (no route, no JOIN in its inbox, no handshake that holds the group)
  or still has that LEAVE in its inbox, behind every JOIN. A handshake holds a list of groups
  only between its query and its merge (`Loading`).
* **Social_proofs.** `FriendshipSafe` and `WelcomeSafe` from `WelcomeInv`: a row has its
  requester's consent, and a call past its check has both users on record. `NoPhantomSafe`
  and `NoOrphansSafe` from `StoredInv`.
* **History_proofs.** `NewestSafe`: the two limited branches of `DM_CONVERSATION_HISTORY` and
  the limit over their union give exactly the results of one limited query, for every
  conversation and limit. What a branch leaves out is not later than anything it keeps, and
  a page that is full cannot hold a whole branch and more (`LeftOut`); the converse extends a
  page to results of the branches (`TopExtends`), which needs an induction over finite sets.
  The library's induction theorems are out of the provers' reach; the induction is carried by
  the well-foundedness of strict inclusion on the finite subsets of a set
  (`FS_StrictSubsetOrderingWellFounded`, `WFMin`), which has no operator as a parameter.
  `TiesSafe`, `CompleteSafe`, `NoRepeatsSafe` and `CursorProgress` from `WalkInv`: nothing
  that was read is before the cursor, what is owed and not read is before it or has the time
  of a cut, and a message that was read has the time of each cut.
  `CompleteWithoutTies` (no two equal times, nothing missed) and `CursorMovesBack` (a full
  page moves the cursor) are consequences that no run lists, and can be put into its cfg.
  `Messages` may be infinite: that `stored` is finite is proved.
* **Lifespan_proofs.** `ServingSafe` and `ReferencesSafe`: the objects of all statements before
  a worker's position are committed, the catalog only grows, and every statement refers to
  objects of earlier ones.

Only model-checked: the liveness properties (`CleanupFinishes`, `RevokedEventuallyRefused`,
`EventsConsumed`, `RequestsEnd`, `CallsEnd`, `JoinReaches`, `WalkEnds`, `StartupEnds`,
`ShutdownEnds`), as fairness is out of the prover's reach. Every invariant, action property
and refinement of the passing runs is a theorem.

## 5. Not modelled

* Payloads, pagination of lists, validation, hashing, serialisation, log texts.
* Read-only endpoints (one SELECT each) and the HTTP layer: no state changes, and the services
  they call are modelled. `TokenCache.clear` and `purge_expired_*_tokens` have no caller outside
  the tests.
* The delivery of frames to sockets (`_send_frame_to_user_sockets`): reads of the registry and
  sends with a timeout each, whose failures are only logged.
* Pool sizes and timeouts of asyncpg and redis-py: a call returns, or raises before or after
  its effect.
* Social treats a transaction of one statement as atomic. History takes the workers' clocks
  to agree, and a first page to be asked for later than the times of the stored messages.

## 6. Plan

Done, in this order: registry, token cache, stream, sessions with their abstract
specification, fan-out, friendships and direct messages, histories, the life of a worker,
accounts; proofs of every invariant, action property and refinement of the passing runs.

What could follow: the dispatch of direct messages to the sockets of their recipient, in a
composition of `Social` and `WebSocketManager`; abstract specifications of the registry and
of accounts.
