------------------------------ MODULE Lifespan ------------------------------
(***************************************************************************)
(* The life of a worker process: lifespan in src/main.py, with             *)
(* DatabaseManager.connect (src/database/connection.py), RedisManager      *)
(* (src/redis/connection.py), the schema statements of src/database/sql.py *)
(* and the Pub/Sub listener that shutdown cancels (src/redis/pubsub.py).   *)
(*                                                                         *)
(* Workers start together on a database that may be empty.  Each statement *)
(* is a transaction of its own.  CREATE ... IF NOT EXISTS first looks, then *)
(* inserts into the system catalog, where it waits for a worker that is    *)
(* creating the same object and fails when that worker has committed.      *)
(* A worker that fails or crashes is started again by the uvicorn          *)
(* supervisor.                                                             *)
(***************************************************************************)
EXTENDS Naturals, Sequences

CONSTANTS
    Workers,        \* worker processes
    MaxAttempts,    \* attempts of DatabaseManager.connect (10 in the code)
    MaxFaults       \* bound on outages, crashes and lost answers

ASSUME LifespanAssumption == MaxAttempts \in Nat \ {0} /\ MaxFaults \in Nat

VARIABLES
    postgres,   \* refusing connections, starting, or up
    redis,      \* down or up
    catalog,    \* the tables and indexes that are committed
    at,         \* where a worker is in lifespan
    attempt,    \* failed attempts to connect
    pc,         \* the schema statement a worker is at
    listener,   \* its Pub/Sub listener task: none, resting, listening, leaving, ended
    faults      \* outages, crashes and lost answers so far

servers == <<postgres, redis, faults>>
lifespanVars == <<servers, catalog, at, attempt, pc, listener>>

-----------------------------------------------------------------------------
(* The schema: each statement's object and the tables it refers to *)

Tables == <<
    <<"users", {}>>,
    <<"friendships", {"users"}>>,
    <<"access_tokens", {"users"}>>,
    <<"refresh_tokens", {"users"}>>,
    <<"groups", {"users"}>>,
    <<"memberships", {"groups", "users"}>>,
    <<"direct_messages", {"users"}>>,
    <<"group_messages", {"groups", "users"}>> >>

Indexes == <<
    <<"idx_friendships_addressee_id", {"friendships"}>>,
    <<"idx_friendships_requester_id", {"friendships"}>>,
    <<"idx_access_tokens_user_id", {"access_tokens"}>>,
    <<"idx_refresh_tokens_user_id", {"refresh_tokens"}>>,
    <<"idx_access_tokens_expires_at", {"access_tokens"}>>,
    <<"idx_refresh_tokens_expires_at", {"refresh_tokens"}>>,
    <<"idx_groups_created_by", {"groups"}>>,
    <<"idx_memberships_user_id", {"memberships"}>>,
    <<"idx_dm_sender_recipient", {"direct_messages"}>>,
    <<"idx_dm_recipient_sender", {"direct_messages"}>>,
    <<"idx_group_messages_timeline", {"group_messages"}>>,
    <<"idx_group_messages_sender_id", {"group_messages"}>> >>

Schema == Tables \o Indexes

\* Fault: the indexes come first.
IndexesFirst == Indexes \o Tables

\* ensure_tables_exist, then ensure_indexes_exist.
Statements == Schema

\* Fault: ensure_indexes_exist is not called.
LastTable == Len(Tables)

LastStatement == Len(Statements)

Name(i) == Statements[i][1]
On(i)   == Statements[i][2]

-----------------------------------------------------------------------------

\* Where a worker runs the schema statements, and where it is up.
InSchema == {"schema", "absent", "created"}
Up       == {"serving", "cancelling"}
Points   == {"down", "connect", "lock", "redis", "stopped"} \cup InSchema \cup Up

Init ==
    /\ postgres \in {"refusing", "starting", "up"}
    /\ redis \in {"down", "up"}
    /\ faults = 0
    /\ catalog = {}
    /\ at = [w \in Workers |-> "connect"]
    /\ attempt = [w \in Workers |-> 0]
    /\ pc = [w \in Workers |-> 1]
    /\ listener = [w \in Workers |-> "none"]

Goto(w, p) == at' = [at EXCEPT ![w] = p]

\* The process ends, and with it the transaction of its statement; what it
\* knows is as in a new process.
Exit(w) ==
    /\ Goto(w, "down")
    /\ attempt' = [attempt EXCEPT ![w] = 0]
    /\ pc' = [pc EXCEPT ![w] = 1]
    /\ listener' = [listener EXCEPT ![w] = "none"]

\* The supervisor starts the worker again.
Restart(w) ==
    /\ at[w] = "down"
    /\ Goto(w, "connect")
    /\ UNCHANGED <<servers, catalog, attempt, pc, listener>>

-----------------------------------------------------------------------------
(* DatabaseManager.connect *)

Connect(w) ==
    /\ at[w] = "connect"
    /\ postgres = "up"
    /\ Goto(w, "lock")
    /\ UNCHANGED <<servers, catalog, attempt, pc, listener>>

\* An OSError: two seconds later connect tries again, up to MaxAttempts times.
ConnectRefused(w) ==
    /\ at[w] = "connect"
    /\ postgres = "refusing"
    /\ attempt[w] + 1 < MaxAttempts
    /\ attempt' = [attempt EXCEPT ![w] = @ + 1]
    /\ UNCHANGED <<servers, catalog, at, pc, listener>>

\* The last attempt; or an error that is no OSError, which connect does not
\* retry: a server that is starting accepts the connection and answers with one.
ConnectFails(w) ==
    /\ at[w] = "connect"
    /\ \/ postgres = "refusing" /\ attempt[w] + 1 >= MaxAttempts
       \/ postgres = "starting"
    /\ Exit(w)
    /\ UNCHANGED <<servers, catalog>>

-----------------------------------------------------------------------------
(* ensure_tables_exist, ensure_indexes_exist *)

\* pg_advisory_xact_lock outside a transaction block: the lock ends with its
\* statement, so that no statement of another worker ever finds it held.
AdvisoryLock(w) ==
    /\ at[w] = "lock"
    /\ postgres = "up"
    /\ Goto(w, "schema")
    /\ UNCHANGED <<servers, catalog, attempt, pc, listener>>

\* Fault: CREATE without IF NOT EXISTS.
NeverExists(i) == FALSE

Exists(i) == Name(i) \in catalog

\* The statement has ended well.
Advance(w) ==
    /\ pc' = [pc EXCEPT ![w] = @ + 1]
    /\ Goto(w, IF pc[w] < LastStatement THEN "schema" ELSE "redis")
    /\ UNCHANGED <<servers, attempt, listener>>

SkipExisting(w) ==
    /\ at[w] = "schema"
    /\ postgres = "up"
    /\ Exists(pc[w])
    /\ Advance(w)
    /\ UNCHANGED catalog

LookFirst(w) ==
    /\ at[w] = "schema"
    /\ postgres = "up"
    /\ ~ Exists(pc[w])
    /\ Goto(w, "absent")
    /\ UNCHANGED <<servers, catalog, attempt, pc, listener>>

\* The catalog entry, which waits for a worker that has inserted the same one.
InsertEntry(w) ==
    /\ at[w] = "absent"
    /\ postgres = "up"
    /\ Name(pc[w]) \notin catalog
    /\ On(pc[w]) \subseteq catalog
    /\ \A v \in Workers \ {w} : ~ (at[v] = "created" /\ Name(pc[v]) = Name(pc[w]))
    /\ Goto(w, "created")
    /\ UNCHANGED <<servers, catalog, attempt, pc, listener>>

\* UniqueViolationError, or UndefinedTableError: lifespan does not return.
CreateFails(w) ==
    /\ at[w] = "absent"
    /\ Name(pc[w]) \in catalog \/ ~ (On(pc[w]) \subseteq catalog)
    /\ Exit(w)
    /\ UNCHANGED <<servers, catalog>>

CommitEntry(w) ==
    /\ at[w] = "created"
    /\ postgres = "up"
    /\ catalog' = catalog \cup {Name(pc[w])}
    /\ Advance(w)

\* The server has gone while the worker uses it.
StatementFails(w) ==
    /\ at[w] \in InSchema \cup {"lock"}
    /\ postgres # "up"
    /\ Exit(w)
    /\ UNCHANGED <<servers, catalog>>

\* It has committed, and the answer is lost.
CommitUnacknowledged(w) ==
    /\ at[w] = "created"
    /\ faults < MaxFaults
    /\ catalog' = catalog \cup {Name(pc[w])}
    /\ faults' = faults + 1
    /\ Exit(w)
    /\ UNCHANGED <<postgres, redis>>

-----------------------------------------------------------------------------
(* Redis, the listener and shutdown *)

\* RedisManager.connect with its ping; the tasks are created, requests served.
ConnectRedis(w) ==
    /\ at[w] = "redis"
    /\ redis = "up"
    /\ Goto(w, "serving")
    /\ listener' = [listener EXCEPT ![w] = "resting"]
    /\ UNCHANGED <<servers, catalog, attempt, pc>>

PingFails(w) ==
    /\ at[w] = "redis"
    /\ redis = "down"
    /\ Exit(w)
    /\ UNCHANGED <<servers, catalog>>

Move(w, from, to) ==
    /\ listener[w] = from
    /\ listener' = [listener EXCEPT ![w] = to]
    /\ UNCHANGED <<servers, catalog, at, attempt, pc>>

\* listen_and_dispatch_message: subscribed, and back to the sleep when the
\* connection breaks.
Subscribe(w)      == redis = "up" /\ Move(w, "resting", "listening")
ConnectionLost(w) == redis = "down" /\ Move(w, "listening", "resting")

\* SIGTERM: both tasks are cancelled and awaited with gather.  The listener
\* ends at once unless it is subscribed: then it unsubscribes first.  The
\* stream listener always ends.
Shutdown(w) ==
    /\ at[w] = "serving"
    /\ Goto(w, "cancelling")
    /\ listener' = [listener EXCEPT ![w] = IF @ = "listening" THEN "leaving" ELSE "ended"]
    /\ UNCHANGED <<servers, catalog, attempt, pc>>

\* Fault: the CancelledError is logged and not raised again.
LoopsOn == "resting"

Raises == "ended"

Unsubscribe(w) == redis = "up" /\ Move(w, "leaving", Raises)

\* The error of unsubscribe replaces the CancelledError in the finally clause,
\* is caught by "except Exception", and the listener goes on.
UnsubscribeFails(w) == redis = "down" /\ Move(w, "leaving", "resting")

\* gather has returned; Redis and the pool are closed.
Stop(w) ==
    /\ at[w] = "cancelling"
    /\ listener[w] = "ended"
    /\ Goto(w, "stopped")
    /\ UNCHANGED <<servers, catalog, attempt, pc, listener>>

-----------------------------------------------------------------------------
(* The environment *)

Crash(w) ==
    /\ at[w] \notin {"down", "stopped"}
    /\ faults < MaxFaults
    /\ faults' = faults + 1
    /\ Exit(w)
    /\ UNCHANGED <<postgres, redis, catalog>>

Outage ==
    /\ faults < MaxFaults
    /\ faults' = faults + 1
    /\ \/ postgres = "up" /\ postgres' = "refusing" /\ UNCHANGED redis
       \/ redis = "up" /\ redis' = "down" /\ UNCHANGED postgres
    /\ UNCHANGED <<catalog, at, attempt, pc, listener>>

PostgresRecovers ==
    /\ \/ postgres = "refusing" /\ postgres' = "starting"
       \/ postgres = "starting" /\ postgres' = "up"
    /\ UNCHANGED <<redis, faults, catalog, at, attempt, pc, listener>>

RedisRecovers ==
    /\ redis = "down"
    /\ redis' = "up"
    /\ UNCHANGED <<postgres, faults, catalog, at, attempt, pc, listener>>

\* The steps of a worker that waits for nobody but the servers.
Proceed(w) ==
    \/ Connect(w) \/ ConnectRefused(w) \/ ConnectFails(w) \/ AdvisoryLock(w)
    \/ SkipExisting(w) \/ LookFirst(w) \/ InsertEntry(w) \/ CreateFails(w)
    \/ CommitEntry(w) \/ StatementFails(w) \/ ConnectRedis(w) \/ PingFails(w)
    \/ Stop(w)

Listen(w) ==
    Subscribe(w) \/ ConnectionLost(w) \/ Unsubscribe(w) \/ UnsubscribeFails(w)

Next ==
    \/ \E w \in Workers :
          \/ Restart(w) \/ Proceed(w) \/ Listen(w) \/ Shutdown(w)
          \/ Crash(w) \/ CommitUnacknowledged(w)
    \/ Outage \/ PostgresRecovers \/ RedisRecovers

Spec == Init /\ [][Next]_lifespanVars

\* Tasks that can run do, the supervisor replaces a worker that has ended, and
\* the servers come back after an outage.
Fairness ==
    /\ \A w \in Workers : /\ WF_lifespanVars(Proceed(w))
                          /\ WF_lifespanVars(Listen(w))
                          /\ WF_lifespanVars(Restart(w))
    /\ WF_lifespanVars(PostgresRecovers)
    /\ WF_lifespanVars(RedisRecovers)

LiveSpec == Spec /\ Fairness

-----------------------------------------------------------------------------
(* Properties *)

\* A statement that creates its object finds the tables it refers to, in
\* whatever way the statements of the workers interleave and fail: each worker
\* runs all of them, in the order of the class attributes of sql.py.
ReferencesExist ==
    \A w \in Workers : at[w] \in {"absent", "created"} => On(pc[w]) \subseteq catalog

\* A worker serves requests only when the whole schema is there, also when
\* others were creating it and failed or crashed half way.
ServingIsComplete ==
    \A w \in Workers : at[w] \in Up =>
        \A i \in 1..Len(Schema) : Schema[i][1] \in catalog

\* Workers that start together fail on each other's CREATE statements, but no
\* race repeats for ever: once the faults are over every worker that has
\* started serves.
StartupEnds == \A w \in Workers : at[w] = "connect" ~> at[w] = "serving"

\* The cancel of shutdown was swallowed: gather waits and the listener runs.
Deaf(w) == at[w] = "cancelling" /\ listener[w] \in {"resting", "listening"}

\* A shutdown hangs only if Redis is down when the listener unsubscribes.
ShutdownEnds ==
    \A w \in Workers :
        at[w] = "cancelling" /\ ~ Deaf(w) ~> at[w] # "cancelling" \/ redis = "down"

\* README "Startup Race": "Only one server claims the lock and executes the
\* migration routine while sibling servers pause and wait for completion."  No
\* server then ever executes a CREATE that another one has completed.
NoDuplicateExecution ==
    \A w \in Workers : at[w] = "absent" => Name(pc[w]) \notin catalog

\* main.py, "Graceful shutdown: cancel background workers": a shutdown ends.
ShutdownCompletes == \A w \in Workers : at[w] = "cancelling" ~> at[w] # "cancelling"
=============================================================================
