-------------------------- MODULE WebSocketManager --------------------------
(***************************************************************************)
(* The WebSocket connection registry of a cluster of workers               *)
(* (src/services/websocket.py), the endpoint that drives it                *)
(* (src/api/routers/websocket.py) and the Redis presence hash it maintains *)
(* (src/redis/queries.py).                                                 *)
(*                                                                         *)
(* A worker is one asyncio event loop: code between two awaits is one      *)
(* atomic step, and every await is a point where any other coroutine of    *)
(* any worker may run.  pc[s] is the await at which the endpoint coroutine *)
(* of socket s is suspended:                                               *)
(*                                                                         *)
(*   new      not accepted yet          open     in the receive loop       *)
(*   incr     HINCRBY +1 in flight      closing  waits for the user lock   *)
(*   load     group query in flight     decr     HINCRBY -1 in flight      *)
(*   merge    connection being released hdel     HDEL in flight            *)
(*                                                                         *)
(* and, at the end of the coroutine,                                       *)
(*                                                                         *)
(*   closed   unregistered and decremented in Redis                        *)
(*   skipped  unregistered; other local sockets remained, no decrement     *)
(*   dead     register_connection raised                                   *)
(*   lost     the decrement or the HDEL raised, or the worker crashed      *)
(*                                                                         *)
(* Membership events and the rows the group query returns come from an     *)
(* arbitrary environment here, so lost, duplicated and reordered events    *)
(* are all included.  Module Fanout replaces it by the database and the    *)
(* Pub/Sub channel.                                                        *)
(***************************************************************************)
EXTENDS Integers, FiniteSets

CONSTANTS
    Workers,    \* worker processes
    Users,      \* accounts
    Groups,     \* chat groups
    Sockets,    \* WebSocket connections; a reconnect is another socket
    Home,       \* the worker that accepted a socket
    Owner,      \* the account that a socket was authenticated as
    Faults      \* the failures that may happen: "redis", "db", "crash"

ASSUME SocketsAssumption ==
    /\ IsFiniteSet(Sockets)
    /\ Home \in [Sockets -> Workers]
    /\ Owner \in [Sockets -> Users]

VARIABLES
    local_connections,  \* the registered sockets of all workers
    group_connections,  \* per worker, the pairs <<user, group>> that are routed
    user_groups,        \* per worker, the reverse index of the same pairs
    purging,            \* per worker and group, the snapshot of local members
                        \* held by a suspended _handle_group_deleted
    counts,             \* Redis hash active_user_counts: the values
    listed,             \* Redis hash active_user_counts: the fields
    pc,                 \* where the coroutine of each socket is suspended
    loaded              \* user_group_ids, local to register_connection

registries == <<local_connections, group_connections, user_groups, purging>>
presence   == <<counts, listed>>
vars       == <<registries, presence, pc, loaded>>

SocketStates == {"new", "incr", "load", "merge", "open", "closing", "decr",
                 "hdel", "closed", "skipped", "dead", "lost"}

Init ==
    /\ local_connections = {}
    /\ group_connections = [w \in Workers |-> {}]
    /\ user_groups = [w \in Workers |-> {}]
    /\ purging = [w \in Workers |-> [g \in Groups |-> {}]]
    /\ counts = [u \in Users |-> 0]
    /\ listed = {}
    /\ pc = [s \in Sockets |-> "new"]
    /\ loaded = [s \in Sockets |-> {}]

-----------------------------------------------------------------------------
(* Helpers *)

Goto(s, label) == pc' = [pc EXCEPT ![s] = label]

\* The pairs of a worker's routing tables that concern user u, or group g.
RoutesOfUser(u)  == {u} \X Groups
RoutesOfGroup(g) == Users \X {g}

\* The other and the same sockets of one account on one worker.
Siblings(s) == {t \in Sockets : Home[t] = Home[s] /\ Owner[t] = Owner[s]}

IsConnected(w, u) == \E s \in local_connections : Home[s] = w /\ Owner[s] = u

\* Fault: a socket waits also for siblings that wait themselves.
LockUncontended(s) == \A t \in Siblings(s) \ {s} : pc[t] \notin {"closing", "decr", "hdel"}

\* _get_user_lock: one asyncio.Lock per worker and account, which only
\* unregister_connection takes and holds over its two Redis calls.
LockFree(s) == \A t \in Siblings(s) : pc[t] \notin {"decr", "hdel"}

\* Fault: a route is stored in one of the two tables.
AddRoutesUnindexed(w, routes) ==
    /\ group_connections' = [group_connections EXCEPT ![w] = @ \cup routes]
    /\ UNCHANGED user_groups

\* Both tables gain, or lose, routes.
AddRoutes(w, routes) ==
    /\ user_groups' = [user_groups EXCEPT ![w] = @ \cup routes]
    /\ group_connections' = [group_connections EXCEPT ![w] = @ \cup routes]

RemoveRoutes(w, routes) ==
    /\ user_groups' = [user_groups EXCEPT ![w] = @ \ routes]
    /\ group_connections' = [group_connections EXCEPT ![w] = @ \ routes]

\* HINCRBY creates a missing field, HDEL removes it with its value.
HIncrBy(u, n) ==
    /\ counts' = [counts EXCEPT ![u] = @ + n]
    /\ listed' = listed \cup {u}

HDel(u) ==
    /\ counts' = [counts EXCEPT ![u] = 0]
    /\ listed' = listed \ {u}

-----------------------------------------------------------------------------
(* register_connection: no lock is taken *)

RegisterConnection(s) ==
    /\ pc[s] = "new"
    /\ local_connections' = local_connections \cup {s}
    /\ Goto(s, "incr")
    /\ UNCHANGED <<group_connections, user_groups, purging, presence, loaded>>

AddActiveUser(s) ==
    /\ pc[s] = "incr"
    /\ HIncrBy(Owner[s], 1)
    /\ Goto(s, "load")
    /\ UNCHANGED <<registries, loaded>>

\* Fault: a failed HINCRBY is sent again although it was applied.
AddActiveUserRetries(s) ==
    /\ "redis" \in Faults
    /\ pc[s] = "incr"
    /\ HIncrBy(Owner[s], 1)
    /\ UNCHANGED <<registries, pc, loaded>>

\* The call raises, with or without having reached Redis.  is_registered is
\* still FALSE, so the endpoint never unregisters the socket.
AddActiveUserFails(s) ==
    /\ "redis" \in Faults
    /\ pc[s] = "incr"
    /\ HIncrBy(Owner[s], 1) \/ UNCHANGED presence
    /\ Goto(s, "dead")
    /\ UNCHANGED <<registries, loaded>>

\* list_user_groups has answered gs; the pooled connection is being released.
ListUserGroups(s, gs) ==
    /\ pc[s] = "load"
    /\ loaded' = [loaded EXCEPT ![s] = gs]
    /\ Goto(s, "merge")
    /\ UNCHANGED <<registries, presence>>

\* The query raises or the 5 s timeout fires, which it may do during the
\* release as well: registration goes on without any group.
ListUserGroupsFails(s) ==
    /\ "db" \in Faults
    /\ pc[s] \in {"load", "merge"}
    /\ loaded' = [loaded EXCEPT ![s] = {}]
    /\ Goto(s, "open")
    /\ UNCHANGED <<registries, presence>>

MergeGroups(s) ==
    /\ pc[s] = "merge"
    /\ AddRoutes(Home[s], IF s \in local_connections THEN {Owner[s]} \X loaded[s] ELSE {})
    /\ loaded' = [loaded EXCEPT ![s] = {}]
    /\ Goto(s, "open")
    /\ UNCHANGED <<local_connections, purging, presence>>

\* receive_text raises: the client closed the socket, or it broke.
Disconnect(s) ==
    /\ pc[s] = "open"
    /\ Goto(s, "closing")
    /\ UNCHANGED <<registries, presence, loaded>>

-----------------------------------------------------------------------------
(* unregister_connection: runs with the user lock held *)

\* The user's last socket on this worker takes its routes with it (the pairs
\* that the reverse index knows) and goes on to Redis; any other socket is done.
UnregisterConnection(s) ==
    LET w == Home[s]
        u == Owner[s]
        routes == user_groups[w] \cap RoutesOfUser(u)
    IN  /\ pc[s] = "closing"
        /\ LockFree(s)
        /\ local_connections' = local_connections \ {s}
        /\ \/ /\ Siblings(s) \cap local_connections' # {}
              /\ Goto(s, "skipped")
              /\ UNCHANGED <<group_connections, user_groups>>
           \/ /\ Siblings(s) \cap local_connections' = {}
              /\ RemoveRoutes(w, routes)
              /\ Goto(s, "decr")
        /\ UNCHANGED <<purging, presence, loaded>>

\* Fault: the field is deleted only when the count falls below zero.
BelowZero(n) == n < 0

\* The new count for which remove_active_user goes on to HDEL.
Emptied(n) == n <= 0

\* remove_active_user, first command.
RemoveActiveUser(s) ==
    /\ pc[s] = "decr"
    /\ HIncrBy(Owner[s], -1)
    /\ Goto(s, IF Emptied(counts'[Owner[s]]) THEN "hdel" ELSE "closed")
    /\ UNCHANGED <<registries, loaded>>

\* remove_active_user, second command: a separate round trip to Redis.
DeleteActiveUser(s) ==
    /\ pc[s] = "hdel"
    /\ HDel(Owner[s])
    /\ Goto(s, "closed")
    /\ UNCHANGED <<registries, loaded>>

\* Either command raises, with or without having reached Redis.  The endpoint
\* logs it and nothing tries again.
RemoveActiveUserFails(s) ==
    /\ "redis" \in Faults
    /\ \/ pc[s] = "decr" /\ (HIncrBy(Owner[s], -1) \/ UNCHANGED presence)
       \/ pc[s] = "hdel" /\ (HDel(Owner[s]) \/ UNCHANGED presence)
    /\ Goto(s, "lost")
    /\ UNCHANGED <<registries, loaded>>

-----------------------------------------------------------------------------
(* Pub/Sub handlers of a worker *)

\* Fault: a JOIN is applied to users without a local socket.
HandleJoinUnchecked(w, u, g) ==
    /\ AddRoutes(w, {<<u, g>>})
    /\ UNCHANGED <<local_connections, purging, presence, pc, loaded>>

\* _handle_membership_change, JOIN: only for a user connected to this worker.
HandleJoin(w, u, g) ==
    /\ AddRoutes(w, IF IsConnected(w, u) THEN {<<u, g>>} ELSE {})
    /\ UNCHANGED <<local_connections, purging, presence, pc, loaded>>

\* _handle_membership_change, LEAVE.
HandleLeave(w, u, g) ==
    /\ RemoveRoutes(w, {<<u, g>>})
    /\ UNCHANGED <<local_connections, purging, presence, pc, loaded>>

LocalMembers(w, g) == {u \in Users : <<u, g>> \in group_connections[w]}

\* _handle_group_deleted up to the sends, which suspend it if there is a local
\* member; a group is deleted, and the event published, once.
GroupDeletedBegin(w, g) ==
    /\ purging[w][g] = {}
    /\ LocalMembers(w, g) # {}
    /\ purging' = [purging EXCEPT ![w][g] = LocalMembers(w, g)]
    /\ UNCHANGED <<local_connections, group_connections, user_groups, presence,
                   pc, loaded>>

\* The rest of _handle_group_deleted: the reverse index loses the members of
\* the snapshot, the table loses every member the group has by now.
GroupDeletedEnd(w, g) ==
    /\ purging[w][g] # {}
    /\ user_groups' = [user_groups EXCEPT ![w] = @ \ (purging[w][g] \X {g})]
    /\ group_connections' = [group_connections EXCEPT ![w] = @ \ RoutesOfGroup(g)]
    /\ purging' = [purging EXCEPT ![w][g] = {}]
    /\ UNCHANGED <<local_connections, presence, pc, loaded>>

-----------------------------------------------------------------------------
\* A worker process dies and is started again: its memory is gone, the Redis
\* hash keeps what it had counted.
Crash(w) ==
    LET mine == {s \in Sockets : Home[s] = w /\ pc[s] \notin {"new", "closed", "skipped"}}
    IN  /\ "crash" \in Faults
        /\ local_connections' = {s \in local_connections : Home[s] # w}
        /\ group_connections' = [group_connections EXCEPT ![w] = {}]
        /\ user_groups' = [user_groups EXCEPT ![w] = {}]
        /\ purging' = [purging EXCEPT ![w] = [g \in Groups |-> {}]]
        /\ pc' = [s \in Sockets |-> IF s \in mine THEN "lost" ELSE pc[s]]
        /\ loaded' = [s \in Sockets |-> IF s \in mine THEN {} ELSE loaded[s]]
        /\ UNCHANGED presence

\* The steps a worker takes by itself once a socket is being served.
Serve(s) ==
    \/ AddActiveUser(s)
    \/ AddActiveUserFails(s)
    \/ \E gs \in SUBSET Groups : ListUserGroups(s, gs)
    \/ ListUserGroupsFails(s)
    \/ MergeGroups(s)
    \/ UnregisterConnection(s)
    \/ RemoveActiveUser(s)
    \/ DeleteActiveUser(s)
    \/ RemoveActiveUserFails(s)

Notify(w, g) ==
    \/ \E u \in Users : HandleJoin(w, u, g)
    \/ \E u \in Users : HandleLeave(w, u, g)
    \/ GroupDeletedBegin(w, g)
    \/ GroupDeletedEnd(w, g)

Next ==
    \/ \E s \in Sockets : RegisterConnection(s) \/ Disconnect(s) \/ Serve(s)
    \/ \E w \in Workers : \E g \in Groups : Notify(w, g)
    \/ \E w \in Workers : Crash(w)

Spec == Init /\ [][Next]_vars

\* The event loop resumes a coroutine whose Redis or database call has ended,
\* and every such call ends: with an answer, an error or a timeout.  Clients
\* owe nothing.
Fairness == \A s \in Sockets : WF_vars(Serve(s))

LiveSpec == Spec /\ Fairness

-----------------------------------------------------------------------------
(* Properties *)

\* Every variable has the type of the code's structure; a field missing from
\* the Redis hash has no value.
TypeOK ==
    /\ local_connections \subseteq Sockets
    /\ group_connections \in [Workers -> SUBSET (Users \X Groups)]
    /\ user_groups \in [Workers -> SUBSET (Users \X Groups)]
    /\ purging \in [Workers -> [Groups -> SUBSET Users]]
    /\ counts \in [Users -> Int]
    /\ listed \subseteq Users
    /\ \A u \in Users \ listed : counts[u] = 0
    /\ pc \in [Sockets -> SocketStates]
    /\ loaded \in [Sockets -> SUBSET Groups]

\* Whatever _group_connections routes is in _user_groups too.  That is what
\* lets unregister_connection find every route of the user it removes, and it
\* has to survive the suspended _handle_group_deleted, which clears the two
\* tables from different member lists.
RoutingIndexed == \A w \in Workers : group_connections[w] \subseteq user_groups[w]

\* No worker routes a group to a user without a registered socket there:
\* neither a group load that ends late, nor a JOIN, nor a purge may bring back
\* the routes of a user whose last socket has gone.
RoutesHaveSockets ==
    \A w \in Workers : \A r \in group_connections[w] \cup user_groups[w] :
        IsConnected(w, r[1])

\* A presence field at zero or below is about to be removed: the coroutine that
\* took it there holds the HDEL, unless a Redis error or a crash took it away.
ZeroHasCleaner ==
    \A u \in listed : counts[u] <= 0 =>
        \E s \in Sockets : Owner[s] = u /\ pc[s] \in {"hdel", "lost"}

\* The sockets whose increment has not been taken back.
Counted(u) == {s \in Sockets : Owner[s] = u /\
                 pc[s] \in {"load", "merge", "open", "closing", "decr",
                            "skipped", "dead", "lost"}}

\* The presence count never exceeds the increments that are still owed a
\* decrement, whatever HDEL of another worker falls in between.
NeverOvercounts == \A u \in Users : counts[u] <= Cardinality(Counted(u))

\* A user whose sockets have all been unregistered with a decrement, or never
\* came up, is not listed as active.
OfflineWhenClosed ==
    \A u \in Users :
        (\A s \in Sockets : Owner[s] = u => pc[s] \in {"new", "closed"})
            => u \notin listed

\* README "Disconnect": "If the count reaches 0, the user is marked offline
\* globally", for sockets closed in order on workers without faults.
PresenceReturnsToZero ==
    \A u \in Users :
        (\A s \in Sockets : Owner[s] = u => pc[s] \in {"new", "closed", "skipped"})
            => u \notin listed

\* README "Multi-Device Presence": a user with an established socket is listed,
\* whatever the other devices do.
OnlineIsListed == \A s \in Sockets : pc[s] = "open" => Owner[s] \in listed

\* README "Multi-Device Presence": the counters "maintain an accurate total count of
\* active sessions across the entire cluster": when every socket of a user has
\* ended, on a worker that has died too, the user is not listed.
EndedAreOffline ==
    \A u \in Users :
        (\A s \in Sockets : Owner[s] = u => pc[s] \in {"new", "closed", "lost"})
            => u \notin listed

\* README "Connection Interleaving": on one worker no handshake of an account
\* runs while a cleanup routine of the same account does.
LifecycleSerialized ==
    \A s \in Sockets : pc[s] \in {"decr", "hdel"} =>
        \A t \in Siblings(s) : pc[t] \notin {"incr", "load", "merge"}

\* A socket that disconnects is cleaned up, however the lock is contended.
CleanupFinishes ==
    \A s \in Sockets :
        pc[s] = "closing" ~> pc[s] \in {"closed", "skipped", "lost"}
=============================================================================
