------------------------------- MODULE Fanout -------------------------------
(***************************************************************************)
(* Group membership and group messages across the cluster: GroupService    *)
(* (src/services/group.py) and MessagingService (src/services/messaging.py)*)
(* on the database, the background tasks that publish their events, the    *)
(* Redis Pub/Sub channel ws_pushes (src/redis/pubsub.py), and the workers  *)
(* that dispatch what they receive to the registry of WebSocketManager.    *)
(*                                                                         *)
(* A request changes the database in a transaction and leaves a task that  *)
(* publishes the event.  Tasks of different requests run in any order; the *)
(* channel delivers to every subscribed worker in the order of publication *)
(* and keeps nothing for a worker that is not subscribed.  A worker starts *)
(* a handler per message in the order of arrival, and a handler changes    *)
(* the routing tables before its first await.                              *)
(***************************************************************************)
EXTENDS WebSocketManager, Sequences

CONSTANTS
    Messages,   \* group messages that may be posted
    Sender,     \* who posts a message
    Target,     \* the group a message is posted to
    Creator,    \* created_by of a group
    MaxChanges  \* bound on the membership changes of one user in one group

ASSUME FanoutAssumption ==
    /\ Sender \in [Messages -> Users]
    /\ Target \in [Messages -> Groups]
    /\ Creator \in [Groups -> Users]
    /\ MaxChanges \in Nat

VARIABLES
    grp,        \* rows of groups: none yet, live, or gone
    members,    \* rows of memberships, as pairs <<user, group>>
    changes,    \* how often the row of a pair has been inserted or deleted
    post,       \* where send_group_message is for each message
    tasks,      \* events whose publishing task has not run yet
    subscribed, \* the workers whose listener is subscribed
    inbox,      \* per worker, published events that it has not dispatched
    pushed,     \* the pairs <<message, user>> that a worker has sent frames for
    uninformed, \* sockets that a failure or a gap may have kept an event from
    outdated    \* history: the pairs <<worker, <<user, group>>>> for which a
                \* worker has missed a LEAVE, or was told of it out of order

database   == <<grp, members, changes, post>>
channel    == <<tasks, subscribed, inbox>>
history    == <<uninformed, outdated>>
fanoutVars == <<database, channel, pushed, history>>
allVars    == <<vars, fanoutVars>>

JoinEvent(u, g, n)  == [event |-> "JOIN", user |-> u, group |-> g, change |-> n]
LeaveEvent(u, g, n) == [event |-> "LEAVE", user |-> u, group |-> g, change |-> n]
DeletedEvent(g)     == [event |-> "DELETED", group |-> g]
MessageEvent(m)     == [event |-> "MESSAGE", message |-> m]

Events ==
    [event : {"JOIN", "LEAVE"}, user : Users, group : Groups, change : Nat]
        \cup [event : {"DELETED"}, group : Groups]
        \cup [event : {"MESSAGE"}, message : Messages]

FanoutInit ==
    /\ Init
    /\ grp = [g \in Groups |-> "none"]
    /\ members = {}
    /\ changes = [r \in Users \X Groups |-> 0]
    /\ post = [m \in Messages |-> "none"]
    /\ tasks = {}
    /\ subscribed = {}
    /\ inbox = [w \in Workers |-> <<>>]
    /\ pushed = {}
    /\ uninformed = {}
    /\ outdated = {}

-----------------------------------------------------------------------------
(* GroupService: a commit and the task it spawns *)

Changed(r) == changes' = [changes EXCEPT ![r] = @ + 1]

\* Fault: no task publishes the JOIN.
NoTask(u, g) == {}

\* What the commit of a new membership leaves to publish.
JoinTask(u, g) == {JoinEvent(u, g, changes[<<u, g>>] + 1)}

\* The same for a membership that has ended.
LeaveTask(u, g) == {LeaveEvent(u, g, changes[<<u, g>>] + 1)}

CreateGroup(g) ==
    LET u == Creator[g] IN
    /\ grp[g] = "none"
    /\ grp' = [grp EXCEPT ![g] = "live"]
    /\ members' = members \cup {<<u, g>>}
    /\ Changed(<<u, g>>)
    /\ tasks' = tasks \cup JoinTask(u, g)
    /\ UNCHANGED <<vars, post, subscribed, inbox, pushed, history>>

\* Requested by the creator.  The insert fails on a missing group or a
\* duplicate row, and the transaction with it.
AddMember(u, g) ==
    /\ grp[g] = "live"
    /\ <<u, g>> \notin members
    /\ changes[<<u, g>>] < MaxChanges
    /\ members' = members \cup {<<u, g>>}
    /\ Changed(<<u, g>>)
    /\ tasks' = tasks \cup JoinTask(u, g)
    /\ UNCHANGED <<vars, grp, post, subscribed, inbox, pushed, history>>

\* Requested by the member or the creator; the creator cannot leave.
RemoveMember(u, g) ==
    /\ grp[g] = "live"
    /\ u # Creator[g]
    /\ <<u, g>> \in members
    /\ changes[<<u, g>>] < MaxChanges
    /\ members' = members \ {<<u, g>>}
    /\ Changed(<<u, g>>)
    /\ tasks' = tasks \cup LeaveTask(u, g)
    /\ UNCHANGED <<vars, grp, post, subscribed, inbox, pushed, history>>

\* Requested by the creator; the memberships go with the group.
DeleteGroup(g) ==
    /\ grp[g] = "live"
    /\ grp' = [grp EXCEPT ![g] = "gone"]
    /\ members' = members \ RoutesOfGroup(g)
    /\ tasks' = tasks \cup {DeletedEvent(g)}
    /\ UNCHANGED <<vars, changes, post, subscribed, inbox, pushed, history>>

-----------------------------------------------------------------------------
(* MessagingService.send_group_message: a SELECT without lock, an INSERT *)

CheckMembership(m) ==
    /\ post[m] = "none"
    /\ post' = [post EXCEPT ![m] =
          IF <<Sender[m], Target[m]>> \in members THEN "checked" ELSE "refused"]
    /\ UNCHANGED <<vars, grp, members, changes, channel, pushed, history>>

\* The message's foreign key needs the group, not the membership.
StoreMessage(m) ==
    /\ post[m] = "checked"
    /\ IF grp[Target[m]] = "live"
       THEN /\ post' = [post EXCEPT ![m] = "stored"]
            /\ tasks' = tasks \cup {MessageEvent(m)}
       ELSE /\ post' = [post EXCEPT ![m] = "refused"]
            /\ UNCHANGED tasks
    /\ UNCHANGED <<vars, grp, members, changes, subscribed, inbox, pushed, history>>

-----------------------------------------------------------------------------
(* The channel *)

Publish(e) ==
    inbox' = [w \in Workers |-> IF w \in subscribed THEN Append(inbox[w], e) ELSE inbox[w]]

\* A JOIN of the same pair is still to be published.
Overtakes(e) == \E j \in tasks : j.event = "JOIN" /\ j.user = e.user /\ j.group = e.group

\* The workers that the publication of e leaves with a wrong route: those that are
\* not subscribed, and all when it comes before the JOIN it revokes.
Misled(e) ==
    IF e.event = "LEAVE"
    THEN {w \in Workers : w \notin subscribed \/ Overtakes(e)} \X {<<e.user, e.group>>}
    ELSE {}

\* publish_ws_push, for the group deletion after its cache keys were deleted.
RunTask(e) ==
    /\ e \in tasks
    /\ tasks' = tasks \ {e}
    /\ Publish(e)
    /\ outdated' = outdated \cup Misled(e)
    /\ UNCHANGED <<vars, database, subscribed, pushed, uninformed>>

\* The sockets to which a JOIN matters: those that may have read the groups of
\* their user before the row was there.
Concerned(e) ==
    {s \in Sockets : e.event = "JOIN" /\ pc[s] # "new" /\ Owner[s] = e.user}

\* Redis refuses the command or its answer is lost, or the worker dies with
\* the task in memory; spawn_task logs it and nobody tries again.
LoseTask(e) ==
    /\ Faults \cap {"redis", "crash"} # {}
    /\ e \in tasks
    /\ tasks' = tasks \ {e}
    /\ Publish(e) \/ UNCHANGED inbox
    /\ uninformed' = uninformed \cup Concerned(e)
    /\ outdated' = IF e.event = "LEAVE"
                   THEN outdated \cup (Workers \X {<<e.user, e.group>>}) ELSE outdated
    /\ UNCHANGED <<vars, database, subscribed, pushed>>

\* The listener task of a worker gets its subscription, at startup or two
\* seconds after it lost it.
Subscribe(w) ==
    /\ w \notin subscribed
    /\ subscribed' = subscribed \cup {w}
    /\ UNCHANGED <<vars, database, tasks, inbox, pushed, history>>

\* The pairs whose LEAVE worker w has received and not dispatched.
Departing(w) ==
    {r \in Users \X Groups : \E i \in DOMAIN inbox[w] :
        inbox[w][i].event = "LEAVE" /\ <<inbox[w][i].user, inbox[w][i].group>> = r}

\* The connection to Redis drops: what is published until the worker has
\* subscribed again, or was not read yet, is lost for it.
Unsubscribe(w) ==
    /\ "pubsub" \in Faults
    /\ w \in subscribed
    /\ subscribed' = subscribed \ {w}
    /\ inbox' = [inbox EXCEPT ![w] = <<>>]
    /\ uninformed' = uninformed \cup {s \in local_connections : Home[s] = w}
    /\ outdated' = outdated \cup {<<w, r>> : r \in Departing(w)}
    /\ UNCHANGED <<vars, database, tasks, pushed>>

-----------------------------------------------------------------------------
(* _dispatch_local_message on worker w *)

Received(w, e) == inbox[w] # <<>> /\ Head(inbox[w]) = e

Consume(w) ==
    /\ inbox' = [inbox EXCEPT ![w] = Tail(@)]
    /\ UNCHANGED <<database, tasks, subscribed, uninformed>>

DispatchJoin(w, u, g, n) ==
    /\ Received(w, JoinEvent(u, g, n))
    /\ HandleJoin(w, u, g)
    /\ Consume(w) /\ UNCHANGED <<pushed, outdated>>

\* A handshake that has read the membership before merges it after the handler.
Merging(w, u, g) == \E s \in Sockets : Home[s] = w /\ Owner[s] = u /\ g \in loaded[s]

DispatchLeave(w, u, g, n) ==
    /\ Received(w, LeaveEvent(u, g, n))
    /\ HandleLeave(w, u, g)
    /\ outdated' = IF Merging(w, u, g) THEN outdated \cup {<<w, <<u, g>>>>} ELSE outdated
    /\ Consume(w) /\ UNCHANGED pushed

\* Without a local member the handler ends at once.
DispatchDeleted(w, g) ==
    /\ Received(w, DeletedEvent(g))
    /\ \/ GroupDeletedBegin(w, g)
       \/ LocalMembers(w, g) = {} /\ UNCHANGED vars
    /\ Consume(w) /\ UNCHANGED <<pushed, outdated>>

\* Frames go to every routed user but the sender.
DispatchMessage(w, m) ==
    /\ Received(w, MessageEvent(m))
    /\ pushed' = pushed \cup ({m} \X (LocalMembers(w, Target[m]) \ {Sender[m]}))
    /\ UNCHANGED <<vars, outdated>>
    /\ Consume(w)

-----------------------------------------------------------------------------
(* The registry's own steps *)

\* Fault: the hydration query has no WHERE clause.
AllGroups(u) == {g \in Groups : grp[g] = "live"}

GroupsOf(u) == {g \in Groups : <<u, g>> \in members}

\* list_user_groups reads the rows committed when it runs.
HydrateGroups(s) == ListUserGroups(s, GroupsOf(Owner[s])) /\ UNCHANGED fanoutVars

\* A socket accepted while its worker is not subscribed may miss events.
AcceptSocket(s) ==
    /\ RegisterConnection(s)
    /\ uninformed' = IF Home[s] \in subscribed THEN uninformed ELSE uninformed \cup {s}
    /\ UNCHANGED <<database, channel, pushed, outdated>>

HydrationFails(s) ==
    /\ ListUserGroupsFails(s)
    /\ uninformed' = uninformed \cup {s}
    /\ UNCHANGED <<database, channel, pushed, outdated>>

\* The rest of WebSocketManager.
RegistryStep(s) ==
    /\ \/ AddActiveUser(s) \/ AddActiveUserFails(s)
       \/ MergeGroups(s)
       \/ UnregisterConnection(s)
       \/ RemoveActiveUser(s) \/ DeleteActiveUser(s) \/ RemoveActiveUserFails(s)
    /\ UNCHANGED fanoutVars

CloseSocket(s) == Disconnect(s) /\ UNCHANGED fanoutVars

FinishPurge(w, g) == GroupDeletedEnd(w, g) /\ UNCHANGED fanoutVars

CrashWorker(w) ==
    /\ Crash(w)
    /\ subscribed' = subscribed \ {w}
    /\ inbox' = [inbox EXCEPT ![w] = <<>>]
    /\ UNCHANGED <<database, tasks, pushed, history>>

-----------------------------------------------------------------------------
Request ==
    \/ \E g \in Groups : CreateGroup(g) \/ DeleteGroup(g)
    \/ \E u \in Users, g \in Groups : AddMember(u, g) \/ RemoveMember(u, g)
    \/ \E m \in Messages : CheckMembership(m) \/ StoreMessage(m)

Dispatch(w) ==
    \/ \E u \in Users, g \in Groups, n \in 1..MaxChanges + 1 :
          DispatchJoin(w, u, g, n) \/ DispatchLeave(w, u, g, n)
    \/ \E g \in Groups : DispatchDeleted(w, g)
    \/ \E m \in Messages : DispatchMessage(w, m)

Serving(s) == HydrateGroups(s) \/ HydrationFails(s) \/ RegistryStep(s)

FanoutNext ==
    \/ Request
    \/ \E e \in tasks : RunTask(e) \/ LoseTask(e)
    \/ \E w \in Workers : Subscribe(w) \/ Unsubscribe(w) \/ Dispatch(w) \/ CrashWorker(w)
    \/ \E w \in Workers, g \in Groups : FinishPurge(w, g)
    \/ \E s \in Sockets : AcceptSocket(s) \/ CloseSocket(s) \/ Serving(s)

FanoutSpec == FanoutInit /\ [][FanoutNext]_allVars

\* Event loops run their tasks and handlers, and Redis and the database answer.
\* Clients owe nothing.
FanoutFairness ==
    /\ WF_allVars(\E e \in tasks : RunTask(e) \/ LoseTask(e))
    /\ \A w \in Workers : WF_allVars(Dispatch(w))
    /\ \A s \in Sockets : WF_allVars(Serving(s))

FanoutLiveSpec == FanoutSpec /\ FanoutFairness

-----------------------------------------------------------------------------
(* Properties *)

\* Every variable has its type; a membership belongs to a group that exists.
FanoutTypeOK ==
    /\ grp \in [Groups -> {"none", "live", "gone"}]
    /\ members \subseteq {r \in Users \X Groups : grp[r[2]] = "live"}
    /\ changes \in [Users \X Groups -> Nat]
    /\ post \in [Messages -> {"none", "checked", "stored", "refused"}]
    /\ tasks \subseteq Events
    /\ subscribed \subseteq Workers
    /\ inbox \in [Workers -> Seq(Events)]
    /\ pushed \subseteq Messages \X Users
    /\ uninformed \subseteq Sockets
    /\ outdated \subseteq Workers \X (Users \X Groups)

InInbox(w, e) == \E i \in DOMAIN inbox[w] : inbox[w][i] = e

\* Subscribing before reading: a member who has never been removed is routed on
\* every worker where it has an established socket, or the JOIN is on its way,
\* however registration, joins, messages and crashes interleave; unless that
\* socket was accepted without a subscription, or an event or a query failed.
MembersAreRouted ==
    \A s \in Sockets \ uninformed : \A g \in Groups :
        LET u == Owner[s]
            join == JoinEvent(u, g, 1)
        IN  pc[s] = "open" /\ <<u, g>> \in members /\ changes[<<u, g>>] = 1
                => \/ <<u, g>> \in group_connections[Home[s]]
                   \/ join \in tasks
                   \/ InInbox(Home[s], join)

\* Nobody is ever routed to a group, or sent a message of it, without having
\* been a member; and no message is sent that was not stored: stale queries and
\* late events included.
OnlyMembersEver ==
    /\ \A w \in Workers : \A r \in group_connections[w] : changes[r] > 0
    /\ \A p \in pushed : post[p[1]] = "stored" /\ changes[<<p[2], Target[p[1]]>>] > 0

\* A removed member is routed no longer than its LEAVE is under way, unless the worker
\* missed the LEAVE, got it before the JOIN it revokes, or merged a list of groups
\* that was read before the removal: no other order of queries, events, joins,
\* reconnects and crashes keeps or brings back the route.
StaleRoutesExplained ==
    \A w \in Workers : \A r \in group_connections[w] \ members :
        grp[r[2]] = "live" =>
            \/ LeaveEvent(r[1], r[2], changes[r]) \in tasks
            \/ InInbox(w, LeaveEvent(r[1], r[2], changes[r]))
            \/ <<w, r>> \in outdated

\* A JOIN reaches the member's established socket, or the socket, the
\* membership or the event is gone.
JoinReaches ==
    \A s \in Sockets, g \in Groups :
        (pc[s] = "open" /\ s \notin uninformed /\ <<Owner[s], g>> \in members
             /\ changes[<<Owner[s], g>>] = 1)
          ~> \/ <<Owner[s], g>> \in group_connections[Home[s]]
             \/ pc[s] # "open" \/ s \in uninformed
             \/ changes[<<Owner[s], g>>] # 1 \/ grp[g] # "live"

\* tests/e2e/test_multi_worker.py: "group membership revocation halts subsequent
\* WebSocket broadcasts to the removed user": once every event has been
\* dispatched and every handshake has ended, only members are routed.
Quiet ==
    /\ tasks = {} /\ \A w \in Workers : inbox[w] = <<>>
    /\ \A s \in Sockets : pc[s] \in {"new", "open", "closed", "skipped"}
    /\ \A w \in Workers, g \in Groups : purging[w][g] = {}

RevocationHaltsBroadcasts ==
    Quiet => \A s \in Sockets \ uninformed : \A g \in Groups :
        <<Owner[s], g>> \in group_connections[Home[s]] /\ grp[g] = "live"
            => <<Owner[s], g>> \in members

\* _handle_group_deleted "Synchronizes cluster-wide deletion state": in the same
\* situation no worker routes a group that was deleted to an informed socket.
DeletionIsSynchronized ==
    Quiet => \A s \in Sockets \ uninformed : \A g \in Groups :
        <<Owner[s], g>> \in group_connections[Home[s]] => grp[g] # "gone"

\* README "Pessimistic Row Locking": permission validation is serialised with
\* membership adjustments, so a message is stored for members only.
StoredByMembers ==
    [][\A m \in Messages : post[m] # "stored" /\ post'[m] = "stored"
          => <<Sender[m], Target[m]>> \in members]_allVars
=============================================================================
