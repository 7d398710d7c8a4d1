--------------------------- MODULE Fanout_proofs ---------------------------
(***************************************************************************)
(* Proofs about Fanout: which routes and frames a membership, its end and  *)
(* their events may and must lead to.  Every step of Fanout is one of      *)
(* WebSocketManager or leaves it alone, so the theorems about the registry *)
(* carry over and are used here as lemmas.                                 *)
(***************************************************************************)
EXTENDS Fanout, WebSocketManager_proofs, SequenceTheorems

USE DEF registries, presence, vars, database, channel, history, fanoutVars, allVars

\* A step of the registry that Fanout takes with its own variables unchanged.
LEMMA ServingStep ==
    ASSUME NEW s \in Sockets, Serving(s)
    PROVE  Serve(s)
<1>1. CASE HydrateGroups(s)
  <2>1. \E gs \in SUBSET Groups : ListUserGroups(s, gs)
    BY <1>1 DEF HydrateGroups, GroupsOf
  <2> QED
    BY <2>1, Zenon DEF Serve
<1>2. CASE HydrationFails(s)
  BY <1>2, Zenon DEF HydrationFails, Serve
<1>3. CASE RegistryStep(s)
  BY <1>3, Zenon DEF RegistryStep, Serve
<1> QED
  BY <1>1, <1>2, <1>3, Zenon DEF Serving

\* What a worker dispatches is one of the notifications of the registry.
LEMMA DispatchStep ==
    ASSUME NEW w \in Workers, Dispatch(w)
    PROVE  (\E g \in Groups : Notify(w, g)) \/ UNCHANGED vars
<1>1. ASSUME NEW u \in Users, NEW g \in Groups, NEW n,
             DispatchJoin(w, u, g, n) \/ DispatchLeave(w, u, g, n)
      PROVE  Notify(w, g)
  BY <1>1, Zenon DEF DispatchJoin, DispatchLeave, Notify
<1>2. ASSUME NEW g \in Groups, DispatchDeleted(w, g)
      PROVE  Notify(w, g) \/ UNCHANGED vars
  BY <1>2, Zenon DEF DispatchDeleted, Notify
<1>3. ASSUME NEW m \in Messages, DispatchMessage(w, m) PROVE UNCHANGED vars
  BY <1>3, Zenon DEF DispatchMessage
<1> QED
  BY <1>1, <1>2, <1>3, Zenon DEF Dispatch

\* Requests and the channel do not touch the registry.
LEMMA OutsideStep ==
    ASSUME \/ Request
           \/ \E e \in tasks : RunTask(e) \/ LoseTask(e)
           \/ \E w \in Workers : Subscribe(w) \/ Unsubscribe(w)
    PROVE  UNCHANGED vars
<1>1. CASE Request
  BY <1>1, Zenon DEF Request, CreateGroup, DeleteGroup, AddMember, RemoveMember,
                     CheckMembership, StoreMessage
<1>2. CASE \E e \in tasks : RunTask(e) \/ LoseTask(e)
  BY <1>2, Zenon DEF RunTask, LoseTask
<1>3. CASE \E w \in Workers : Subscribe(w) \/ Unsubscribe(w)
  BY <1>3, Zenon DEF Subscribe, Unsubscribe
<1> QED
  BY <1>1, <1>2, <1>3

\* Fanout implements WebSocketManager: the rows that the group query returns
\* and the events of the channel are among those the registry is specified for.
LEMMA RegistryImplemented == FanoutSpec => Spec
<1>1. FanoutInit => Init
  BY DEF FanoutInit
<1>2. [FanoutNext]_allVars => [Next]_vars
  <2> SUFFICES ASSUME [FanoutNext]_allVars PROVE Next \/ UNCHANGED vars
    BY Zenon
  <2>1. CASE UNCHANGED allVars
    BY <2>1, Zenon
  <2>2. ASSUME NEW w \in Workers, NEW g \in Groups, FinishPurge(w, g) PROVE Next
    BY <2>2, Zenon DEF FinishPurge, Notify, Next
  <2>3. ASSUME NEW w \in Workers, CrashWorker(w) PROVE Next
    BY <2>3, Zenon DEF CrashWorker, Next
  <2>4. ASSUME NEW w \in Workers, Dispatch(w) PROVE Next \/ UNCHANGED vars
    BY <2>4, DispatchStep, Zenon DEF Next
  <2>5. ASSUME NEW s \in Sockets, AcceptSocket(s) \/ CloseSocket(s) PROVE Next
    BY <2>5, Zenon DEF AcceptSocket, CloseSocket, Next
  <2>6. ASSUME NEW s \in Sockets, Serving(s) PROVE Next
    BY <2>6, ServingStep, Zenon DEF Next
  <2> QED
    BY <2>1, <2>2, <2>3, <2>4, <2>5, <2>6, OutsideStep, Zenon DEF FanoutNext
<1> QED
  BY <1>1, <1>2, PTL DEF FanoutSpec, Spec

\* In the cluster no worker routes a group to a user without a socket, and
\* every route can be found again when the user's last socket closes.
THEOREM ClusterRoutingSafe == FanoutSpec => []RoutesHaveSockets
BY RegistryImplemented, RoutesSafe, PTL

-----------------------------------------------------------------------------
(* The channel *)

\* What a worker has received and not dispatched.
Pending(w) == {inbox[w][i] : i \in 1..Len(inbox[w])}

InboxType == inbox \in [Workers -> Seq(Events)]

\* Publishing reaches the subscribed workers.
LEMMA PublishPending ==
    ASSUME InboxType, NEW e \in Events, Publish(e)
    PROVE  /\ InboxType'
           /\ \A w \in subscribed \cap Workers : Pending(w)' = Pending(w) \cup {e}
           /\ \A w \in Workers \ subscribed : Pending(w)' = Pending(w)
<1>1. InboxType'
  BY DEF InboxType, Publish
<1>2. ASSUME NEW w \in subscribed \cap Workers PROVE Pending(w)' = Pending(w) \cup {e}
  <2>1. inbox'[w] = Append(inbox[w], e) /\ inbox[w] \in Seq(Events)
    BY DEF InboxType, Publish
  <2>2. /\ Len(inbox'[w]) = Len(inbox[w]) + 1 /\ Len(inbox[w]) \in Nat
        /\ inbox'[w][Len(inbox[w]) + 1] = e
        /\ \A i \in 1..Len(inbox[w]) : inbox'[w][i] = inbox[w][i]
    BY <2>1
  <2>3. ASSUME NEW i \in 1..(Len(inbox[w]) + 1)
        PROVE  i \in 1..Len(inbox[w]) \/ i = Len(inbox[w]) + 1
    BY <2>2
  <2>4. Pending(w)' \subseteq Pending(w) \cup {e}
    BY <2>2, <2>3 DEF Pending
  <2>5. Pending(w) \subseteq Pending(w)'
    BY <2>2 DEF Pending
  <2>6. e \in Pending(w)'
    BY <2>2 DEF Pending
  <2> QED
    BY <2>4, <2>5, <2>6
<1>3. ASSUME NEW w \in Workers \ subscribed PROVE Pending(w)' = Pending(w)
  BY DEF InboxType, Publish, Pending
<1> QED
  BY <1>1, <1>2, <1>3

\* Consuming takes the first event and keeps the others.
LEMMA ConsumePending ==
    ASSUME InboxType, NEW w \in Workers, inbox[w] # <<>>,
           inbox' = [inbox EXCEPT ![w] = Tail(@)]
    PROVE  /\ InboxType'
           /\ Head(inbox[w]) \in Pending(w) /\ Head(inbox[w]) \in Events
           /\ \A v \in Workers : Pending(v)' \subseteq Pending(v)
           /\ \A v \in Workers : v # w => Pending(v)' = Pending(v)
           /\ \A e \in Pending(w) : e # Head(inbox[w]) => e \in Pending(w)'
<1>1. inbox[w] \in Seq(Events) /\ inbox'[w] = Tail(inbox[w])
  BY DEF InboxType
<1>2. InboxType'
  BY <1>1 DEF InboxType
<1>3. /\ Len(inbox[w]) \in Nat /\ Len(inbox[w]) > 0
      /\ Head(inbox[w]) = inbox[w][1] /\ Len(inbox'[w]) = Len(inbox[w]) - 1
      /\ \A i \in 1..(Len(inbox[w]) - 1) : inbox'[w][i] = inbox[w][i + 1]
  <2>1. Len(inbox[w]) \in Nat /\ Len(inbox[w]) > 0 /\ Head(inbox[w]) = inbox[w][1]
    BY <1>1
  <2> QED
    BY <1>1, <2>1, HeadTailProperties
<1>4. Head(inbox[w]) \in Pending(w) /\ Head(inbox[w]) \in Events
  BY <1>1, <1>3 DEF Pending
<1>5. \A v \in Workers : v # w => Pending(v)' = Pending(v)
  BY DEF InboxType, Pending
<1>6. Pending(w)' \subseteq Pending(w)
  <2>1. \A i \in 1..(Len(inbox[w]) - 1) : i + 1 \in 1..Len(inbox[w])
    BY <1>3
  <2> QED
    BY <1>3, <2>1 DEF Pending
<1>7. ASSUME NEW e \in Pending(w), e # Head(inbox[w]) PROVE e \in Pending(w)'
  <2>1. PICK i \in 1..Len(inbox[w]) : e = inbox[w][i]
    BY DEF Pending
  <2>2. i - 1 \in 1..(Len(inbox[w]) - 1) /\ (i - 1) + 1 = i
    BY <1>3, <1>7, <2>1
  <2>3. inbox'[w][i - 1] = e /\ i - 1 \in 1..Len(inbox'[w])
    BY <1>3, <2>1, <2>2
  <2> QED
    BY <2>3 DEF Pending
<1> QED
  BY <1>2, <1>4, <1>5, <1>6, <1>7

\* A worker that is not subscribed any more has received nothing.
LEMMA ClearPending ==
    ASSUME InboxType, NEW w \in Workers, inbox' = [inbox EXCEPT ![w] = <<>>]
    PROVE  /\ InboxType'
           /\ \A v \in Workers : Pending(v)' \subseteq Pending(v)
           /\ \A v \in Workers : v # w => Pending(v)' = Pending(v)
<1>1. InboxType'
  BY DEF InboxType
<1>2. \A v \in Workers : v # w => Pending(v)' = Pending(v)
  BY DEF InboxType, Pending
<1>3. inbox'[w] = <<>>
  BY DEF InboxType
<1>4. Pending(w)' = {}
  BY <1>3 DEF Pending
<1> QED
  BY <1>1, <1>2, <1>4

-----------------------------------------------------------------------------
(* Types *)

\* What the requests publish are events.
LEMMA EventTypes ==
    /\ \A u \in Users, g \in Groups, n \in Nat :
          JoinEvent(u, g, n) \in Events /\ LeaveEvent(u, g, n) \in Events
    /\ \A g \in Groups : DeletedEvent(g) \in Events
    /\ \A m \in Messages : MessageEvent(m) \in Events
BY DEF JoinEvent, LeaveEvent, DeletedEvent, MessageEvent, Events

\* The requests keep rows and tasks well-formed.
LEMMA RequestType ==
    ASSUME FanoutTypeOK, Request PROVE FanoutTypeOK'
<1> USE FanoutAssumption
<1>0. ASSUME NEW u \in Users, NEW g \in Groups
      PROVE  changes[<<u, g>>] \in Nat /\ changes[<<u, g>>] + 1 \in Nat
  <2>1. changes[<<u, g>>] \in Nat
    BY DEF FanoutTypeOK
  <2> QED
    BY <2>1
<1>1. ASSUME NEW u \in Users, NEW g \in Groups, Changed(<<u, g>>)
      PROVE  changes' \in [Users \X Groups -> Nat]
  BY <1>0, <1>1 DEF Changed, FanoutTypeOK
<1>2. ASSUME NEW u \in Users, NEW g \in Groups, tasks' = tasks \cup JoinTask(u, g)
      PROVE  tasks' \subseteq Events
  BY <1>0, <1>2, EventTypes DEF JoinTask, FanoutTypeOK
<1>3. ASSUME NEW g \in Groups, CreateGroup(g) PROVE FanoutTypeOK'
  <2>1. /\ Creator[g] \in Users /\ Changed(<<Creator[g], g>>)
        /\ tasks' = tasks \cup JoinTask(Creator[g], g)
        /\ grp[g] = "none" /\ grp' = [grp EXCEPT ![g] = "live"]
        /\ members' = members \cup {<<Creator[g], g>>}
        /\ UNCHANGED <<post, subscribed, inbox, pushed, history>>
    BY <1>3 DEF CreateGroup
  <2>2. changes' \in [Users \X Groups -> Nat] /\ tasks' \subseteq Events
    BY <1>1, <1>2, <2>1
  <2>3. grp' \in [Groups -> {"none", "live", "gone"}]
    BY <2>1 DEF FanoutTypeOK
  <2>4. members' \subseteq {r \in Users \X Groups : grp'[r[2]] = "live"}
    BY <2>1 DEF FanoutTypeOK
  <2> QED
    BY <2>1, <2>2, <2>3, <2>4 DEF FanoutTypeOK
<1>4. ASSUME NEW u \in Users, NEW g \in Groups, AddMember(u, g) PROVE FanoutTypeOK'
  <2>1. /\ Changed(<<u, g>>) /\ tasks' = tasks \cup JoinTask(u, g)
        /\ grp[g] = "live" /\ members' = members \cup {<<u, g>>}
        /\ UNCHANGED <<grp, post, subscribed, inbox, pushed, history>>
    BY <1>4 DEF AddMember
  <2>2. changes' \in [Users \X Groups -> Nat] /\ tasks' \subseteq Events
    BY <1>1, <1>2, <2>1
  <2>3. members' \subseteq {r \in Users \X Groups : grp'[r[2]] = "live"}
    BY <2>1 DEF FanoutTypeOK
  <2> QED
    BY <2>1, <2>2, <2>3 DEF FanoutTypeOK
<1>5. ASSUME NEW u \in Users, NEW g \in Groups, RemoveMember(u, g) PROVE FanoutTypeOK'
  <2>1. /\ Changed(<<u, g>>)
        /\ tasks' = tasks \cup {LeaveEvent(u, g, changes[<<u, g>>] + 1)}
        /\ members' = members \ {<<u, g>>}
        /\ UNCHANGED <<grp, post, subscribed, inbox, pushed, history>>
    BY <1>5 DEF RemoveMember, LeaveTask
  <2>2. changes' \in [Users \X Groups -> Nat]
    BY <1>1, <2>1
  <2>3. tasks' \subseteq Events
    BY <1>0, <2>1, EventTypes DEF FanoutTypeOK
  <2> QED
    BY <2>1, <2>2, <2>3 DEF FanoutTypeOK
<1>6. ASSUME NEW g \in Groups, DeleteGroup(g) PROVE FanoutTypeOK'
  <2>1. /\ grp' = [grp EXCEPT ![g] = "gone"]
        /\ members' = members \ RoutesOfGroup(g)
        /\ tasks' = tasks \cup {DeletedEvent(g)}
        /\ UNCHANGED <<changes, post, subscribed, inbox, pushed, history>>
    BY <1>6 DEF DeleteGroup
  <2>2. tasks' \subseteq Events
    BY <2>1, EventTypes DEF FanoutTypeOK
  <2>3. grp' \in [Groups -> {"none", "live", "gone"}]
    BY <2>1 DEF FanoutTypeOK
  <2>4. members' \subseteq {r \in Users \X Groups : grp'[r[2]] = "live"}
    <3>1. \A r \in members' : r \in Users \X Groups /\ r[2] # g /\ grp[r[2]] = "live"
      BY <2>1 DEF FanoutTypeOK, RoutesOfGroup
    <3> QED
      BY <2>1, <3>1 DEF FanoutTypeOK
  <2> QED
    BY <2>1, <2>2, <2>3, <2>4 DEF FanoutTypeOK
<1>7. ASSUME NEW m \in Messages, CheckMembership(m) PROVE FanoutTypeOK'
  BY <1>7 DEF CheckMembership, FanoutTypeOK
<1>8. ASSUME NEW m \in Messages, StoreMessage(m) PROVE FanoutTypeOK'
  <2>1. post' \in [Messages -> {"none", "checked", "stored", "refused"}]
    BY <1>8 DEF StoreMessage, FanoutTypeOK
  <2>2. tasks' \subseteq Events
    BY <1>8, EventTypes DEF StoreMessage, FanoutTypeOK
  <2> QED
    BY <1>8, <2>1, <2>2 DEF StoreMessage, FanoutTypeOK
<1> QED
  BY <1>3, <1>4, <1>5, <1>6, <1>7, <1>8 DEF Request

\* The channel and the listeners do, too.
LEMMA ChannelType ==
    ASSUME TypeOK, FanoutTypeOK,
           \/ \E e \in tasks : RunTask(e) \/ LoseTask(e)
           \/ \E w \in Workers : Subscribe(w) \/ Unsubscribe(w) \/ Dispatch(w) \/ CrashWorker(w)
    PROVE  FanoutTypeOK'
<1>0. InboxType
  BY DEF FanoutTypeOK, InboxType
<1>1. ASSUME NEW e \in tasks, RunTask(e) \/ LoseTask(e) PROVE FanoutTypeOK'
  <2>1. e \in Events
    BY DEF FanoutTypeOK
  <2>2. Publish(e) \/ UNCHANGED inbox
    BY <1>1 DEF RunTask, LoseTask
  <2>3. InboxType'
    BY <1>0, <2>1, <2>2, PublishPending DEF InboxType
  <2>4. uninformed' \subseteq Sockets
    BY <1>1 DEF RunTask, LoseTask, Concerned, FanoutTypeOK
  <2>5. tasks' \subseteq tasks /\ UNCHANGED <<database, subscribed, pushed>>
    BY <1>1 DEF RunTask, LoseTask
  <2>6. e.event = "LEAVE" => <<e.user, e.group>> \in Users \X Groups
    BY <2>1 DEF Events
  <2>7. \/ outdated' = outdated
        \/ e.event = "LEAVE" /\ outdated' \subseteq outdated \cup (Workers \X {<<e.user, e.group>>})
    BY <1>1 DEF RunTask, LoseTask, Misled
  <2>8. outdated' \subseteq Workers \X (Users \X Groups)
    BY <2>6, <2>7 DEF FanoutTypeOK
  <2> QED
    BY <2>3, <2>4, <2>5, <2>8 DEF FanoutTypeOK, InboxType
<1>2. ASSUME NEW w \in Workers, Subscribe(w) PROVE FanoutTypeOK'
  BY <1>2 DEF Subscribe, FanoutTypeOK
<1>3. ASSUME NEW w \in Workers, Unsubscribe(w) \/ CrashWorker(w) PROVE FanoutTypeOK'
  <2>1. /\ inbox' = [inbox EXCEPT ![w] = <<>>] /\ subscribed' = subscribed \ {w}
        /\ UNCHANGED <<database, tasks, pushed>>
    BY <1>3 DEF Unsubscribe, CrashWorker
  <2>2. InboxType'
    BY <1>0, <2>1, ClearPending
  <2>3. uninformed' \subseteq Sockets
    BY <1>3 DEF Unsubscribe, CrashWorker, TypeOK, FanoutTypeOK
  <2>4. outdated' \subseteq Workers \X (Users \X Groups)
    BY <1>3 DEF Unsubscribe, CrashWorker, Departing, FanoutTypeOK
  <2> QED
    BY <2>1, <2>2, <2>3, <2>4 DEF FanoutTypeOK, InboxType
<1>4. ASSUME NEW w \in Workers, Dispatch(w) PROVE FanoutTypeOK'
  <2>1. /\ inbox[w] # <<>> /\ Consume(w)
        /\ pushed' = pushed \/ \E m \in Messages : DispatchMessage(w, m)
    BY <1>4, Zenon DEF Dispatch, DispatchJoin, DispatchLeave, DispatchDeleted, DispatchMessage,
                       Received
  <2>2. InboxType' /\ UNCHANGED <<database, tasks, subscribed, uninformed>>
    BY <1>0, <2>1, ConsumePending DEF Consume
  <2>3. pushed' \subseteq Messages \X Users
    BY <2>1 DEF DispatchMessage, LocalMembers, FanoutTypeOK
  <2>4. \/ outdated' = outdated
        \/ \E u \in Users, g \in Groups : outdated' = outdated \cup {<<w, <<u, g>>>>}
    BY <1>4, Zenon DEF Dispatch, DispatchJoin, DispatchLeave, DispatchDeleted, DispatchMessage
  <2>5. outdated' \subseteq Workers \X (Users \X Groups)
    BY <2>4 DEF FanoutTypeOK
  <2> QED
    BY <2>2, <2>3, <2>5 DEF FanoutTypeOK, InboxType
<1> QED
  BY <1>1, <1>2, <1>3, <1>4

\* Every step of the cluster keeps the types.
LEMMA FanoutTypeStep ==
    ASSUME TypeOK, FanoutTypeOK, [FanoutNext]_allVars PROVE FanoutTypeOK'
<1>2. ASSUME NEW s \in Sockets, AcceptSocket(s) \/ HydrationFails(s) PROVE FanoutTypeOK'
  BY <1>2 DEF AcceptSocket, HydrationFails, FanoutTypeOK
<1>3. ASSUME UNCHANGED fanoutVars PROVE FanoutTypeOK'
  BY <1>3 DEF FanoutTypeOK
<1>4. ASSUME NEW s \in Sockets, CloseSocket(s) \/ HydrateGroups(s) \/ RegistryStep(s)
      PROVE  UNCHANGED fanoutVars
  BY <1>4, Zenon DEF CloseSocket, HydrateGroups, RegistryStep
<1>5. ASSUME NEW w \in Workers, NEW g \in Groups, FinishPurge(w, g) PROVE UNCHANGED fanoutVars
  BY <1>5, Zenon DEF FinishPurge
<1> QED
  BY <1>2, <1>3, <1>4, <1>5, RequestType, ChannelType, Zenon DEF FanoutNext, Serving

\* In the composition the registry keeps its types.
LEMMA ClusterTypeCorrect == FanoutSpec => []TypeOK
BY RegistryImplemented, TypeCorrect, PTL

\* Rows, tasks and inboxes keep their types, and no membership outlives its
\* group.
THEOREM FanoutTypes == FanoutSpec => []FanoutTypeOK
<1>1. FanoutInit => FanoutTypeOK
  BY DEF FanoutInit, FanoutTypeOK
<1> QED
  BY <1>1, FanoutTypeStep, ClusterTypeCorrect, PTL DEF FanoutSpec

-----------------------------------------------------------------------------
(* Only members *)

Ever(r) == changes[r] > 0

\* An event tells of something that was committed.
Grounded(e) ==
    /\ e.event = "JOIN" => Ever(<<e.user, e.group>>)
    /\ e.event = "MESSAGE" => post[e.message] = "stored"

\* A pair of a stored message and a user who has been a member of its group.
Entitled(p) == post[p[1]] = "stored" /\ Ever(<<p[2], Target[p[1]]>>)

\* Rows, tables, queries under way, events and frames all go back to a
\* membership that was committed.
MembersInv ==
    /\ \A r \in members : Ever(r)
    /\ \A w \in Workers : \A r \in group_connections[w] : Ever(r)
    /\ \A s \in Sockets : \A g \in loaded[s] : Ever(<<Owner[s], g>>)
    /\ \A e \in tasks : Grounded(e)
    /\ \A w \in Workers : \A e \in Pending(w) : Grounded(e)
    /\ \A p \in pushed : Entitled(p)

\* What has been committed is never taken back.
Grows ==
    /\ \A r \in Users \X Groups : Ever(r) => Ever(r)'
    /\ \A m \in Messages : post[m] = "stored" => post'[m] = "stored"

\* Committed facts stay.
LEMMA GroundedStays ==
    ASSUME Grows
    PROVE  /\ \A e \in Events : Grounded(e) => Grounded(e)'
           /\ \A p \in Messages \X Users : Entitled(p) => Entitled(p)'
<1>1. ASSUME NEW e \in Events, Grounded(e) PROVE Grounded(e)'
  <2>1. e.event = "JOIN" => <<e.user, e.group>> \in Users \X Groups
    BY DEF Events
  <2>2. e.event = "MESSAGE" => e.message \in Messages
    BY DEF Events
  <2> QED
    BY <1>1, <2>1, <2>2 DEF Grows, Grounded
<1>2. ASSUME NEW p \in Messages \X Users, Entitled(p) PROVE Entitled(p)'
  <2>1. p[1] \in Messages /\ <<p[2], Target[p[1]]>> \in Users \X Groups
    BY FanoutAssumption
  <2> QED
    BY <1>2, <2>1 DEF Grows, Entitled
<1> QED
  BY <1>1, <1>2

\* It is enough to look at what a step adds.
LEMMA MembersFrame ==
    ASSUME TypeOK, FanoutTypeOK, MembersInv, Grows,
           \A r \in members' : r \in members \/ Ever(r)',
           \A w \in Workers : \A r \in group_connections'[w] :
               r \in group_connections[w] \/ Ever(r)',
           \A s \in Sockets : \A g \in loaded'[s] : g \in loaded[s] \/ Ever(<<Owner[s], g>>)',
           \A e \in tasks' : e \in tasks \/ Grounded(e)',
           \A w \in Workers : \A e \in Pending(w)' : e \in Pending(w) \/ e \in tasks,
           \A p \in pushed' : p \in pushed \/ Entitled(p)'
    PROVE  MembersInv'
<1>1. \A r \in members' : Ever(r)'
  BY DEF MembersInv, Grows, FanoutTypeOK
<1>2. \A w \in Workers : \A r \in group_connections'[w] : Ever(r)'
  BY DEF MembersInv, Grows, TypeOK
<1>3. \A s \in Sockets : \A g \in loaded'[s] : Ever(<<Owner[s], g>>)'
  <2>1. \A s \in Sockets : \A g \in loaded[s] : <<Owner[s], g>> \in Users \X Groups
    BY SocketsAssumption DEF TypeOK
  <2> QED
    BY <2>1 DEF MembersInv, Grows
<1>4. \A e \in tasks : Grounded(e)'
  BY GroundedStays DEF MembersInv, FanoutTypeOK
<1>5. \A w \in Workers : \A e \in Pending(w) : Grounded(e)'
  <2>1. \A w \in Workers : Pending(w) \subseteq Events
    BY DEF Pending, FanoutTypeOK
  <2> QED
    BY <2>1, GroundedStays DEF MembersInv
<1>6. \A p \in pushed : Entitled(p)'
  BY GroundedStays DEF MembersInv, FanoutTypeOK
<1> QED
  BY <1>1, <1>2, <1>3, <1>4, <1>5, <1>6 DEF MembersInv

\* A step that commits nothing.
LEMMA QuietGrows ==
    ASSUME UNCHANGED <<changes, post>> PROVE Grows
BY DEF Grows, Ever

\* A change of one membership.
LEMMA ChangedGrows ==
    ASSUME FanoutTypeOK, NEW u \in Users, NEW g \in Groups, Changed(<<u, g>>), UNCHANGED post
    PROVE  /\ Grows /\ Ever(<<u, g>>)'
           /\ changes'[<<u, g>>] = changes[<<u, g>>] + 1
           /\ \A r \in Users \X Groups : r # <<u, g>> => changes'[r] = changes[r]
<1>0. <<u, g>> \in Users \X Groups /\ changes[<<u, g>>] \in Nat
  BY DEF FanoutTypeOK
<1>1. /\ changes'[<<u, g>>] = changes[<<u, g>>] + 1
      /\ \A r \in Users \X Groups : r # <<u, g>> => changes'[r] = changes[r]
  BY <1>0 DEF FanoutTypeOK, Changed
<1>2. Ever(<<u, g>>)'
  BY <1>0, <1>1 DEF Ever
<1>3. \A r \in Users \X Groups : Ever(r) => Ever(r)'
  BY <1>1, <1>2 DEF Ever
<1> QED
  BY <1>1, <1>2, <1>3 DEF Grows

\* Requests add a membership or a message together with its event.
LEMMA RequestMembers ==
    ASSUME TypeOK, FanoutTypeOK, MembersInv, Request PROVE MembersInv'
<1>0. /\ UNCHANGED <<group_connections, loaded, inbox, pushed>>
      /\ \A w \in Workers : Pending(w)' = Pending(w)
  <2>1. UNCHANGED <<group_connections, loaded, inbox, pushed>>
    BY DEF Request, CreateGroup, DeleteGroup, AddMember, RemoveMember, CheckMembership, StoreMessage
  <2> QED
    BY <2>1 DEF Pending
<1>1. ASSUME NEW u \in Users, NEW g \in Groups, Changed(<<u, g>>), UNCHANGED post,
             members' \subseteq members \cup {<<u, g>>},
             \A e \in tasks' : \/ e \in tasks \/ e \in JoinTask(u, g)
                              \/ e = LeaveEvent(u, g, changes[<<u, g>>] + 1)
      PROVE  MembersInv'
  <2>1. Grows /\ Ever(<<u, g>>)'
    BY <1>1, ChangedGrows
  <2>2. \A e \in JoinTask(u, g) : Grounded(e)'
    BY <2>1 DEF JoinTask, JoinEvent, Grounded
  <2>3. \A n : Grounded(LeaveEvent(u, g, n))'
    BY DEF LeaveEvent, Grounded
  <2>4. \A e \in tasks' : e \in tasks \/ Grounded(e)'
    BY <1>1, <2>2, <2>3
  <2> QED
    BY <1>0, <1>1, <2>1, <2>4, MembersFrame
<1>2. ASSUME NEW g \in Groups, CreateGroup(g) PROVE MembersInv'
  <2>1. Creator[g] \in Users
    BY FanoutAssumption
  <2> QED
    BY <1>1, <1>2, <2>1 DEF CreateGroup
<1>3. ASSUME NEW u \in Users, NEW g \in Groups, AddMember(u, g) PROVE MembersInv'
  BY <1>1, <1>3 DEF AddMember
<1>4. ASSUME NEW u \in Users, NEW g \in Groups, RemoveMember(u, g) PROVE MembersInv'
  BY <1>1, <1>4 DEF RemoveMember, LeaveTask
<1>5. ASSUME NEW g \in Groups, DeleteGroup(g) PROVE MembersInv'
  <2>1. /\ UNCHANGED <<changes, post>> /\ members' \subseteq members
        /\ tasks' = tasks \cup {DeletedEvent(g)}
    BY <1>5 DEF DeleteGroup
  <2>2. Grounded(DeletedEvent(g))'
    BY DEF DeletedEvent, Grounded
  <2>3. \A e \in tasks' : e \in tasks \/ Grounded(e)'
    BY <2>1, <2>2
  <2> QED
    BY <1>0, <2>1, <2>3, QuietGrows, MembersFrame
<1>6. ASSUME NEW m \in Messages, CheckMembership(m) \/ StoreMessage(m) PROVE MembersInv'
  <2>1. UNCHANGED <<changes, members>>
    BY <1>6 DEF CheckMembership, StoreMessage
  <2>2. Grows
    BY <1>6, <2>1 DEF CheckMembership, StoreMessage, Grows, Ever, FanoutTypeOK
  <2>3. \/ UNCHANGED tasks
        \/ tasks' = tasks \cup {MessageEvent(m)} /\ post' = [post EXCEPT ![m] = "stored"]
    BY <1>6 DEF CheckMembership, StoreMessage
  <2>4. post' = [post EXCEPT ![m] = "stored"] => Grounded(MessageEvent(m))'
    BY DEF MessageEvent, Grounded, FanoutTypeOK
  <2>5. \A e \in tasks' : e \in tasks \/ Grounded(e)'
    BY <2>3, <2>4
  <2> QED
    BY <1>0, <2>1, <2>2, <2>5, MembersFrame
<1> QED
  BY <1>2, <1>3, <1>4, <1>5, <1>6 DEF Request

\* What a worker dispatches routes and sends only what the event entitles to.
LEMMA DispatchMembers ==
    ASSUME TypeOK, FanoutTypeOK, MembersInv, NEW w \in Workers, Dispatch(w) PROVE MembersInv'
<1>0. InboxType
  BY DEF FanoutTypeOK, InboxType
<1>1. /\ inbox[w] # <<>> /\ Consume(w) /\ UNCHANGED loaded
  BY Zenon DEF Dispatch, DispatchJoin, DispatchLeave, DispatchDeleted, DispatchMessage,
               Received, HandleJoin, HandleLeave, GroupDeletedBegin
<1>2. /\ UNCHANGED <<changes, post, members, tasks>>
      /\ \A v \in Workers : Pending(v)' \subseteq Pending(v)
      /\ Head(inbox[w]) \in Pending(w)
  BY <1>0, <1>1, ConsumePending DEF Consume
<1>3. Grows /\ Grounded(Head(inbox[w]))
  BY <1>2, QuietGrows DEF MembersInv
<1>4. ASSUME \A v \in Workers : \A r \in group_connections'[v] :
                 r \in group_connections[v] \/ Ever(r)',
             \A p \in pushed' : p \in pushed \/ Entitled(p)'
      PROVE  MembersInv'
  BY <1>1, <1>2, <1>3, <1>4, MembersFrame
<1>5. ASSUME NEW u \in Users, NEW g \in Groups, NEW n, DispatchJoin(w, u, g, n)
      PROVE  MembersInv'
  <2>1. Head(inbox[w]) = JoinEvent(u, g, n) /\ UNCHANGED pushed /\ HandleJoin(w, u, g)
    BY <1>5, Zenon DEF DispatchJoin, Received
  <2>2. Ever(<<u, g>>)'
    BY <1>2, <1>3, <2>1 DEF Grounded, JoinEvent, Ever
  <2>3. \A v \in Workers : \A r \in group_connections'[v] :
            r \in group_connections[v] \/ r = <<u, g>>
    BY <2>1 DEF HandleJoin, AddRoutes, TypeOK
  <2> QED
    BY <1>4, <2>1, <2>2, <2>3
<1>6. ASSUME NEW u \in Users, NEW g \in Groups, NEW n, DispatchLeave(w, u, g, n)
      PROVE  MembersInv'
  <2>1. UNCHANGED pushed /\ HandleLeave(w, u, g)
    BY <1>6, Zenon DEF DispatchLeave
  <2>2. \A v \in Workers : group_connections'[v] \subseteq group_connections[v]
    BY <2>1 DEF HandleLeave, RemoveRoutes, TypeOK
  <2> QED
    BY <1>4, <2>1, <2>2
<1>7. ASSUME NEW g \in Groups, DispatchDeleted(w, g) PROVE MembersInv'
  <2>1. UNCHANGED <<pushed, group_connections>>
    BY <1>7, Zenon DEF DispatchDeleted, GroupDeletedBegin
  <2> QED
    BY <1>4, <2>1
<1>8. ASSUME NEW m \in Messages, DispatchMessage(w, m) PROVE MembersInv'
  <2>1. /\ Head(inbox[w]) = MessageEvent(m) /\ UNCHANGED group_connections
        /\ pushed' = pushed \cup ({m} \X (LocalMembers(w, Target[m]) \ {Sender[m]}))
    BY <1>8, Zenon DEF DispatchMessage, Received
  <2>2. post[m] = "stored"
    BY <1>3, <2>1 DEF Grounded, MessageEvent
  <2>3. \A u \in LocalMembers(w, Target[m]) : Ever(<<u, Target[m]>>)
    BY DEF LocalMembers, MembersInv
  <2>4. \A p \in pushed' : p \in pushed \/ Entitled(p)'
    BY <1>2, <2>1, <2>2, <2>3 DEF Entitled, Ever
  <2> QED
    BY <1>4, <2>1, <2>4
<1> QED
  BY <1>5, <1>6, <1>7, <1>8 DEF Dispatch

\* The registry routes what the query has returned, and what it returned are
\* members.
LEMMA RegistryMembers ==
    ASSUME TypeOK, FanoutTypeOK, MembersInv, UNCHANGED <<database, channel, pushed>>,
           \/ \E s \in Sockets : AcceptSocket(s) \/ CloseSocket(s) \/ Serving(s)
           \/ \E w \in Workers, g \in Groups : FinishPurge(w, g)
    PROVE  MembersInv'
<1>0. Grows /\ \A w \in Workers : Pending(w)' = Pending(w)
  BY QuietGrows DEF Pending
<1>1. ASSUME \A w \in Workers : \A r \in group_connections'[w] :
                 r \in group_connections[w] \/ Ever(r)',
             \A s \in Sockets : \A g \in loaded'[s] : g \in loaded[s] \/ Ever(<<Owner[s], g>>)'
      PROVE  MembersInv'
  BY <1>0, <1>1, MembersFrame
<1>2. ASSUME NEW s \in Sockets, MergeGroups(s) PROVE MembersInv'
  <2>1. \A g \in loaded[s] : Ever(<<Owner[s], g>>)'
    BY DEF MembersInv, Ever
  <2>2. \A w \in Workers : \A r \in group_connections'[w] :
            r \in group_connections[w] \/ \E g \in loaded[s] : r = <<Owner[s], g>>
    BY <1>2, SocketsAssumption DEF MergeGroups, AddRoutes, TypeOK
  <2>3. \A t \in Sockets : \A g \in loaded'[t] : g \in loaded[t]
    BY <1>2 DEF MergeGroups, TypeOK
  <2> QED
    BY <1>1, <2>1, <2>2, <2>3
<1>3. ASSUME NEW s \in Sockets, HydrateGroups(s) PROVE MembersInv'
  <2>1. /\ UNCHANGED group_connections
        /\ loaded' = [loaded EXCEPT ![s] = {g \in Groups : <<Owner[s], g>> \in members}]
    BY <1>3 DEF HydrateGroups, ListUserGroups, GroupsOf
  <2>2. \A g \in Groups : <<Owner[s], g>> \in members => Ever(<<Owner[s], g>>)'
    BY DEF MembersInv, Ever
  <2> QED
    BY <1>1, <2>1, <2>2 DEF TypeOK
<1>4. ASSUME NEW s \in Sockets, HydrationFails(s) PROVE MembersInv'
  <2>1. UNCHANGED group_connections /\ loaded' = [loaded EXCEPT ![s] = {}]
    BY <1>4, Zenon DEF HydrationFails, ListUserGroupsFails
  <2> QED
    BY <1>1, <2>1 DEF TypeOK
<1>5. ASSUME NEW s \in Sockets, UnregisterConnection(s) PROVE MembersInv'
  <2>1. UNCHANGED loaded
    BY <1>5, Zenon DEF UnregisterConnection
  <2>2. \A w \in Workers : group_connections'[w] \subseteq group_connections[w]
    <3>1. PICK routes :
             \/ UNCHANGED group_connections
             \/ group_connections' = [group_connections EXCEPT ![Home[s]] = @ \ routes]
      BY <1>5, Zenon DEF UnregisterConnection, RemoveRoutes
    <3> QED
      BY <3>1 DEF TypeOK
  <2> QED
    BY <1>1, <2>1, <2>2
<1>6. ASSUME UNCHANGED <<group_connections, loaded>> PROVE MembersInv'
  BY <1>1, <1>6
<1>7. ASSUME NEW s \in Sockets,
             \/ AcceptSocket(s) \/ CloseSocket(s)
             \/ AddActiveUser(s) \/ AddActiveUserFails(s)
             \/ RemoveActiveUser(s) \/ DeleteActiveUser(s) \/ RemoveActiveUserFails(s)
      PROVE  UNCHANGED <<group_connections, loaded>>
  BY <1>7, Zenon DEF AcceptSocket, CloseSocket, RegisterConnection, Disconnect, AddActiveUser,
                     AddActiveUserFails, RemoveActiveUser, DeleteActiveUser, RemoveActiveUserFails
<1>8. ASSUME NEW w \in Workers, NEW g \in Groups, FinishPurge(w, g) PROVE MembersInv'
  <2>1. /\ UNCHANGED loaded
        /\ group_connections' = [group_connections EXCEPT ![w] = @ \ RoutesOfGroup(g)]
    BY <1>8, Zenon DEF FinishPurge, GroupDeletedEnd
  <2>2. \A v \in Workers : group_connections'[v] \subseteq group_connections[v]
    BY <2>1 DEF TypeOK
  <2> QED
    BY <1>1, <2>1, <2>2
<1> QED
  BY <1>2, <1>3, <1>4, <1>5, <1>6, <1>7, <1>8, Zenon DEF Serving, RegistryStep

\* Every step of the cluster keeps the invariant.
LEMMA MembersStep ==
    ASSUME TypeOK, FanoutTypeOK, MembersInv, [FanoutNext]_allVars PROVE MembersInv'
<1>0. InboxType
  BY DEF FanoutTypeOK, InboxType
<1>1. ASSUME UNCHANGED <<changes, post, members, group_connections, loaded, pushed>>,
             tasks' \subseteq tasks,
             \A w \in Workers : \A e \in Pending(w)' : e \in Pending(w) \/ e \in tasks
      PROVE  MembersInv'
  BY <1>1, QuietGrows, MembersFrame
<1>2. ASSUME NEW e \in tasks, RunTask(e) \/ LoseTask(e) PROVE MembersInv'
  <2>1. e \in Events /\ (Publish(e) \/ UNCHANGED inbox)
    BY <1>2 DEF RunTask, LoseTask, FanoutTypeOK
  <2>2. \A w \in Workers : \A d \in Pending(w)' : d \in Pending(w) \/ d \in tasks
    <3>1. CASE Publish(e)
      BY <1>0, <2>1, <3>1, PublishPending
    <3>2. CASE UNCHANGED inbox
      BY <3>2 DEF Pending
    <3> QED
      BY <2>1, <3>1, <3>2
  <2>3. /\ UNCHANGED <<changes, post, members, group_connections, loaded, pushed>>
        /\ tasks' \subseteq tasks
    BY <1>2 DEF RunTask, LoseTask
  <2> QED
    BY <1>1, <2>2, <2>3
<1>3. ASSUME NEW w \in Workers, Subscribe(w) \/ Unsubscribe(w) PROVE MembersInv'
  <2>1. /\ UNCHANGED <<changes, post, members, group_connections, loaded, pushed, tasks>>
        /\ UNCHANGED inbox \/ inbox' = [inbox EXCEPT ![w] = <<>>]
    BY <1>3 DEF Subscribe, Unsubscribe
  <2>2. \A v \in Workers : Pending(v)' \subseteq Pending(v)
    <3>1. CASE UNCHANGED inbox
      BY <3>1 DEF Pending
    <3>2. CASE inbox' = [inbox EXCEPT ![w] = <<>>]
      BY <1>0, <3>2, ClearPending
    <3> QED
      BY <2>1, <3>1, <3>2
  <2> QED
    BY <1>1, <2>1, <2>2
<1>4. ASSUME NEW w \in Workers, CrashWorker(w) PROVE MembersInv'
  <2>1. /\ UNCHANGED <<changes, post, members, tasks, pushed>>
        /\ inbox' = [inbox EXCEPT ![w] = <<>>] /\ Crash(w)
    BY <1>4 DEF CrashWorker
  <2>2. \A v \in Workers : Pending(v)' \subseteq Pending(v)
    BY <1>0, <2>1, ClearPending
  <2>3. \A v \in Workers : group_connections'[v] \subseteq group_connections[v]
    BY <2>1 DEF Crash, TypeOK
  <2>4. \A s \in Sockets : loaded'[s] \subseteq loaded[s]
    BY <2>1 DEF Crash, TypeOK
  <2> QED
    BY <2>1, <2>2, <2>3, <2>4, QuietGrows, MembersFrame
<1>5. CASE UNCHANGED allVars
  BY <1>5 DEF MembersInv, Grounded, Entitled, Ever, Pending
<1>6. ASSUME NEW s \in Sockets, AcceptSocket(s) \/ CloseSocket(s) \/ Serving(s)
      PROVE  UNCHANGED <<database, channel, pushed>>
  BY <1>6, Zenon DEF AcceptSocket, CloseSocket, Serving, HydrateGroups, HydrationFails, RegistryStep
<1>7. ASSUME NEW w \in Workers, NEW g \in Groups, FinishPurge(w, g)
      PROVE  UNCHANGED <<database, channel, pushed>>
  BY <1>7, Zenon DEF FinishPurge
<1> QED
  BY <1>2, <1>3, <1>4, <1>5, <1>6, <1>7, RequestMembers, DispatchMembers, RegistryMembers, Zenon
     DEF FanoutNext

\* No stale query, late event or failed task ever routes a user to a group, or
\* sends a message there, that the user has never been a member of; and no
\* message is sent that was not stored.
THEOREM OnlyMembersSafe == FanoutSpec => []OnlyMembersEver
<1>1. FanoutInit => MembersInv
  BY DEF FanoutInit, Init, MembersInv, Pending
<1>2. MembersInv => OnlyMembersEver
  BY DEF MembersInv, OnlyMembersEver, Entitled, Ever
<1> QED
  BY <1>1, <1>2, MembersStep, FanoutTypes, ClusterTypeCorrect, PTL DEF FanoutSpec

-----------------------------------------------------------------------------
(* Stale routes *)

\* The event tells of a new membership of u in g.
Joins(u, g, e) == e.event = "JOIN" /\ e.user = u /\ e.group = g

LastLeave(u, g) == LeaveEvent(u, g, changes[<<u, g>>])

\* The membership has ended, or has never begun.
Outside(u, g) == <<u, g>> \notin members /\ grp[g] # "gone"

\* Nothing on the worker can route u to g.
Clean(w, u, g) ==
    /\ <<u, g>> \notin group_connections[w]
    /\ \A e \in Pending(w) : ~ Joins(u, g, e)
    /\ ~ Merging(w, u, g)

\* The LEAVE comes after every JOIN that the worker has received.
LeaveComes(w, u, g) ==
    \E i \in 1..Len(inbox[w]) :
        /\ inbox[w][i] = LastLeave(u, g)
        /\ \A j \in 1..Len(inbox[w]) : j > i => ~ Joins(u, g, inbox[w][j])

\* Once the LEAVE was published in order, no JOIN is left to publish, and the
\* worker is clean or has the LEAVE before it.
Leaving(w, u, g) ==
    Outside(u, g) /\ LastLeave(u, g) \notin tasks /\ <<w, <<u, g>>>> \notin outdated =>
        /\ \A e \in tasks : ~ Joins(u, g, e)
        /\ Clean(w, u, g) \/ LeaveComes(w, u, g)

LeavingInv == \A w \in Workers, u \in Users, g \in Groups : Leaving(w, u, g)

\* A list of groups is kept only between the query and the merge.
Loading == \A s \in Sockets : loaded[s] # {} => pc[s] = "merge"

\* The merge, a failure and a crash empty it.
LEMMA LoadingSafe == Spec => []Loading
<1>1. Init => Loading
  BY DEF Init, Loading
<1>2. TypeOK /\ Loading /\ [Next]_vars => Loading'
  <2> SUFFICES ASSUME TypeOK, Loading, [Next]_vars PROVE Loading'
    OBVIOUS
  <2>1. ASSUME NEW s \in Sockets, NEW p, pc[s] # "merge", Goto(s, p), UNCHANGED loaded
        PROVE  Loading'
    BY <2>1 DEF Goto, Loading, TypeOK
  <2>2. ASSUME NEW s \in Sockets, RegisterConnection(s) \/ Disconnect(s) PROVE Loading'
    BY <2>1, <2>2, Zenon DEF RegisterConnection, Disconnect
  <2>3. ASSUME NEW s \in Sockets,
               \/ AddActiveUser(s) \/ AddActiveUserFails(s) \/ UnregisterConnection(s)
               \/ RemoveActiveUser(s) \/ DeleteActiveUser(s) \/ RemoveActiveUserFails(s)
        PROVE  Loading'
    <3>1. pc[s] # "merge" /\ UNCHANGED loaded
      BY <2>3 DEF AddActiveUser, AddActiveUserFails, UnregisterConnection, RemoveActiveUser,
                  DeleteActiveUser, RemoveActiveUserFails
    <3>2. \E p : Goto(s, p)
      BY <2>3, Zenon DEF AddActiveUser, AddActiveUserFails, UnregisterConnection, RemoveActiveUser,
                         DeleteActiveUser, RemoveActiveUserFails
    <3> QED
      BY <2>1, <3>1, <3>2
  <2>4. ASSUME NEW s \in Sockets, NEW gs \in SUBSET Groups, ListUserGroups(s, gs) PROVE Loading'
    BY <2>4 DEF ListUserGroups, Goto, Loading, TypeOK
  <2>5. ASSUME NEW s \in Sockets, ListUserGroupsFails(s) \/ MergeGroups(s) PROVE Loading'
    BY <2>5 DEF ListUserGroupsFails, MergeGroups, Goto, Loading, TypeOK
  <2>6. ASSUME NEW w \in Workers, NEW g \in Groups, Notify(w, g) PROVE UNCHANGED <<pc, loaded>>
    BY <2>6, Zenon DEF Notify, HandleJoin, HandleLeave, GroupDeletedBegin, GroupDeletedEnd
  <2>7. ASSUME NEW w \in Workers, Crash(w) PROVE Loading'
    BY <2>7 DEF Crash, Loading, TypeOK
  <2>8. UNCHANGED <<pc, loaded>> => Loading'
    BY DEF Loading
  <2> QED
    BY <2>2, <2>3, <2>4, <2>5, <2>6, <2>7, <2>8, Zenon DEF Next, Serve
<1> QED
  BY <1>1, <1>2, TypeCorrect, PTL DEF Spec

\* Publishing appends: an event that is not a JOIN does not disturb the order.
LEMMA PublishLeaving ==
    ASSUME InboxType, NEW e \in Events, Publish(e), UNCHANGED changes,
           NEW w \in Workers, NEW u \in Users, NEW g \in Groups
    PROVE  /\ ~ Joins(u, g, e) /\ LeaveComes(w, u, g) => LeaveComes(w, u, g)'
           /\ w \in subscribed /\ e = LastLeave(u, g) => LeaveComes(w, u, g)'
<1>1. CASE w \in subscribed
  <2>1. inbox'[w] = Append(inbox[w], e) /\ inbox[w] \in Seq(Events)
    BY <1>1 DEF InboxType, Publish
  <2>2. /\ Len(inbox'[w]) = Len(inbox[w]) + 1 /\ Len(inbox[w]) \in Nat
        /\ inbox'[w][Len(inbox[w]) + 1] = e
        /\ \A i \in 1..Len(inbox[w]) : inbox'[w][i] = inbox[w][i]
    BY <2>1
  <2>3. ASSUME NEW j \in 1..Len(inbox'[w]) PROVE j \in 1..Len(inbox[w]) \/ inbox'[w][j] = e
    BY <2>2
  <2>4. ASSUME ~ Joins(u, g, e), LeaveComes(w, u, g) PROVE LeaveComes(w, u, g)'
    <3>1. PICK i \in 1..Len(inbox[w]) :
              /\ inbox[w][i] = LastLeave(u, g)
              /\ \A j \in 1..Len(inbox[w]) : j > i => ~ Joins(u, g, inbox[w][j])
      BY <2>4 DEF LeaveComes
    <3>2. i \in 1..Len(inbox'[w]) /\ inbox'[w][i] = LastLeave(u, g)'
      BY <2>2, <3>1 DEF LastLeave
    <3>3. \A j \in 1..Len(inbox'[w]) : j > i => ~ Joins(u, g, inbox'[w][j])
      BY <2>2, <2>3, <2>4, <3>1
    <3> QED
      BY <3>2, <3>3 DEF LeaveComes, Joins
  <2>5. ASSUME e = LastLeave(u, g) PROVE LeaveComes(w, u, g)'
    <3>1. /\ Len(inbox'[w]) \in 1..Len(inbox'[w])
          /\ inbox'[w][Len(inbox'[w])] = LastLeave(u, g)'
          /\ \A j \in 1..Len(inbox'[w]) : ~ (j > Len(inbox'[w]))
      BY <2>2, <2>5 DEF LastLeave
    <3> QED
      BY <3>1 DEF LeaveComes
  <2> QED
    BY <2>4, <2>5
<1>2. CASE w \notin subscribed
  <2>1. inbox'[w] = inbox[w]
    BY <1>2 DEF InboxType, Publish
  <2> QED
    BY <1>2, <2>1 DEF LeaveComes, LastLeave, Joins
<1> QED
  BY <1>1, <1>2

\* Consuming keeps the order, until the LEAVE itself is taken.
LEMMA ConsumeLeaving ==
    ASSUME InboxType, NEW w \in Workers, inbox[w] # <<>>,
           inbox' = [inbox EXCEPT ![w] = Tail(@)], UNCHANGED changes,
           NEW u \in Users, NEW g \in Groups, LeaveComes(w, u, g)
    PROVE  \/ LeaveComes(w, u, g)'
           \/ /\ Head(inbox[w]) = LastLeave(u, g)
              /\ \A e \in Pending(w)' : ~ Joins(u, g, e)
<1>1. inbox[w] \in Seq(Events) /\ inbox'[w] = Tail(inbox[w])
  BY DEF InboxType
<1>2. /\ Len(inbox[w]) \in Nat /\ Len(inbox[w]) > 0
      /\ Head(inbox[w]) = inbox[w][1] /\ Len(inbox'[w]) = Len(inbox[w]) - 1
      /\ \A i \in 1..(Len(inbox[w]) - 1) : inbox'[w][i] = inbox[w][i + 1]
  <2>1. Len(inbox[w]) \in Nat /\ Len(inbox[w]) > 0 /\ Head(inbox[w]) = inbox[w][1]
    BY <1>1
  <2> QED
    BY <1>1, <2>1, HeadTailProperties
<1>3. PICK i \in 1..Len(inbox[w]) :
          /\ inbox[w][i] = LastLeave(u, g)
          /\ \A j \in 1..Len(inbox[w]) : j > i => ~ Joins(u, g, inbox[w][j])
  BY DEF LeaveComes
<1>4. ASSUME NEW j \in 1..Len(inbox'[w]), j + 1 > i PROVE ~ Joins(u, g, inbox'[w][j])
  <2>1. j + 1 \in 1..Len(inbox[w]) /\ inbox'[w][j] = inbox[w][j + 1]
    BY <1>2
  <2> QED
    BY <1>3, <1>4, <2>1
<1>5. CASE i = 1
  <2>1. \A j \in 1..Len(inbox'[w]) : j + 1 > i
    BY <1>2, <1>5
  <2>2. \A e \in Pending(w)' : ~ Joins(u, g, e)
    BY <1>4, <2>1 DEF Pending
  <2> QED
    BY <1>2, <1>3, <1>5, <2>2
<1>6. CASE i # 1
  <2>1. i - 1 \in 1..Len(inbox'[w]) /\ (i - 1) + 1 = i /\ i - 1 \in 1..(Len(inbox[w]) - 1)
    BY <1>2, <1>6
  <2>2. inbox'[w][i - 1] = LastLeave(u, g)'
    BY <1>2, <1>3, <2>1 DEF LastLeave
  <2>3. ASSUME NEW j \in 1..Len(inbox'[w]), j > i - 1 PROVE ~ Joins(u, g, inbox'[w][j])
    <3>1. j + 1 > i
      BY <1>2, <2>3
    <3> QED
      BY <1>4, <3>1
  <2> QED
    BY <2>1, <2>2, <2>3 DEF LeaveComes, Joins
<1> QED
  BY <1>5, <1>6

\* A step that publishes no JOIN of the pair and takes nothing that Leaving needs.
LEMMA LeavingFrame ==
    ASSUME NEW w \in Workers, NEW u \in Users, NEW g \in Groups, Leaving(w, u, g),
           Outside(u, g)' => Outside(u, g), LastLeave(u, g)' = LastLeave(u, g),
           outdated \subseteq outdated',
           LastLeave(u, g) \in tasks => LastLeave(u, g) \in tasks',
           \A e \in tasks' : e \in tasks \/ ~ Joins(u, g, e),
           Clean(w, u, g) => Clean(w, u, g)',
           LeaveComes(w, u, g) =>
               LeaveComes(w, u, g)' \/ Clean(w, u, g)' \/ <<w, <<u, g>>>> \in outdated'
    PROVE  Leaving(w, u, g)'
BY DEF Leaving, Joins

\* An ended membership has its LEAVE to publish, and a new one is no ended one.
LEMMA RequestLeaving ==
    ASSUME FanoutTypeOK, LeavingInv, Request PROVE LeavingInv'
<1> SUFFICES ASSUME NEW w \in Workers, NEW u \in Users, NEW g \in Groups PROVE Leaving(w, u, g)'
  BY DEF LeavingInv
<1>0. UNCHANGED <<group_connections, loaded, inbox, outdated>> /\ tasks \subseteq tasks'
  BY DEF Request, CreateGroup, DeleteGroup, AddMember, RemoveMember, CheckMembership, StoreMessage
<1>1. Leaving(w, u, g) /\ <<u, g>> \in Users \X Groups
  BY DEF LeavingInv
<1>2. Clean(w, u, g)' <=> Clean(w, u, g)
  BY <1>0 DEF Clean, Pending, Merging, Joins
<1>3. ASSUME changes'[<<u, g>>] = changes[<<u, g>>], Outside(u, g)' => Outside(u, g),
             \A e \in tasks' : e \in tasks \/ ~ Joins(u, g, e)
      PROVE  Leaving(w, u, g)'
  <2>1. LastLeave(u, g)' = LastLeave(u, g)
    BY <1>3 DEF LastLeave
  <2>2. LeaveComes(w, u, g) => LeaveComes(w, u, g)'
    BY <1>0, <2>1 DEF LeaveComes, Joins
  <2> QED
    BY <1>0, <1>1, <1>2, <1>3, <2>1, <2>2, LeavingFrame
<1>4. ASSUME NEW v \in Users, NEW h \in Groups, Changed(<<v, h>>), UNCHANGED post,
             members' = members \cup {<<v, h>>}, tasks' = tasks \cup JoinTask(v, h),
             grp[g] = "gone" => grp'[g] = "gone"
      PROVE  Leaving(w, u, g)'
  <2>1. CASE <<u, g>> = <<v, h>>
    BY <1>4, <2>1 DEF Leaving, Outside
  <2>2. CASE <<u, g>> # <<v, h>>
    <3>1. changes'[<<u, g>>] = changes[<<u, g>>]
      BY <1>1, <1>4, <2>2, ChangedGrows
    <3>2. \A e \in JoinTask(v, h) : ~ Joins(u, g, e)
      BY <2>2 DEF JoinTask, JoinEvent, Joins
    <3> QED
      BY <1>3, <1>4, <3>1, <3>2 DEF Outside
  <2> QED
    BY <2>1, <2>2
<1>5. ASSUME NEW h \in Groups, CreateGroup(h) PROVE Leaving(w, u, g)'
  <2>1. /\ Creator[h] \in Users /\ Changed(<<Creator[h], h>>) /\ UNCHANGED post
        /\ members' = members \cup {<<Creator[h], h>>}
        /\ tasks' = tasks \cup JoinTask(Creator[h], h)
        /\ grp[h] = "none" /\ grp' = [grp EXCEPT ![h] = "live"]
    BY <1>5, FanoutAssumption DEF CreateGroup
  <2>2. grp[g] = "gone" => grp'[g] = "gone"
    BY <2>1 DEF FanoutTypeOK
  <2> QED
    BY <1>4, <2>1, <2>2
<1>6. ASSUME NEW v \in Users, NEW h \in Groups, AddMember(v, h) PROVE Leaving(w, u, g)'
  BY <1>4, <1>6 DEF AddMember
<1>7. ASSUME NEW v \in Users, NEW h \in Groups, RemoveMember(v, h) PROVE Leaving(w, u, g)'
  <2>1. /\ Changed(<<v, h>>) /\ UNCHANGED <<post, grp>> /\ members' = members \ {<<v, h>>}
        /\ tasks' = tasks \cup {LeaveEvent(v, h, changes[<<v, h>>] + 1)}
    BY <1>7 DEF RemoveMember, LeaveTask
  <2>2. CASE <<u, g>> = <<v, h>>
    <3>1. changes'[<<u, g>>] = changes[<<u, g>>] + 1
      BY <2>1, <2>2, ChangedGrows
    <3>2. LastLeave(u, g)' \in tasks'
      BY <2>1, <2>2, <3>1 DEF LastLeave
    <3> QED
      BY <3>2 DEF Leaving
  <2>3. CASE <<u, g>> # <<v, h>>
    <3>1. changes'[<<u, g>>] = changes[<<u, g>>]
      BY <1>1, <2>1, <2>3, ChangedGrows
    <3>2. \A n : ~ Joins(u, g, LeaveEvent(v, h, n))
      BY DEF LeaveEvent, Joins
    <3> QED
      BY <1>3, <2>1, <2>3, <3>1, <3>2 DEF Outside
  <2> QED
    BY <2>2, <2>3
<1>8. ASSUME NEW h \in Groups, DeleteGroup(h) PROVE Leaving(w, u, g)'
  <2>1. /\ UNCHANGED changes /\ grp' = [grp EXCEPT ![h] = "gone"]
        /\ members' = members \ RoutesOfGroup(h) /\ tasks' = tasks \cup {DeletedEvent(h)}
    BY <1>8 DEF DeleteGroup
  <2>2. ~ Joins(u, g, DeletedEvent(h))
    BY DEF DeletedEvent, Joins
  <2>3. Outside(u, g)' => Outside(u, g)
    BY <2>1 DEF Outside, RoutesOfGroup, FanoutTypeOK
  <2> QED
    BY <1>3, <2>1, <2>2, <2>3
<1>9. ASSUME NEW m \in Messages, CheckMembership(m) \/ StoreMessage(m) PROVE Leaving(w, u, g)'
  <2>1. UNCHANGED <<changes, members, grp>> /\ \A e \in tasks' : e \in tasks \/ e = MessageEvent(m)
    BY <1>9 DEF CheckMembership, StoreMessage
  <2>2. ~ Joins(u, g, MessageEvent(m))
    BY DEF MessageEvent, Joins
  <2> QED
    BY <1>3, <2>1, <2>2 DEF Outside
<1> QED
  BY <1>5, <1>6, <1>7, <1>8, <1>9 DEF Request

\* A LEAVE that is published in order comes last for the pair; any other is recorded.
LEMMA TaskLeaving ==
    ASSUME FanoutTypeOK, LeavingInv, NEW d \in tasks, RunTask(d) \/ LoseTask(d)
    PROVE  LeavingInv'
<1> SUFFICES ASSUME NEW w \in Workers, NEW u \in Users, NEW g \in Groups,
                    <<w, <<u, g>>>> \notin outdated'
             PROVE  Leaving(w, u, g)'
  BY DEF LeavingInv, Leaving
<1>0. InboxType /\ d \in Events
  BY DEF FanoutTypeOK, InboxType
<1>1. /\ UNCHANGED <<group_connections, loaded, members, changes, grp>>
      /\ tasks' = tasks \ {d} /\ outdated \subseteq outdated'
      /\ Publish(d) \/ UNCHANGED inbox
  BY DEF RunTask, LoseTask
<1>2. /\ Leaving(w, u, g) /\ LastLeave(u, g)' = LastLeave(u, g)
      /\ Outside(u, g)' <=> Outside(u, g)
  BY <1>1 DEF LeavingInv, LastLeave, Outside
<1>3. CASE d = LastLeave(u, g)
  <2>1. d.event = "LEAVE" /\ d.user = u /\ d.group = g
    BY <1>3 DEF LastLeave, LeaveEvent
  <2>2. RunTask(d)
    BY <2>1 DEF LoseTask
  <2>3. w \in subscribed /\ ~ Overtakes(d) /\ Publish(d)
    BY <2>1, <2>2 DEF RunTask, Misled
  <2>4. \A e \in tasks' : ~ Joins(u, g, e)
    BY <1>1, <2>1, <2>3 DEF Overtakes, Joins
  <2>5. LeaveComes(w, u, g)'
    BY <1>0, <1>1, <1>3, <2>3, PublishLeaving
  <2> QED
    BY <2>4, <2>5 DEF Leaving, Joins
<1>4. CASE d # LastLeave(u, g) /\ Joins(u, g, d)
  BY <1>1, <1>2, <1>4 DEF Leaving
<1>5. CASE d # LastLeave(u, g) /\ ~ Joins(u, g, d)
  <2>1. LeaveComes(w, u, g) => LeaveComes(w, u, g)'
    <3>1. CASE Publish(d)
      BY <1>0, <1>1, <1>5, <3>1, PublishLeaving
    <3>2. CASE UNCHANGED inbox
      BY <1>2, <3>2 DEF LeaveComes, Joins
    <3> QED
      BY <1>1, <3>1, <3>2
  <2>2. Pending(w)' \subseteq Pending(w) \cup {d}
    <3>1. CASE Publish(d)
      BY <1>0, <3>1, PublishPending
    <3>2. CASE UNCHANGED inbox
      BY <3>2 DEF Pending
    <3> QED
      BY <1>1, <3>1, <3>2
  <2>3. Clean(w, u, g) => Clean(w, u, g)'
    BY <1>1, <1>5, <2>2 DEF Clean, Merging, Joins
  <2> QED
    BY <1>1, <1>2, <1>5, <2>1, <2>3, LeavingFrame
<1> QED
  BY <1>3, <1>4, <1>5

\* Handlers in the order of arrival: after the LEAVE nothing of the pair is left.
LEMMA DispatchLeaving ==
    ASSUME TypeOK, FanoutTypeOK, LeavingInv, NEW v \in Workers, Dispatch(v)
    PROVE  LeavingInv'
<1> SUFFICES ASSUME NEW w \in Workers, NEW u \in Users, NEW g \in Groups PROVE Leaving(w, u, g)'
  BY DEF LeavingInv
<1>0. InboxType
  BY DEF FanoutTypeOK, InboxType
<1>1. /\ inbox[v] # <<>> /\ Consume(v) /\ UNCHANGED loaded
  BY Zenon DEF Dispatch, DispatchJoin, DispatchLeave, DispatchDeleted, DispatchMessage,
               Received, HandleJoin, HandleLeave, GroupDeletedBegin
<1>2. /\ UNCHANGED <<grp, members, changes, tasks>> /\ inbox' = [inbox EXCEPT ![v] = Tail(@)]
      /\ \A x \in Workers : Pending(x)' \subseteq Pending(x)
      /\ Head(inbox[v]) \in Pending(v)
  BY <1>0, <1>1, ConsumePending DEF Consume
<1>3. /\ Leaving(w, u, g) /\ LastLeave(u, g)' = LastLeave(u, g)
      /\ Outside(u, g)' <=> Outside(u, g)
      /\ Merging(w, u, g)' <=> Merging(w, u, g)
  BY <1>1, <1>2 DEF LeavingInv, LastLeave, Outside, Merging
<1>4. outdated \subseteq outdated'
  BY DEF Dispatch, DispatchJoin, DispatchLeave, DispatchDeleted, DispatchMessage
<1>5. ASSUME <<u, g>> \in group_connections'[w] =>
                 \/ <<u, g>> \in group_connections[w]
                 \/ w = v /\ Joins(u, g, Head(inbox[v])),
             w = v /\ Head(inbox[v]) = LastLeave(u, g) =>
                 \/ <<u, g>> \notin group_connections'[w] /\ ~ Merging(w, u, g)
                 \/ <<w, <<u, g>>>> \in outdated'
      PROVE  Leaving(w, u, g)'
  <2>1. Clean(w, u, g) => Clean(w, u, g)'
    BY <1>2, <1>3, <1>5 DEF Clean, Joins
  <2>2. ASSUME LeaveComes(w, u, g), w # v PROVE LeaveComes(w, u, g)'
    <3>1. inbox'[w] = inbox[w]
      BY <1>0, <1>2, <2>2 DEF InboxType
    <3> QED
      BY <1>3, <2>2, <3>1 DEF LeaveComes, Joins
  <2>3. ASSUME LeaveComes(w, u, g), w = v
        PROVE  LeaveComes(w, u, g)' \/ Clean(w, u, g)' \/ <<w, <<u, g>>>> \in outdated'
    <3>1. \/ LeaveComes(w, u, g)'
          \/ /\ Head(inbox[w]) = LastLeave(u, g)
             /\ \A e \in Pending(w)' : ~ Joins(u, g, e)
      BY <1>0, <1>1, <1>2, <2>3, ConsumeLeaving
    <3> QED
      BY <1>3, <1>5, <2>3, <3>1 DEF Clean, Joins
  <2> QED
    BY <1>2, <1>3, <1>4, <2>1, <2>2, <2>3, LeavingFrame
<1>6. ASSUME NEW x \in Users, NEW h \in Groups, NEW n, DispatchJoin(v, x, h, n)
      PROVE  Leaving(w, u, g)'
  <2>1. Head(inbox[v]) = JoinEvent(x, h, n) /\ HandleJoin(v, x, h)
    BY <1>6, Zenon DEF DispatchJoin, Received
  <2>2. <<u, g>> \in group_connections'[w] =>
            <<u, g>> \in group_connections[w] \/ (w = v /\ <<u, g>> = <<x, h>>)
    BY <2>1 DEF HandleJoin, AddRoutes, TypeOK
  <2>3. <<u, g>> = <<x, h>> => Joins(u, g, Head(inbox[v]))
    BY <2>1 DEF JoinEvent, Joins
  <2>4. Head(inbox[v]) # LastLeave(u, g)
    BY <2>1 DEF JoinEvent, LastLeave, LeaveEvent
  <2> QED
    BY <1>5, <2>2, <2>3, <2>4
<1>7. ASSUME NEW x \in Users, NEW h \in Groups, NEW n, DispatchLeave(v, x, h, n)
      PROVE  Leaving(w, u, g)'
  <2>1. /\ Head(inbox[v]) = LeaveEvent(x, h, n) /\ HandleLeave(v, x, h)
        /\ Merging(v, x, h) => <<v, <<x, h>>>> \in outdated'
    BY <1>7 DEF DispatchLeave, Received
  <2>2. /\ \A y \in Workers : group_connections'[y] \subseteq group_connections[y]
        /\ <<x, h>> \notin group_connections'[v]
    BY <2>1 DEF HandleLeave, RemoveRoutes, TypeOK
  <2>3. Head(inbox[v]) = LastLeave(u, g) => x = u /\ h = g
    BY <2>1 DEF LastLeave, LeaveEvent
  <2> QED
    BY <1>5, <2>1, <2>2, <2>3
<1>8. ASSUME group_connections' = group_connections, Head(inbox[v]).event # "LEAVE"
      PROVE  Leaving(w, u, g)'
  <2>1. Head(inbox[v]) # LastLeave(u, g)
    BY <1>8 DEF LastLeave, LeaveEvent
  <2> QED
    BY <1>5, <1>8, <2>1
<1>9. ASSUME NEW h \in Groups, DispatchDeleted(v, h) PROVE Leaving(w, u, g)'
  <2>1. Head(inbox[v]) = DeletedEvent(h) /\ group_connections' = group_connections
    BY <1>9, Zenon DEF DispatchDeleted, Received, GroupDeletedBegin
  <2> QED
    BY <1>8, <2>1 DEF DeletedEvent
<1>10. ASSUME NEW m \in Messages, DispatchMessage(v, m) PROVE Leaving(w, u, g)'
  <2>1. Head(inbox[v]) = MessageEvent(m) /\ group_connections' = group_connections
    BY <1>10, Zenon DEF DispatchMessage, Received
  <2> QED
    BY <1>8, <2>1 DEF MessageEvent
<1> QED
  BY <1>6, <1>7, <1>9, <1>10 DEF Dispatch

\* The query finds members only, and the merge adds what it found.
LEMMA RegistryLeaving ==
    ASSUME TypeOK, FanoutTypeOK, LeavingInv, UNCHANGED <<database, channel, outdated>>,
           \/ \E s \in Sockets : AcceptSocket(s) \/ CloseSocket(s) \/ Serving(s)
           \/ \E x \in Workers, h \in Groups : FinishPurge(x, h)
    PROVE  LeavingInv'
<1> SUFFICES ASSUME NEW w \in Workers, NEW u \in Users, NEW g \in Groups, Outside(u, g)'
             PROVE  Leaving(w, u, g)'
  BY DEF LeavingInv, Leaving
<1>0. /\ Leaving(w, u, g) /\ LastLeave(u, g)' = LastLeave(u, g) /\ Outside(u, g)
      /\ Pending(w)' = Pending(w) /\ <<u, g>> \notin members
  BY DEF LeavingInv, LastLeave, Outside, Pending
<1>1. LeaveComes(w, u, g) => LeaveComes(w, u, g)'
  BY <1>0 DEF LeaveComes, Joins
<1>2. ASSUME \/ <<u, g>> \notin group_connections'[w]
             \/ <<u, g>> \in group_connections[w] \/ Merging(w, u, g),
             \A s \in Sockets : Owner[s] = u /\ g \in loaded'[s] => g \in loaded[s]
      PROVE  Leaving(w, u, g)'
  <2>1. Clean(w, u, g) => Clean(w, u, g)'
    BY <1>0, <1>2 DEF Clean, Merging, Joins
  <2> QED
    BY <1>0, <1>1, <2>1, LeavingFrame
<1>3. ASSUME NEW s \in Sockets, MergeGroups(s) PROVE Leaving(w, u, g)'
  <2>1. <<u, g>> \in group_connections'[w] =>
            \/ <<u, g>> \in group_connections[w]
            \/ w = Home[s] /\ u = Owner[s] /\ g \in loaded[s]
    BY <1>3, SocketsAssumption DEF MergeGroups, AddRoutes, TypeOK
  <2>2. \A t \in Sockets : g \in loaded'[t] => g \in loaded[t]
    BY <1>3 DEF MergeGroups, TypeOK
  <2> QED
    BY <1>2, <2>1, <2>2 DEF Merging
<1>4. ASSUME NEW s \in Sockets, HydrateGroups(s) PROVE Leaving(w, u, g)'
  <2>1. /\ UNCHANGED group_connections
        /\ loaded' = [loaded EXCEPT ![s] = {h \in Groups : <<Owner[s], h>> \in members}]
    BY <1>4 DEF HydrateGroups, ListUserGroups, GroupsOf
  <2>2. \A t \in Sockets : Owner[t] = u /\ g \in loaded'[t] => g \in loaded[t]
    BY <1>0, <2>1 DEF TypeOK
  <2> QED
    BY <1>2, <2>1, <2>2
<1>5. ASSUME NEW s \in Sockets, HydrationFails(s) PROVE Leaving(w, u, g)'
  <2>1. UNCHANGED group_connections /\ loaded' = [loaded EXCEPT ![s] = {}]
    BY <1>5, Zenon DEF HydrationFails, ListUserGroupsFails
  <2> QED
    BY <1>2, <2>1 DEF TypeOK
<1>6. ASSUME NEW s \in Sockets, UnregisterConnection(s) PROVE Leaving(w, u, g)'
  <2>1. UNCHANGED loaded
    BY <1>6, Zenon DEF UnregisterConnection
  <2>2. group_connections'[w] \subseteq group_connections[w]
    <3>1. PICK routes :
             \/ UNCHANGED group_connections
             \/ group_connections' = [group_connections EXCEPT ![Home[s]] = @ \ routes]
      BY <1>6, Zenon DEF UnregisterConnection, RemoveRoutes
    <3> QED
      BY <3>1 DEF TypeOK
  <2> QED
    BY <1>2, <2>1, <2>2
<1>7. ASSUME NEW s \in Sockets,
             \/ AcceptSocket(s) \/ CloseSocket(s)
             \/ AddActiveUser(s) \/ AddActiveUserFails(s)
             \/ RemoveActiveUser(s) \/ DeleteActiveUser(s) \/ RemoveActiveUserFails(s)
      PROVE  Leaving(w, u, g)'
  <2>1. UNCHANGED <<group_connections, loaded>>
    BY <1>7, Zenon DEF AcceptSocket, CloseSocket, RegisterConnection, Disconnect, AddActiveUser,
                       AddActiveUserFails, RemoveActiveUser, DeleteActiveUser, RemoveActiveUserFails
  <2> QED
    BY <1>2, <2>1
<1>8. ASSUME NEW x \in Workers, NEW h \in Groups, FinishPurge(x, h) PROVE Leaving(w, u, g)'
  <2>1. /\ UNCHANGED loaded
        /\ group_connections' = [group_connections EXCEPT ![x] = @ \ RoutesOfGroup(h)]
    BY <1>8, Zenon DEF FinishPurge, GroupDeletedEnd
  <2>2. group_connections'[w] \subseteq group_connections[w]
    BY <2>1 DEF TypeOK
  <2> QED
    BY <1>2, <2>1, <2>2
<1> QED
  BY <1>3, <1>4, <1>5, <1>6, <1>7, <1>8, Zenon DEF Serving, RegistryStep

\* Every step of the cluster keeps the invariant.
LEMMA LeavingStep ==
    ASSUME TypeOK, FanoutTypeOK, Loading, LeavingInv, [FanoutNext]_allVars PROVE LeavingInv'
<1>0. InboxType
  BY DEF FanoutTypeOK, InboxType
<1>1. ASSUME UNCHANGED <<database, tasks, inbox, outdated, group_connections, loaded>>
      PROVE  LeavingInv'
  BY <1>1 DEF LeavingInv, Leaving, Outside, LastLeave, Clean, LeaveComes, Pending, Merging, Joins
<1>2. ASSUME NEW x \in Workers, Subscribe(x) PROVE LeavingInv'
  BY <1>1, <1>2 DEF Subscribe
<1>3. UNCHANGED allVars => LeavingInv'
  BY <1>1
<1>4. ASSUME NEW x \in Workers, Unsubscribe(x) \/ CrashWorker(x) PROVE LeavingInv'
  <2> SUFFICES ASSUME NEW w \in Workers, NEW u \in Users, NEW g \in Groups PROVE Leaving(w, u, g)'
    BY DEF LeavingInv
  <2>1. /\ UNCHANGED <<database, tasks>> /\ inbox' = [inbox EXCEPT ![x] = <<>>]
        /\ outdated \subseteq outdated'
    BY <1>4 DEF Unsubscribe, CrashWorker
  <2>2. /\ Leaving(w, u, g) /\ LastLeave(u, g)' = LastLeave(u, g)
        /\ Outside(u, g)' <=> Outside(u, g)
        /\ Pending(w)' \subseteq Pending(w)
    BY <1>0, <2>1, ClearPending DEF LeavingInv, LastLeave, Outside
  <2>3. /\ group_connections'[w] \subseteq group_connections[w]
        /\ \A s \in Sockets : loaded'[s] \subseteq loaded[s]
    BY <1>4 DEF Unsubscribe, CrashWorker, Crash, TypeOK
  <2>4. Clean(w, u, g) => Clean(w, u, g)'
    BY <2>2, <2>3 DEF Clean, Merging, Joins
  <2>5. w # x /\ LeaveComes(w, u, g) => LeaveComes(w, u, g)'
    <3>1. w # x => inbox'[w] = inbox[w]
      BY <1>0, <2>1 DEF InboxType
    <3> QED
      BY <2>2, <3>1 DEF LeaveComes, Joins
  <2>6. ASSUME w = x, LeaveComes(w, u, g), Unsubscribe(x) PROVE <<w, <<u, g>>>> \in outdated'
    <3>1. PICK i \in 1..Len(inbox[w]) : inbox[w][i] = LastLeave(u, g)
      BY <2>6 DEF LeaveComes
    <3>2. inbox[w] \in Seq(Events)
      BY <1>0 DEF InboxType
    <3>3. i \in DOMAIN inbox[w]
      BY <3>1, <3>2
    <3>4. <<u, g>> \in Departing(w)
      BY <3>1, <3>3 DEF Departing, LastLeave, LeaveEvent
    <3> QED
      BY <2>6, <3>4 DEF Unsubscribe
  <2>7. ASSUME w = x, CrashWorker(x) PROVE Clean(w, u, g)'
    <3>1. Crash(w)
      BY <2>7 DEF CrashWorker
    <3>2. group_connections'[w] = {} /\ \A s \in Sockets : Home[s] = w => loaded'[s] = {}
      BY <3>1 DEF Crash, Loading, TypeOK
    <3>3. inbox'[w] = <<>>
      BY <1>0, <2>1, <2>7 DEF InboxType
    <3>4. Pending(w)' = {}
      BY <3>3 DEF Pending
    <3> QED
      BY <3>2, <3>4 DEF Clean, Merging
  <2> QED
    BY <1>4, <2>1, <2>2, <2>4, <2>5, <2>6, <2>7, LeavingFrame
<1>5. ASSUME NEW s \in Sockets, AcceptSocket(s) \/ CloseSocket(s) \/ Serving(s)
      PROVE  UNCHANGED <<database, channel, outdated>>
  BY <1>5, Zenon DEF AcceptSocket, CloseSocket, Serving, HydrateGroups, HydrationFails, RegistryStep
<1>6. ASSUME NEW w \in Workers, NEW g \in Groups, FinishPurge(w, g)
      PROVE  UNCHANGED <<database, channel, outdated>>
  BY <1>6, Zenon DEF FinishPurge
<1> QED
  BY <1>2, <1>3, <1>4, <1>5, <1>6, RequestLeaving, TaskLeaving, DispatchLeaving, RegistryLeaving,
     Zenon DEF FanoutNext

\* What the revocation of a membership does guarantee: a route outlives it only
\* while its LEAVE is under way, or on a worker that missed the LEAVE, was told
\* of it before the JOIN, or had read the membership before.
THEOREM StaleRoutesSafe == FanoutSpec => []StaleRoutesExplained
<1>1. FanoutInit => LeavingInv
  BY DEF FanoutInit, Init, LeavingInv, Leaving, Clean, Pending, Merging
<1>2. FanoutSpec => []Loading
  BY RegistryImplemented, LoadingSafe, PTL
<1>3. TypeOK /\ FanoutTypeOK /\ LeavingInv => StaleRoutesExplained
  <2> SUFFICES ASSUME TypeOK, FanoutTypeOK, LeavingInv, NEW w \in Workers,
                      NEW r \in group_connections[w] \ members, grp[r[2]] = "live",
                      LeaveEvent(r[1], r[2], changes[r]) \notin tasks, <<w, r>> \notin outdated
               PROVE  InInbox(w, LeaveEvent(r[1], r[2], changes[r]))
    BY DEF StaleRoutesExplained
  <2>1. r[1] \in Users /\ r[2] \in Groups /\ r = <<r[1], r[2]>>
    BY DEF TypeOK
  <2>2. LastLeave(r[1], r[2]) = LeaveEvent(r[1], r[2], changes[r]) /\ Outside(r[1], r[2])
    BY <2>1 DEF LastLeave, Outside
  <2>3. LeaveComes(w, r[1], r[2])
    BY <2>1, <2>2 DEF LeavingInv, Leaving, Clean
  <2>4. inbox[w] \in Seq(Events)
    BY DEF FanoutTypeOK
  <2>5. DOMAIN inbox[w] = 1..Len(inbox[w])
    BY <2>4
  <2> QED
    BY <2>2, <2>3, <2>5 DEF LeaveComes, InInbox
<1> QED
  BY <1>1, <1>2, <1>3, LeavingStep, FanoutTypes, ClusterTypeCorrect, PTL DEF FanoutSpec

-----------------------------------------------------------------------------
(* Members are routed: sockets and subscriptions *)

\* The socket is registered, or being registered.
Alive == {"incr", "load", "merge", "open"}

\* A socket is in the registry until it is unregistered.
Registered == \A s \in Sockets : pc[s] \in Alive \cup {"closing"} => s \in local_connections

\* A step of a socket that is not its registration brings none to life.
LEMMA ServeAlive ==
    ASSUME TypeOK, NEW s \in Sockets, Disconnect(s) \/ Serve(s)
    PROVE  /\ \A t \in Sockets : t # s => pc'[t] = pc[t] /\ loaded'[t] = loaded[t]
           /\ pc'[s] \in Alive => pc[s] \in Alive
           /\ pc'[s] = "closing" => pc[s] = "open"
           /\ \A t \in Sockets : t # s /\ t \in local_connections => t \in local_connections'
           /\ pc'[s] \in Alive \cup {"closing"} => local_connections' = local_connections
<1>1. PICK p \in SocketStates :
          /\ Goto(s, p) /\ (p \in Alive => pc[s] \in Alive)
          /\ (p = "closing" => pc[s] = "open")
          /\ (p \in Alive \cup {"closing"} => local_connections' = local_connections)
  <2>1. CASE Disconnect(s)
    BY <2>1 DEF Disconnect, Alive, SocketStates
  <2>2. CASE AddActiveUser(s) \/ AddActiveUserFails(s)
    BY <2>2 DEF AddActiveUser, AddActiveUserFails, Alive, SocketStates
  <2>3. CASE \E gs \in SUBSET Groups : ListUserGroups(s, gs)
    BY <2>3 DEF ListUserGroups, Alive, SocketStates
  <2>4. CASE ListUserGroupsFails(s) \/ MergeGroups(s)
    BY <2>4 DEF ListUserGroupsFails, MergeGroups, Alive, SocketStates
  <2>5. CASE UnregisterConnection(s)
    <3>1. Goto(s, "skipped") \/ Goto(s, "decr")
      BY <2>5, Zenon DEF UnregisterConnection
    <3> QED
      BY <3>1 DEF Alive, SocketStates
  <2>6. CASE RemoveActiveUser(s)
    BY <2>6 DEF RemoveActiveUser, Alive, SocketStates
  <2>7. CASE DeleteActiveUser(s) \/ RemoveActiveUserFails(s)
    BY <2>7 DEF DeleteActiveUser, RemoveActiveUserFails, Alive, SocketStates
  <2> QED
    BY <2>1, <2>2, <2>3, <2>4, <2>5, <2>6, <2>7 DEF Serve
<1>2. pc'[s] = p /\ \A t \in Sockets : t # s => pc'[t] = pc[t]
  BY <1>1 DEF Goto, TypeOK
<1>3. \A t \in Sockets : t # s => loaded'[t] = loaded[t]
  <2>1. PICK l : loaded' = loaded \/ loaded' = [loaded EXCEPT ![s] = l]
    BY Zenon DEF Disconnect, Serve, AddActiveUser, AddActiveUserFails, ListUserGroups,
                 ListUserGroupsFails, MergeGroups, UnregisterConnection, RemoveActiveUser,
                 DeleteActiveUser, RemoveActiveUserFails
  <2> QED
    BY <2>1 DEF TypeOK
<1>4. \A t \in Sockets : t # s /\ t \in local_connections => t \in local_connections'
  <2>1. local_connections' = local_connections \/ local_connections' = local_connections \ {s}
    BY Zenon DEF Disconnect, Serve, AddActiveUser, AddActiveUserFails, ListUserGroups,
                 ListUserGroupsFails, MergeGroups, UnregisterConnection, RemoveActiveUser,
                 DeleteActiveUser, RemoveActiveUserFails
  <2> QED
    BY <2>1
<1> QED
  BY <1>1, <1>2, <1>3, <1>4

\* Only unregister_connection and a crash take a socket out of the registry.
LEMMA RegisteredSafe == Spec => []Registered
<1>1. Init => Registered
  BY DEF Init, Registered, Alive
<1>2. TypeOK /\ Registered /\ [Next]_vars => Registered'
  <2> SUFFICES ASSUME TypeOK, Registered, [Next]_vars PROVE Registered'
    OBVIOUS
  <2>1. ASSUME NEW s \in Sockets, RegisterConnection(s) PROVE Registered'
    BY <2>1 DEF RegisterConnection, Goto, Registered, TypeOK
  <2>2. ASSUME NEW s \in Sockets, Disconnect(s) \/ Serve(s) PROVE Registered'
    <3>1. ASSUME NEW t \in Sockets, t # s, pc'[t] \in Alive \cup {"closing"}
          PROVE  t \in local_connections'
      BY <2>2, <3>1, ServeAlive DEF Registered
    <3>2. ASSUME pc'[s] \in Alive \cup {"closing"} PROVE s \in local_connections'
      <4>1. pc[s] \in Alive /\ local_connections' = local_connections
        BY <2>2, <3>2, ServeAlive DEF Alive
      <4> QED
        BY <4>1 DEF Registered
    <3> QED
      BY <3>1, <3>2 DEF Registered
  <2>3. ASSUME NEW w \in Workers, NEW g \in Groups, Notify(w, g)
        PROVE  UNCHANGED <<pc, local_connections>>
    BY <2>3 DEF Notify, HandleJoin, HandleLeave, GroupDeletedBegin, GroupDeletedEnd
  <2>4. ASSUME NEW w \in Workers, Crash(w) PROVE Registered'
    BY <2>4 DEF Crash, Registered, Alive
  <2>5. ASSUME UNCHANGED <<pc, local_connections>> PROVE Registered'
    BY <2>5 DEF Registered
  <2> QED
    BY <2>1, <2>2, <2>3, <2>4, <2>5 DEF Next
<1> QED
  BY <1>1, <1>2, TypeCorrect, PTL DEF Spec

\* A worker that serves an informed socket is subscribed.
Informed == \A s \in Sockets \ uninformed : pc[s] \in Alive => Home[s] \in subscribed

\* A step that subscribes nobody less and brings no socket to life.
LEMMA InformedFrame ==
    ASSUME Informed, subscribed \subseteq subscribed', uninformed \subseteq uninformed',
           \A s \in Sockets : pc'[s] \in Alive => pc[s] \in Alive
    PROVE  Informed'
BY DEF Informed

\* Every step of the cluster keeps informed sockets subscribed.
LEMMA InformedStep ==
    ASSUME TypeOK, FanoutTypeOK, Registered, Informed, [FanoutNext]_allVars PROVE Informed'
<1>1. CASE UNCHANGED vars /\ subscribed \subseteq subscribed' /\ uninformed \subseteq uninformed'
  BY <1>1, InformedFrame
<1>2. ASSUME Request \/ UNCHANGED allVars
      PROVE  UNCHANGED vars /\ UNCHANGED <<subscribed, uninformed>>
  BY <1>2, OutsideStep, Zenon DEF Request, CreateGroup, DeleteGroup, AddMember, RemoveMember,
                                  CheckMembership, StoreMessage
<1>3. ASSUME NEW e \in tasks, RunTask(e) \/ LoseTask(e)
      PROVE  UNCHANGED vars /\ subscribed' = subscribed /\ uninformed \subseteq uninformed'
  BY <1>3 DEF RunTask, LoseTask
<1>4. ASSUME NEW w \in Workers, Subscribe(w)
      PROVE  UNCHANGED vars /\ subscribed \subseteq subscribed' /\ UNCHANGED uninformed
  BY <1>4 DEF Subscribe
<1>5. ASSUME NEW w \in Workers, Unsubscribe(w) PROVE Informed'
  <2>1. /\ UNCHANGED pc /\ subscribed' = subscribed \ {w}
        /\ uninformed' = uninformed \cup {s \in local_connections : Home[s] = w}
    BY <1>5 DEF Unsubscribe
  <2>2. \A s \in Sockets \ uninformed' : pc[s] \in Alive => Home[s] # w
    BY <2>1 DEF Registered
  <2> QED
    BY <2>1, <2>2 DEF Informed
<1>6. ASSUME NEW w \in Workers, CrashWorker(w) PROVE Informed'
  <2>1. /\ subscribed' = subscribed \ {w} /\ UNCHANGED uninformed
        /\ pc' = [s \in Sockets |->
               IF s \in {t \in Sockets : Home[t] = w /\ pc[t] \notin {"new", "closed", "skipped"}}
               THEN "lost" ELSE pc[s]]
    BY <1>6, Zenon DEF CrashWorker, Crash
  <2>2. \A s \in Sockets : pc'[s] \in Alive => pc[s] \in Alive /\ Home[s] # w
    BY <2>1 DEF Alive
  <2> QED
    BY <2>1, <2>2 DEF Informed
<1>7. ASSUME NEW w \in Workers, Dispatch(w) PROVE Informed'
  <2>1. UNCHANGED <<pc, subscribed, uninformed>>
    BY <1>7, Zenon DEF Dispatch, DispatchJoin, DispatchLeave, DispatchDeleted, DispatchMessage,
                       Consume, HandleJoin, HandleLeave, GroupDeletedBegin
  <2> QED
    BY <2>1, InformedFrame
<1>8. ASSUME NEW w \in Workers, NEW g \in Groups, FinishPurge(w, g) PROVE Informed'
  <2>1. UNCHANGED <<pc, subscribed, uninformed>>
    BY <1>8, Zenon DEF FinishPurge, GroupDeletedEnd
  <2> QED
    BY <2>1, InformedFrame
<1>9. ASSUME NEW s \in Sockets, AcceptSocket(s) PROVE Informed'
  <2>1. /\ pc' = [pc EXCEPT ![s] = "incr"] /\ UNCHANGED subscribed
        /\ uninformed' = IF Home[s] \in subscribed THEN uninformed ELSE uninformed \cup {s}
    BY <1>9, Zenon DEF AcceptSocket, RegisterConnection, Goto
  <2> QED
    BY <2>1 DEF Informed, TypeOK
<1>10. ASSUME NEW s \in Sockets, CloseSocket(s) \/ Serving(s) PROVE Informed'
  <2>1. Disconnect(s) \/ Serve(s)
    BY <1>10, ServingStep, Zenon DEF CloseSocket
  <2>2. \A t \in Sockets : pc'[t] \in Alive => pc[t] \in Alive
    BY <2>1, ServeAlive
  <2>3. UNCHANGED subscribed /\ uninformed \subseteq uninformed'
    BY <1>10 DEF CloseSocket, Serving, HydrateGroups, HydrationFails, RegistryStep
  <2> QED
    BY <2>2, <2>3, InformedFrame
<1> QED
  BY <1>1, <1>2, <1>3, <1>4, <1>5, <1>6, <1>7, <1>8, <1>9, <1>10 DEF FanoutNext

-----------------------------------------------------------------------------
(* Members are routed: leaves and deletions *)

\* A LEAVE follows a JOIN, and a DELETED the end of the group.
Settled(e) ==
    /\ e.event = "LEAVE" => changes[<<e.user, e.group>>] > 1
    /\ e.event = "DELETED" => grp[e.group] = "gone"

SettledInv ==
    /\ \A e \in tasks : Settled(e)
    /\ \A w \in Workers : \A e \in Pending(w) : Settled(e)
    /\ \A w \in Workers, g \in Groups : purging[w][g] # {} => grp[g] = "gone"

\* A step that adds settled events only.
LEMMA SettledFrame ==
    ASSUME FanoutTypeOK, SettledInv,
           \A r \in Users \X Groups : changes[r] > 1 => changes'[r] > 1,
           \A g \in Groups : grp[g] = "gone" => grp'[g] = "gone",
           \A e \in tasks' : e \in tasks \/ Settled(e)',
           \A w \in Workers : \A e \in Pending(w)' : e \in Pending(w) \/ e \in tasks,
           \A w \in Workers, g \in Groups : purging'[w][g] # {} =>
               purging[w][g] # {} \/ grp[g] = "gone"
    PROVE  SettledInv'
<1>1. ASSUME NEW e \in Events, Settled(e) PROVE Settled(e)'
  <2>1. e.event = "LEAVE" => <<e.user, e.group>> \in Users \X Groups
    BY DEF Events
  <2>2. e.event = "DELETED" => e.group \in Groups
    BY DEF Events
  <2> QED
    BY <1>1, <2>1, <2>2 DEF Settled
<1>2. tasks \subseteq Events /\ \A w \in Workers : Pending(w) \subseteq Events
  BY DEF Pending, FanoutTypeOK
<1>3. \A e \in tasks' : Settled(e)'
  BY <1>1, <1>2 DEF SettledInv
<1>4. \A w \in Workers : \A e \in Pending(w)' : Settled(e)'
  BY <1>1, <1>2 DEF SettledInv
<1>5. \A w \in Workers, g \in Groups : purging'[w][g] # {} => grp'[g] = "gone"
  BY DEF SettledInv
<1> QED
  BY <1>3, <1>4, <1>5 DEF SettledInv

\* Requests publish settled events.
LEMMA RequestSettled ==
    ASSUME FanoutTypeOK, MembersInv, SettledInv, Request PROVE SettledInv'
<1>0. UNCHANGED purging /\ \A w \in Workers : Pending(w)' = Pending(w)
  <2>1. UNCHANGED <<purging, inbox>>
    BY DEF Request, CreateGroup, DeleteGroup, AddMember, RemoveMember, CheckMembership, StoreMessage
  <2> QED
    BY <2>1 DEF Pending
<1>1. ASSUME NEW u \in Users, NEW g \in Groups, Changed(<<u, g>>), UNCHANGED post,
             \A h \in Groups : grp[h] = "gone" => grp'[h] = "gone",
             \A e \in tasks' : e \in tasks \/ e \in JoinTask(u, g) \/ Settled(e)'
      PROVE  SettledInv'
  <2>1. \A r \in Users \X Groups : changes[r] > 1 => changes'[r] > 1
    <3>1. /\ changes'[<<u, g>>] = changes[<<u, g>>] + 1 /\ changes[<<u, g>>] \in Nat
          /\ \A r \in Users \X Groups : r # <<u, g>> => changes'[r] = changes[r]
      BY <1>1, ChangedGrows DEF FanoutTypeOK
    <3>2. changes[<<u, g>>] > 1 => changes'[<<u, g>>] > 1
      BY <3>1
    <3> QED
      BY <3>1, <3>2
  <2>2. \A e \in JoinTask(u, g) : Settled(e)'
    BY DEF JoinTask, JoinEvent, Settled
  <2> QED
    BY <1>0, <1>1, <2>1, <2>2, SettledFrame
<1>2. ASSUME NEW g \in Groups, CreateGroup(g) PROVE SettledInv'
  <2>1. /\ Creator[g] \in Users /\ Changed(<<Creator[g], g>>) /\ UNCHANGED post
        /\ tasks' = tasks \cup JoinTask(Creator[g], g)
        /\ grp[g] = "none" /\ grp' = [grp EXCEPT ![g] = "live"]
    BY <1>2, FanoutAssumption DEF CreateGroup
  <2>2. \A h \in Groups : grp[h] = "gone" => grp'[h] = "gone"
    BY <2>1 DEF FanoutTypeOK
  <2> QED
    BY <1>1, <2>1, <2>2
<1>3. ASSUME NEW u \in Users, NEW g \in Groups, AddMember(u, g) PROVE SettledInv'
  BY <1>1, <1>3 DEF AddMember
<1>4. ASSUME NEW u \in Users, NEW g \in Groups, RemoveMember(u, g) PROVE SettledInv'
  <2>1. /\ Changed(<<u, g>>) /\ UNCHANGED <<post, grp>> /\ <<u, g>> \in members
        /\ tasks' = tasks \cup {LeaveEvent(u, g, changes[<<u, g>>] + 1)}
    BY <1>4 DEF RemoveMember, LeaveTask
  <2>2. /\ changes'[<<u, g>>] = changes[<<u, g>>] + 1 /\ changes[<<u, g>>] \in Nat
    BY <2>1, ChangedGrows DEF FanoutTypeOK
  <2>3. changes[<<u, g>>] > 0
    BY <2>1 DEF MembersInv, Ever
  <2>4. changes'[<<u, g>>] > 1
    BY <2>2, <2>3
  <2>5. \A n : Settled(LeaveEvent(u, g, n))'
    BY <2>4 DEF Settled, LeaveEvent
  <2> QED
    BY <1>1, <2>1, <2>5
<1>5. ASSUME NEW g \in Groups, DeleteGroup(g) PROVE SettledInv'
  <2>1. /\ UNCHANGED changes /\ grp' = [grp EXCEPT ![g] = "gone"]
        /\ tasks' = tasks \cup {DeletedEvent(g)}
    BY <1>5 DEF DeleteGroup
  <2>2. grp'[g] = "gone" /\ \A h \in Groups : grp[h] = "gone" => grp'[h] = "gone"
    BY <2>1 DEF FanoutTypeOK
  <2>3. Settled(DeletedEvent(g))'
    BY <2>2 DEF Settled, DeletedEvent
  <2> QED
    BY <1>0, <2>1, <2>2, <2>3, SettledFrame
<1>6. ASSUME NEW m \in Messages, CheckMembership(m) \/ StoreMessage(m) PROVE SettledInv'
  <2>1. UNCHANGED <<changes, grp>> /\ \A e \in tasks' : e \in tasks \/ e = MessageEvent(m)
    BY <1>6 DEF CheckMembership, StoreMessage
  <2>2. Settled(MessageEvent(m))'
    BY DEF Settled, MessageEvent
  <2> QED
    BY <1>0, <2>1, <2>2, SettledFrame
<1> QED
  BY <1>2, <1>3, <1>4, <1>5, <1>6 DEF Request

\* Every step of the cluster keeps events settled.
LEMMA SettledStep ==
    ASSUME TypeOK, FanoutTypeOK, MembersInv, SettledInv, [FanoutNext]_allVars PROVE SettledInv'
<1>0. InboxType
  BY DEF FanoutTypeOK, InboxType
<1>1. ASSUME UNCHANGED <<changes, grp>>, tasks' \subseteq tasks,
             \A w \in Workers : \A e \in Pending(w)' : e \in Pending(w) \/ e \in tasks,
             \A w \in Workers, g \in Groups : purging'[w][g] # {} =>
                 purging[w][g] # {} \/ grp[g] = "gone"
      PROVE  SettledInv'
  BY <1>1, SettledFrame
<1>2. ASSUME NEW e \in tasks, RunTask(e) \/ LoseTask(e) PROVE SettledInv'
  <2>1. e \in Events /\ (Publish(e) \/ UNCHANGED inbox)
    BY <1>2 DEF RunTask, LoseTask, FanoutTypeOK
  <2>2. \A w \in Workers : \A d \in Pending(w)' : d \in Pending(w) \/ d \in tasks
    <3>1. CASE Publish(e)
      BY <1>0, <2>1, <3>1, PublishPending
    <3>2. CASE UNCHANGED inbox
      BY <3>2 DEF Pending
    <3> QED
      BY <2>1, <3>1, <3>2
  <2>3. UNCHANGED <<changes, grp, purging>> /\ tasks' \subseteq tasks
    BY <1>2 DEF RunTask, LoseTask
  <2> QED
    BY <1>1, <2>2, <2>3
<1>3. ASSUME NEW w \in Workers, Unsubscribe(w) \/ CrashWorker(w) PROVE SettledInv'
  <2>1. UNCHANGED <<changes, grp, tasks>> /\ inbox' = [inbox EXCEPT ![w] = <<>>]
    BY <1>3 DEF Unsubscribe, CrashWorker
  <2>2. \A v \in Workers : Pending(v)' \subseteq Pending(v)
    BY <1>0, <2>1, ClearPending
  <2>3. purging' = purging \/ purging' = [purging EXCEPT ![w] = [g \in Groups |-> {}]]
    BY <1>3, Zenon DEF Unsubscribe, CrashWorker, Crash
  <2>4. \A v \in Workers, g \in Groups : purging'[v][g] # {} => purging[v][g] # {}
    BY <2>3 DEF TypeOK
  <2> QED
    BY <1>1, <2>1, <2>2, <2>4
<1>4. ASSUME NEW w \in Workers, Dispatch(w) PROVE SettledInv'
  <2>1. inbox[w] # <<>> /\ Consume(w)
    BY <1>4, Zenon DEF Dispatch, DispatchJoin, DispatchLeave, DispatchDeleted, DispatchMessage,
                       Received
  <2>2. /\ UNCHANGED <<changes, grp, tasks>> /\ Head(inbox[w]) \in Pending(w)
        /\ \A v \in Workers : Pending(v)' \subseteq Pending(v)
    BY <1>0, <2>1, ConsumePending DEF Consume
  <2>3. \/ purging' = purging
        \/ \E g \in Groups : Received(w, DeletedEvent(g)) /\ GroupDeletedBegin(w, g)
    BY <1>4, Zenon DEF Dispatch, DispatchJoin, DispatchLeave, DispatchDeleted, DispatchMessage,
                       HandleJoin, HandleLeave
  <2>4. ASSUME NEW g \in Groups, Received(w, DeletedEvent(g)), GroupDeletedBegin(w, g)
        PROVE  \A v \in Workers, h \in Groups : purging'[v][h] # {} =>
                   purging[v][h] # {} \/ grp[h] = "gone"
    <3>1. Settled(DeletedEvent(g))
      BY <2>2, <2>4 DEF SettledInv, Received
    <3>2. grp[g] = "gone"
      BY <3>1 DEF Settled, DeletedEvent
    <3>3. \A v \in Workers, h \in Groups : purging'[v][h] = purging[v][h] \/ h = g
      BY <2>4 DEF GroupDeletedBegin, TypeOK
    <3> QED
      BY <3>2, <3>3
  <2> QED
    BY <1>1, <2>2, <2>3, <2>4
<1>5. ASSUME NEW w \in Workers, NEW g \in Groups, FinishPurge(w, g) PROVE SettledInv'
  <2>1. UNCHANGED <<changes, grp, tasks, inbox>> /\ purging' = [purging EXCEPT ![w][g] = {}]
    BY <1>5, Zenon DEF FinishPurge, GroupDeletedEnd
  <2>2. \A v \in Workers, h \in Groups : purging'[v][h] # {} => purging[v][h] # {}
    BY <2>1 DEF TypeOK
  <2>3. \A v \in Workers : Pending(v)' = Pending(v)
    BY <2>1 DEF Pending
  <2> QED
    BY <1>1, <2>1, <2>2, <2>3
<1>6. ASSUME UNCHANGED <<changes, grp, tasks, inbox, purging>> PROVE SettledInv'
  <2>1. \A v \in Workers : Pending(v)' = Pending(v)
    BY <1>6 DEF Pending
  <2> QED
    BY <1>1, <1>6, <2>1
<1>7. ASSUME NEW w \in Workers, Subscribe(w) PROVE UNCHANGED <<changes, grp, tasks, inbox, purging>>
  BY <1>7 DEF Subscribe
<1>8. ASSUME NEW s \in Sockets, AcceptSocket(s) \/ CloseSocket(s) \/ Serving(s)
      PROVE  UNCHANGED <<changes, grp, tasks, inbox, purging>>
  BY <1>8, Zenon DEF AcceptSocket, CloseSocket, Serving, HydrateGroups, HydrationFails, RegistryStep,
       RegisterConnection, Disconnect, AddActiveUser, AddActiveUserFails, ListUserGroups,
       ListUserGroupsFails, MergeGroups, UnregisterConnection, RemoveActiveUser,
       DeleteActiveUser, RemoveActiveUserFails
<1>9. UNCHANGED allVars => UNCHANGED <<changes, grp, tasks, inbox, purging>>
  BY Zenon
<1> QED
  BY <1>2, <1>3, <1>4, <1>5, <1>6, <1>7, <1>8, <1>9, RequestSettled DEF FanoutNext

-----------------------------------------------------------------------------
(* Members are routed: the JOIN, the query and the tables *)

\* A member who has never been removed.
First(u, g) == <<u, g>> \in members /\ changes[<<u, g>>] = 1

Routed(s, g)   == <<Owner[s], g>> \in group_connections[Home[s]]
OnItsWay(s, g) == JoinEvent(Owner[s], g, 1) \in tasks \cup Pending(Home[s])

\* From the query of register_connection on, the group is known to the socket.
Due(s, g) ==
    /\ pc[s] = "open" => Routed(s, g) \/ OnItsWay(s, g)
    /\ pc[s] = "merge" => Routed(s, g) \/ OnItsWay(s, g) \/ g \in loaded[s]

RoutedInv ==
    \A s \in Sockets \ uninformed : \A g \in Groups : First(Owner[s], g) => Due(s, g)

\* A step that does not move the socket and loses neither route nor event.
LEMMA DueFrame ==
    ASSUME NEW s \in Sockets, NEW g \in Groups, Due(s, g),
           pc'[s] \in {"open", "merge"} => pc'[s] = pc[s] /\ loaded'[s] = loaded[s],
           Routed(s, g) => Routed(s, g)',
           pc[s] \in {"open", "merge"} /\ OnItsWay(s, g) => Routed(s, g)' \/ OnItsWay(s, g)'
    PROVE  Due(s, g)'
BY DEF Due

\* A new membership comes with its JOIN.
LEMMA RequestRouted ==
    ASSUME FanoutTypeOK, RoutedInv, Request PROVE RoutedInv'
<1> SUFFICES ASSUME NEW s \in Sockets \ uninformed', NEW g \in Groups, First(Owner[s], g)'
             PROVE  Due(s, g)'
  BY DEF RoutedInv
<1>0. Owner[s] \in Users /\ Home[s] \in Workers
  BY SocketsAssumption
<1>1. UNCHANGED <<pc, loaded, group_connections, inbox, uninformed>> /\ tasks \subseteq tasks'
  BY DEF Request, CreateGroup, DeleteGroup, AddMember, RemoveMember, CheckMembership, StoreMessage
<1>2. /\ Routed(s, g)' <=> Routed(s, g)
      /\ OnItsWay(s, g) => OnItsWay(s, g)'
  BY <1>1 DEF Routed, OnItsWay, Pending
<1>3. CASE First(Owner[s], g)
  <2>1. Due(s, g)
    BY <1>1, <1>3 DEF RoutedInv
  <2> QED
    BY <1>1, <1>2, <2>1, DueFrame
<1>4. CASE ~ First(Owner[s], g)
  <2>1. ASSUME NEW u \in Users, NEW h \in Groups, Changed(<<u, h>>), UNCHANGED post,
               members' = members \cup {<<u, h>>}, tasks' = tasks \cup JoinTask(u, h)
        PROVE  JoinEvent(Owner[s], g, 1) \in tasks'
    <3>1. /\ changes'[<<u, h>>] = changes[<<u, h>>] + 1
          /\ \A r \in Users \X Groups : r # <<u, h>> => changes'[r] = changes[r]
      BY <2>1, ChangedGrows
    <3>2. u = Owner[s] /\ h = g
      BY <1>0, <1>4, <2>1, <3>1 DEF First
    <3> QED
      BY <2>1, <3>1, <3>2 DEF JoinTask, First
  <2>2. ASSUME NEW h \in Groups, CreateGroup(h) PROVE JoinEvent(Owner[s], g, 1) \in tasks'
    <3>1. Creator[h] \in Users
      BY FanoutAssumption
    <3> QED
      BY <2>1, <2>2, <3>1 DEF CreateGroup
  <2>3. ASSUME NEW u \in Users, NEW h \in Groups, AddMember(u, h)
        PROVE  JoinEvent(Owner[s], g, 1) \in tasks'
    BY <2>1, <2>3 DEF AddMember
  <2>4. ASSUME NEW u \in Users, NEW h \in Groups, RemoveMember(u, h) PROVE FALSE
    <3>1. /\ Changed(<<u, h>>) /\ UNCHANGED post /\ members' = members \ {<<u, h>>}
      BY <2>4 DEF RemoveMember
    <3>2. \A r \in Users \X Groups : r # <<u, h>> => changes'[r] = changes[r]
      BY <3>1, ChangedGrows
    <3> QED
      BY <1>0, <1>4, <3>1, <3>2 DEF First
  <2>5. ASSUME UNCHANGED changes, members' \subseteq members PROVE FALSE
    BY <1>4, <2>5 DEF First
  <2>6. ASSUME NEW h \in Groups, DeleteGroup(h) PROVE FALSE
    BY <2>5, <2>6 DEF DeleteGroup
  <2>7. ASSUME NEW m \in Messages, CheckMembership(m) \/ StoreMessage(m) PROVE FALSE
    BY <2>5, <2>7 DEF CheckMembership, StoreMessage
  <2>8. JoinEvent(Owner[s], g, 1) \in tasks'
    BY <2>2, <2>3, <2>4, <2>6, <2>7 DEF Request
  <2> QED
    BY <2>8 DEF Due, OnItsWay
<1> QED
  BY <1>3, <1>4

\* A JOIN that is published reaches every informed socket's worker, and one
\* that is lost leaves no socket of its user informed.
LEMMA TaskRouted ==
    ASSUME FanoutTypeOK, Informed, RoutedInv, NEW e \in tasks, RunTask(e) \/ LoseTask(e)
    PROVE  RoutedInv'
<1> SUFFICES ASSUME NEW s \in Sockets \ uninformed', NEW g \in Groups, First(Owner[s], g)'
             PROVE  Due(s, g)'
  BY DEF RoutedInv
<1>0. InboxType /\ e \in Events /\ Home[s] \in Workers
  BY SocketsAssumption DEF FanoutTypeOK, InboxType
<1>1. /\ UNCHANGED <<pc, loaded, group_connections, members, changes>>
      /\ tasks' = tasks \ {e} /\ s \in Sockets \ uninformed
      /\ Publish(e) \/ UNCHANGED inbox
  BY DEF RunTask, LoseTask
<1>2. Due(s, g)
  BY <1>1 DEF RoutedInv, First
<1>3. Pending(Home[s]) \subseteq Pending(Home[s])'
  <2>1. CASE Publish(e)
    BY <1>0, <2>1, PublishPending
  <2>2. CASE UNCHANGED inbox
    BY <2>2 DEF Pending
  <2> QED
    BY <1>1, <2>1, <2>2
<1>4. ASSUME pc[s] \in {"open", "merge"}, OnItsWay(s, g) PROVE OnItsWay(s, g)'
  <2>1. CASE e # JoinEvent(Owner[s], g, 1)
    BY <1>1, <1>3, <1>4, <2>1 DEF OnItsWay
  <2>2. CASE e = JoinEvent(Owner[s], g, 1)
    <3>1. CASE RunTask(e)
      <4>1. Publish(e) /\ Home[s] \in subscribed
        BY <1>1, <1>4, <3>1 DEF RunTask, Informed, Alive
      <4>2. e \in Pending(Home[s])'
        BY <1>0, <4>1, PublishPending
      <4> QED
        BY <2>2, <4>2 DEF OnItsWay
    <3>2. CASE LoseTask(e)
      <4>1. s \in Concerned(e)
        BY <1>4, <2>2 DEF Concerned, JoinEvent
      <4> QED
        BY <3>2, <4>1 DEF LoseTask
    <3> QED
      BY <3>1, <3>2
  <2> QED
    BY <2>1, <2>2
<1>5. Routed(s, g) => Routed(s, g)'
  BY <1>1 DEF Routed
<1> QED
  BY <1>1, <1>2, <1>4, <1>5, DueFrame

\* A JOIN that is dispatched is applied for a socket that is registered, and
\* no LEAVE is dispatched for a member who has never been removed.
LEMMA DispatchRouted ==
    ASSUME TypeOK, FanoutTypeOK, Registered, SettledInv, RoutedInv, NEW w \in Workers, Dispatch(w)
    PROVE  RoutedInv'
<1> SUFFICES ASSUME NEW s \in Sockets \ uninformed', NEW g \in Groups, First(Owner[s], g)'
             PROVE  Due(s, g)'
  BY DEF RoutedInv
<1>0. InboxType /\ Home[s] \in Workers /\ Owner[s] \in Users
  BY SocketsAssumption DEF FanoutTypeOK, InboxType
<1>1. /\ inbox[w] # <<>> /\ Consume(w) /\ UNCHANGED <<pc, loaded>>
  BY Zenon DEF Dispatch, DispatchJoin, DispatchLeave, DispatchDeleted, DispatchMessage,
               Received, HandleJoin, HandleLeave, GroupDeletedBegin
<1>2. /\ UNCHANGED <<changes, members, tasks, uninformed>>
      /\ Head(inbox[w]) \in Pending(w)
      /\ \A v \in Workers : v # w => Pending(v)' = Pending(v)
      /\ \A e \in Pending(w) : e # Head(inbox[w]) => e \in Pending(w)'
  BY <1>0, <1>1, ConsumePending DEF Consume
<1>3. First(Owner[s], g) /\ Due(s, g)
  BY <1>2 DEF First, RoutedInv
<1>4. OnItsWay(s, g) =>
          OnItsWay(s, g)' \/ (Home[s] = w /\ Head(inbox[w]) = JoinEvent(Owner[s], g, 1))
  BY <1>0, <1>2 DEF OnItsWay
<1>5. ASSUME group_connections' = group_connections,
             Head(inbox[w]) # JoinEvent(Owner[s], g, 1)
      PROVE  Due(s, g)'
  <2>1. Routed(s, g) => Routed(s, g)'
    BY <1>5 DEF Routed
  <2> QED
    BY <1>1, <1>3, <1>4, <1>5, <2>1, DueFrame
<1>6. ASSUME NEW u \in Users, NEW h \in Groups, NEW n, DispatchJoin(w, u, h, n)
      PROVE  Due(s, g)'
  <2>1. Head(inbox[w]) = JoinEvent(u, h, n) /\ HandleJoin(w, u, h)
    BY <1>6, Zenon DEF DispatchJoin, Received
  <2>2. /\ \A v \in Workers : group_connections[v] \subseteq group_connections'[v]
        /\ IsConnected(w, u) => <<u, h>> \in group_connections'[w]
    BY <2>1 DEF HandleJoin, AddRoutes, TypeOK
  <2>3. Routed(s, g) => Routed(s, g)'
    BY <1>0, <2>2 DEF Routed
  <2>4. ASSUME pc[s] \in {"open", "merge"}, Home[s] = w, Head(inbox[w]) = JoinEvent(Owner[s], g, 1)
        PROVE  Routed(s, g)'
    <3>1. u = Owner[s] /\ h = g
      BY <2>1, <2>4 DEF JoinEvent
    <3>2. IsConnected(w, u)
      BY <2>4, <3>1 DEF IsConnected, Registered, Alive
    <3> QED
      BY <2>2, <2>4, <3>1, <3>2 DEF Routed
  <2> QED
    BY <1>1, <1>3, <1>4, <2>3, <2>4, DueFrame
<1>7. ASSUME NEW u \in Users, NEW h \in Groups, NEW n, DispatchLeave(w, u, h, n)
      PROVE  Due(s, g)'
  <2>1. Head(inbox[w]) = LeaveEvent(u, h, n) /\ HandleLeave(w, u, h)
    BY <1>7, Zenon DEF DispatchLeave, Received
  <2>2. Head(inbox[w]) # JoinEvent(Owner[s], g, 1)
    BY <2>1 DEF LeaveEvent, JoinEvent
  <2>3. changes[<<u, h>>] > 1
    BY <1>2, <2>1 DEF SettledInv, Settled, LeaveEvent
  <2>4. <<u, h>> # <<Owner[s], g>>
    BY <1>3, <2>3 DEF First
  <2>5. \A v \in Workers : \A r \in group_connections[v] :
            r # <<u, h>> => r \in group_connections'[v]
    BY <2>1 DEF HandleLeave, RemoveRoutes, TypeOK
  <2>6. Routed(s, g) => Routed(s, g)'
    BY <1>0, <2>4, <2>5 DEF Routed
  <2> QED
    BY <1>1, <1>3, <1>4, <2>2, <2>6, DueFrame
<1>8. ASSUME NEW h \in Groups, DispatchDeleted(w, h) PROVE Due(s, g)'
  <2>1. Head(inbox[w]) = DeletedEvent(h) /\ group_connections' = group_connections
    BY <1>8, Zenon DEF DispatchDeleted, Received, GroupDeletedBegin
  <2>2. DeletedEvent(h) # JoinEvent(Owner[s], g, 1)
    <3>1. DeletedEvent(h).event = "DELETED" /\ JoinEvent(Owner[s], g, 1).event = "JOIN"
      BY DEF DeletedEvent, JoinEvent
    <3> QED
      BY <3>1
  <2> QED
    BY <1>5, <2>1, <2>2
<1>9. ASSUME NEW m \in Messages, DispatchMessage(w, m) PROVE Due(s, g)'
  <2>1. Head(inbox[w]) = MessageEvent(m) /\ group_connections' = group_connections
    BY <1>9, Zenon DEF DispatchMessage, Received
  <2>2. MessageEvent(m) # JoinEvent(Owner[s], g, 1)
    <3>1. MessageEvent(m).event = "MESSAGE" /\ JoinEvent(Owner[s], g, 1).event = "JOIN"
      BY DEF MessageEvent, JoinEvent
    <3> QED
      BY <3>1
  <2> QED
    BY <1>5, <2>1, <2>2
<1> QED
  BY <1>6, <1>7, <1>8, <1>9 DEF Dispatch

\* The query, the merge and the clean-up of another socket of the same user.
LEMMA ServingRouted ==
    ASSUME TypeOK, FanoutTypeOK, Registered, RoutedInv, NEW t \in Sockets,
           CloseSocket(t) \/ Serving(t)
    PROVE  RoutedInv'
<1> SUFFICES ASSUME NEW s \in Sockets \ uninformed', NEW g \in Groups, First(Owner[s], g)'
             PROVE  Due(s, g)'
  BY DEF RoutedInv
<1>0. Home[s] \in Workers /\ Owner[s] \in Users /\ Home[t] \in Workers
  BY SocketsAssumption
<1>1. /\ UNCHANGED <<members, changes, tasks, inbox>> /\ uninformed \subseteq uninformed'
  BY DEF CloseSocket, Serving, HydrateGroups, HydrationFails, RegistryStep
<1>2. First(Owner[s], g) /\ Due(s, g) /\ (OnItsWay(s, g) <=> OnItsWay(s, g)')
  BY <1>1 DEF First, RoutedInv, OnItsWay, Pending
<1>3. ASSUME pc'[s] \in {"open", "merge"} => pc'[s] = pc[s] /\ loaded'[s] = loaded[s],
             Routed(s, g) => Routed(s, g)'
      PROVE  Due(s, g)'
  BY <1>2, <1>3, DueFrame
<1>4. Disconnect(t) \/ Serve(t)
  BY ServingStep, Zenon DEF CloseSocket
<1>5. s # t => pc'[s] = pc[s] /\ loaded'[s] = loaded[s]
  BY <1>4, ServeAlive
<1>6. CASE HydrateGroups(t)
  <2>1. /\ pc' = [pc EXCEPT ![t] = "merge"] /\ UNCHANGED group_connections
        /\ loaded' = [loaded EXCEPT ![t] = GroupsOf(Owner[t])]
    BY <1>6, Zenon DEF HydrateGroups, ListUserGroups, Goto
  <2>2. Routed(s, g) => Routed(s, g)'
    BY <2>1 DEF Routed
  <2>3. CASE s = t
    <3>1. g \in loaded'[s] /\ pc'[s] = "merge"
      BY <1>2, <2>1, <2>3 DEF GroupsOf, First, TypeOK
    <3> QED
      BY <3>1 DEF Due
  <2> QED
    BY <1>3, <1>5, <2>2, <2>3
<1>7. CASE HydrationFails(t)
  <2>1. /\ UNCHANGED group_connections /\ uninformed' = uninformed \cup {t}
    BY <1>7, Zenon DEF HydrationFails, ListUserGroupsFails
  <2>2. s # t /\ (Routed(s, g) => Routed(s, g)')
    BY <2>1 DEF Routed
  <2> QED
    BY <1>3, <1>5, <2>2
<1>8. CASE MergeGroups(t)
  <2>1. /\ pc[t] = "merge" /\ pc' = [pc EXCEPT ![t] = "open"]
        /\ AddRoutes(Home[t], IF t \in local_connections THEN {Owner[t]} \X loaded[t] ELSE {})
    BY <1>8, Zenon DEF MergeGroups, Goto
  <2>2. t \in local_connections
    BY <2>1 DEF Registered, Alive
  <2>3. /\ \A v \in Workers : group_connections[v] \subseteq group_connections'[v]
        /\ {Owner[t]} \X loaded[t] \subseteq group_connections'[Home[t]]
    BY <1>0, <2>1, <2>2 DEF AddRoutes, TypeOK
  <2>4. Routed(s, g) => Routed(s, g)'
    BY <1>0, <2>3 DEF Routed
  <2>5. CASE s = t
    <3>1. Routed(s, g) \/ OnItsWay(s, g) \/ g \in loaded[s]
      BY <1>2, <2>1, <2>5 DEF Due
    <3>2. g \in loaded[s] => Routed(s, g)'
      BY <2>3, <2>5 DEF Routed
    <3>3. pc'[s] = "open"
      BY <2>1, <2>5 DEF TypeOK
    <3> QED
      BY <1>2, <2>4, <3>1, <3>2, <3>3 DEF Due
  <2> QED
    BY <1>3, <1>5, <2>4, <2>5
<1>9. CASE UnregisterConnection(t)
  <2>1. /\ pc[t] = "closing" /\ local_connections' = local_connections \ {t}
        /\ pc' = [pc EXCEPT ![t] = "skipped"] \/ pc' = [pc EXCEPT ![t] = "decr"]
    BY <1>9, Zenon DEF UnregisterConnection, Goto
  <2>2. CASE s = t
    BY <2>1, <2>2 DEF Due, TypeOK
  <2>3. CASE s # t /\ pc[s] \notin {"open", "merge"}
    BY <1>5, <2>3 DEF Due
  <2>4. CASE s # t /\ pc[s] \in {"open", "merge"}
    <3>1. s \in local_connections'
      BY <2>1, <2>4 DEF Registered, Alive
    <3>2. CASE s \in Siblings(t)
      <4>1. UNCHANGED group_connections
        BY <1>9, <3>1, <3>2, Zenon DEF UnregisterConnection
      <4> QED
        BY <1>3, <1>5, <2>4, <4>1 DEF Routed
    <3>3. CASE s \notin Siblings(t)
      <4>1. Home[s] # Home[t] \/ Owner[s] # Owner[t]
        BY <3>3 DEF Siblings
      <4>2. PICK routes : /\ \A r \in routes : r \in RoutesOfUser(Owner[t])
                          /\ \/ UNCHANGED group_connections
                             \/ group_connections' =
                                    [group_connections EXCEPT ![Home[t]] = @ \ routes]
        <5>1. \/ UNCHANGED group_connections
              \/ group_connections' = [group_connections EXCEPT ![Home[t]] =
                     @ \ (user_groups[Home[t]] \cap RoutesOfUser(Owner[t]))]
          BY <1>9, Zenon DEF UnregisterConnection, RemoveRoutes
        <5> QED
          BY <5>1
      <4>3. <<Owner[s], g>> \in routes => Owner[s] = Owner[t]
        BY <4>2 DEF RoutesOfUser
      <4>4. Routed(s, g) => Routed(s, g)'
        BY <1>0, <4>1, <4>2, <4>3 DEF Routed, TypeOK
      <4> QED
        BY <1>3, <1>5, <2>4, <4>4
    <3> QED
      BY <3>2, <3>3
  <2> QED
    BY <2>2, <2>3, <2>4
<1>10. CASE \/ CloseSocket(t) \/ AddActiveUser(t) \/ AddActiveUserFails(t)
            \/ RemoveActiveUser(t) \/ DeleteActiveUser(t) \/ RemoveActiveUserFails(t)
  <2>1. /\ UNCHANGED group_connections
        /\ \E p \in {"closing", "load", "dead", "hdel", "closed", "lost"} : Goto(t, p)
    BY <1>10 DEF CloseSocket, Disconnect, AddActiveUser, AddActiveUserFails, RemoveActiveUser,
                 DeleteActiveUser, RemoveActiveUserFails
  <2>2. s = t => pc'[s] \notin {"open", "merge"}
    BY <2>1 DEF Goto, TypeOK
  <2>3. Routed(s, g) => Routed(s, g)'
    BY <2>1 DEF Routed
  <2> QED
    BY <1>3, <1>5, <2>2, <2>3
<1> QED
  BY <1>6, <1>7, <1>8, <1>9, <1>10, Zenon DEF Serving, RegistryStep

\* Every step of the cluster keeps members routed, or their JOIN on its way.
LEMMA RoutedStep ==
    ASSUME TypeOK, FanoutTypeOK, Registered, Informed, SettledInv, RoutedInv,
           [FanoutNext]_allVars
    PROVE  RoutedInv'
<1>0. InboxType
  BY DEF FanoutTypeOK, InboxType
<1>1. ASSUME UNCHANGED <<members, changes, tasks, inbox, group_connections, pc, loaded, uninformed>>
      PROVE  RoutedInv'
  BY <1>1 DEF RoutedInv, First, Due, Routed, OnItsWay, Pending
<1>2. ASSUME NEW w \in Workers, Subscribe(w) PROVE RoutedInv'
  BY <1>1, <1>2 DEF Subscribe
<1>3. UNCHANGED allVars => RoutedInv'
  BY <1>1
<1>4. ASSUME NEW w \in Workers, Unsubscribe(w) PROVE RoutedInv'
  <2> SUFFICES ASSUME NEW s \in Sockets \ uninformed', NEW g \in Groups, First(Owner[s], g)'
               PROVE  Due(s, g)'
    BY DEF RoutedInv
  <2>1. /\ UNCHANGED <<members, changes, tasks, group_connections, pc, loaded>>
        /\ inbox' = [inbox EXCEPT ![w] = <<>>]
        /\ uninformed' = uninformed \cup {t \in local_connections : Home[t] = w}
    BY <1>4 DEF Unsubscribe
  <2>2. Due(s, g) /\ Home[s] \in Workers
    BY <2>1, SocketsAssumption DEF RoutedInv, First
  <2>3. pc[s] \in {"open", "merge"} => Home[s] # w
    BY <2>1 DEF Registered, Alive
  <2>4. pc[s] \in {"open", "merge"} => Pending(Home[s])' = Pending(Home[s])
    BY <1>0, <2>1, <2>2, <2>3, ClearPending
  <2>5. /\ pc[s] \in {"open", "merge"} /\ OnItsWay(s, g) => OnItsWay(s, g)'
        /\ Routed(s, g) => Routed(s, g)'
    BY <2>1, <2>4 DEF OnItsWay, Routed
  <2> QED
    BY <2>1, <2>2, <2>5, DueFrame
<1>5. ASSUME NEW w \in Workers, CrashWorker(w) PROVE RoutedInv'
  <2> SUFFICES ASSUME NEW s \in Sockets \ uninformed', NEW g \in Groups, First(Owner[s], g)'
               PROVE  Due(s, g)'
    BY DEF RoutedInv
  <2>1. /\ UNCHANGED <<members, changes, tasks, uninformed>>
        /\ inbox' = [inbox EXCEPT ![w] = <<>>] /\ Crash(w)
    BY <1>5 DEF CrashWorker
  <2>2. Due(s, g) /\ Home[s] \in Workers
    BY <2>1, SocketsAssumption DEF RoutedInv, First
  <2>3. /\ Home[s] = w => pc'[s] \notin {"open", "merge"}
        /\ Home[s] # w => pc'[s] = pc[s] /\ loaded'[s] = loaded[s]
    BY <2>1 DEF Crash
  <2>4. Home[s] # w => group_connections'[Home[s]] = group_connections[Home[s]]
    BY <2>1, <2>2 DEF Crash, TypeOK
  <2>5. Home[s] # w => Pending(Home[s])' = Pending(Home[s])
    BY <1>0, <2>1, <2>2, ClearPending
  <2>6. CASE Home[s] = w
    BY <2>3, <2>6 DEF Due
  <2>7. CASE Home[s] # w
    <3>1. (OnItsWay(s, g) => OnItsWay(s, g)') /\ (Routed(s, g) => Routed(s, g)')
      BY <2>1, <2>4, <2>5, <2>7 DEF OnItsWay, Routed
    <3> QED
      BY <2>2, <2>3, <2>7, <3>1, DueFrame
  <2> QED
    BY <2>6, <2>7
<1>6. ASSUME NEW w \in Workers, NEW h \in Groups, FinishPurge(w, h) PROVE RoutedInv'
  <2> SUFFICES ASSUME NEW s \in Sockets \ uninformed', NEW g \in Groups, First(Owner[s], g)'
               PROVE  Due(s, g)'
    BY DEF RoutedInv
  <2>1. /\ UNCHANGED <<members, changes, tasks, inbox, pc, loaded, uninformed>>
        /\ purging[w][h] # {}
        /\ group_connections' = [group_connections EXCEPT ![w] = @ \ RoutesOfGroup(h)]
    BY <1>6, Zenon DEF FinishPurge, GroupDeletedEnd
  <2>2. First(Owner[s], g) /\ Due(s, g) /\ Home[s] \in Workers
    BY <2>1, SocketsAssumption DEF RoutedInv, First
  <2>3. grp[g] = "live" /\ grp[h] = "gone"
    BY <2>1, <2>2 DEF SettledInv, First, FanoutTypeOK
  <2>4. <<Owner[s], g>> \notin RoutesOfGroup(h)
    BY <2>3 DEF RoutesOfGroup
  <2>5. (OnItsWay(s, g) => OnItsWay(s, g)') /\ (Routed(s, g) => Routed(s, g)')
    BY <2>1, <2>2, <2>4 DEF OnItsWay, Routed, Pending, TypeOK
  <2> QED
    BY <2>1, <2>2, <2>5, DueFrame
<1>7. ASSUME NEW t \in Sockets, AcceptSocket(t) PROVE RoutedInv'
  <2> SUFFICES ASSUME NEW s \in Sockets \ uninformed', NEW g \in Groups, First(Owner[s], g)'
               PROVE  Due(s, g)'
    BY DEF RoutedInv
  <2>1. /\ UNCHANGED <<members, changes, tasks, inbox, group_connections, loaded>>
        /\ pc' = [pc EXCEPT ![t] = "incr"] /\ uninformed \subseteq uninformed'
    BY <1>7 DEF AcceptSocket, RegisterConnection, Goto
  <2>2. Due(s, g)
    BY <2>1 DEF RoutedInv, First
  <2>3. pc'[s] \in {"open", "merge"} => pc'[s] = pc[s] /\ loaded'[s] = loaded[s]
    BY <2>1 DEF TypeOK
  <2>4. (OnItsWay(s, g) => OnItsWay(s, g)') /\ (Routed(s, g) => Routed(s, g)')
    BY <2>1 DEF OnItsWay, Routed, Pending
  <2> QED
    BY <2>2, <2>3, <2>4, DueFrame
<1> QED
  BY <1>2, <1>3, <1>4, <1>5, <1>6, <1>7, RequestRouted, TaskRouted, DispatchRouted, ServingRouted
     DEF FanoutNext

\* Why register_connection may query without a lock: a membership that its
\* query misses is announced by a JOIN that is published later, and the worker
\* is subscribed by then; so a member who was never removed is routed on every
\* worker with an open, informed socket, or the JOIN is still on its way.
THEOREM RoutedSafe == FanoutSpec => []MembersAreRouted
<1>1. FanoutInit => MembersInv /\ Informed /\ SettledInv /\ RoutedInv
  <2> SUFFICES ASSUME FanoutInit PROVE MembersInv /\ Informed /\ SettledInv /\ RoutedInv
    OBVIOUS
  <2>1. MembersInv
    BY DEF FanoutInit, Init, MembersInv, Pending
  <2>2. Informed /\ RoutedInv
    BY DEF FanoutInit, Init, Informed, RoutedInv, First, Alive
  <2>3. SettledInv
    BY DEF FanoutInit, Init, SettledInv, Pending
  <2> QED
    BY <2>1, <2>2, <2>3
<1>2. FanoutSpec => []Registered
  BY RegistryImplemented, RegisteredSafe, PTL
<1>3. FanoutTypeOK /\ RoutedInv => MembersAreRouted
  <2> SUFFICES ASSUME FanoutTypeOK, RoutedInv, NEW s \in Sockets \ uninformed, NEW g \in Groups,
                      pc[s] = "open", <<Owner[s], g>> \in members, changes[<<Owner[s], g>>] = 1
               PROVE  \/ <<Owner[s], g>> \in group_connections[Home[s]]
                      \/ JoinEvent(Owner[s], g, 1) \in tasks
                      \/ InInbox(Home[s], JoinEvent(Owner[s], g, 1))
    BY DEF MembersAreRouted
  <2>1. Routed(s, g) \/ OnItsWay(s, g)
    BY DEF RoutedInv, First, Due
  <2>2. Home[s] \in Workers /\ inbox[Home[s]] \in Seq(Events)
    BY SocketsAssumption DEF FanoutTypeOK
  <2>3. DOMAIN inbox[Home[s]] = 1..Len(inbox[Home[s]])
    BY <2>2
  <2> QED
    BY <2>1, <2>3 DEF Routed, OnItsWay, Pending, InInbox
<1> QED
  BY <1>1, <1>2, <1>3, MembersStep, InformedStep, SettledStep, RoutedStep, FanoutTypes,
     ClusterTypeCorrect, PTL DEF FanoutSpec
=============================================================================
