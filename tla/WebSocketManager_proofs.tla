----------------------- MODULE WebSocketManager_proofs -----------------------
(***************************************************************************)
(* Proofs about WebSocketManager, for every cluster, every set of sockets  *)
(* and every combination of faults.                                        *)
(***************************************************************************)
EXTENDS WebSocketManager, FiniteSetTheorems, TLAPS

USE DEF registries, presence, vars

-----------------------------------------------------------------------------
(* Type correctness *)

\* Every handler of the connection registry and of the presence hash keeps
\* every structure in its type, and a missing hash field without a value.
THEOREM TypeCorrect == Spec => []TypeOK
<1>1. Init => TypeOK
  BY SocketsAssumption DEF Init, TypeOK, SocketStates
<1>2. TypeOK /\ [Next]_vars => TypeOK'
  <2> SUFFICES ASSUME TypeOK, [Next]_vars PROVE TypeOK'
    OBVIOUS
  <2> USE SocketsAssumption DEF TypeOK, Goto, SocketStates
  <2>1. ASSUME NEW s \in Sockets, RegisterConnection(s) PROVE TypeOK'
    BY <2>1 DEF RegisterConnection
  <2>2. ASSUME NEW s \in Sockets, Disconnect(s) PROVE TypeOK'
    BY <2>2 DEF Disconnect
  <2>3. ASSUME NEW s \in Sockets, AddActiveUser(s) PROVE TypeOK'
    BY <2>3 DEF AddActiveUser, HIncrBy
  <2>4. ASSUME NEW s \in Sockets, AddActiveUserFails(s) PROVE TypeOK'
    BY <2>4 DEF AddActiveUserFails, HIncrBy
  <2>5. ASSUME NEW s \in Sockets, NEW gs \in SUBSET Groups, ListUserGroups(s, gs)
        PROVE  TypeOK'
    BY <2>5 DEF ListUserGroups
  <2>6. ASSUME NEW s \in Sockets, ListUserGroupsFails(s) PROVE TypeOK'
    BY <2>6 DEF ListUserGroupsFails
  <2>7. ASSUME NEW s \in Sockets, MergeGroups(s) PROVE TypeOK'
    BY <2>7 DEF MergeGroups, AddRoutes
  <2>8. ASSUME NEW s \in Sockets, UnregisterConnection(s) PROVE TypeOK'
    <3>1. /\ local_connections' \subseteq Sockets
          /\ user_groups' \in [Workers -> SUBSET (Users \X Groups)]
          /\ group_connections' \in [Workers -> SUBSET (Users \X Groups)]
      <4>1. PICK routes :
               \/ UNCHANGED <<group_connections, user_groups>>
               \/ /\ user_groups' = [user_groups EXCEPT ![Home[s]] = @ \ routes]
                  /\ group_connections' = [group_connections EXCEPT ![Home[s]] = @ \ routes]
        BY <2>8, Zenon DEF UnregisterConnection, RemoveRoutes
      <4>2. local_connections' \subseteq Sockets
        BY <2>8 DEF UnregisterConnection
      <4>3. CASE UNCHANGED <<group_connections, user_groups>>
        BY <4>2, <4>3
      <4>4. CASE /\ user_groups' = [user_groups EXCEPT ![Home[s]] = @ \ routes]
                 /\ group_connections' = [group_connections EXCEPT ![Home[s]] = @ \ routes]
        <5>1. user_groups' \in [Workers -> SUBSET (Users \X Groups)]
          BY <4>4
        <5>2. group_connections' \in [Workers -> SUBSET (Users \X Groups)]
          BY <4>4
        <5> QED
          BY <4>2, <5>1, <5>2
      <4> QED
        BY <4>1, <4>3, <4>4
    <3>2. pc' \in [Sockets -> SocketStates]
      BY <2>8 DEF UnregisterConnection
    <3> QED
      BY <2>8, <3>1, <3>2 DEF UnregisterConnection
  <2>9. ASSUME NEW s \in Sockets, RemoveActiveUser(s) PROVE TypeOK'
    BY <2>9 DEF RemoveActiveUser, HIncrBy
  <2>10. ASSUME NEW s \in Sockets, DeleteActiveUser(s) PROVE TypeOK'
    BY <2>10 DEF DeleteActiveUser, HDel
  <2>11. ASSUME NEW s \in Sockets, RemoveActiveUserFails(s) PROVE TypeOK'
    <3>1. pc' \in [Sockets -> SocketStates]
      BY <2>11 DEF RemoveActiveUserFails
    <3>2. CASE HIncrBy(Owner[s], -1)
      BY <2>11, <3>1, <3>2 DEF RemoveActiveUserFails, HIncrBy
    <3>3. CASE HDel(Owner[s])
      BY <2>11, <3>1, <3>3 DEF RemoveActiveUserFails, HDel
    <3>4. CASE UNCHANGED presence
      BY <2>11, <3>1, <3>4 DEF RemoveActiveUserFails
    <3> QED
      BY <2>11, <3>2, <3>3, <3>4 DEF RemoveActiveUserFails
  <2>12. ASSUME NEW w \in Workers, NEW g \in Groups, NEW u \in Users,
                HandleJoin(w, u, g) \/ HandleLeave(w, u, g)
         PROVE  TypeOK'
    <3>1. CASE HandleJoin(w, u, g)
      BY <3>1 DEF HandleJoin, AddRoutes
    <3>2. CASE HandleLeave(w, u, g)
      BY <3>2 DEF HandleLeave, RemoveRoutes
    <3> QED
      BY <2>12, <3>1, <3>2
  <2>13. ASSUME NEW w \in Workers, NEW g \in Groups, GroupDeletedBegin(w, g)
         PROVE  TypeOK'
    BY <2>13 DEF GroupDeletedBegin, LocalMembers
  <2>14. ASSUME NEW w \in Workers, NEW g \in Groups, GroupDeletedEnd(w, g)
         PROVE  TypeOK'
    BY <2>14 DEF GroupDeletedEnd
  <2>15. ASSUME NEW w \in Workers, Crash(w) PROVE TypeOK'
    BY <2>15 DEF Crash
  <2>16. CASE UNCHANGED vars
    BY <2>16
  <2> QED
    BY <2>1, <2>2, <2>3, <2>4, <2>5, <2>6, <2>7, <2>8, <2>9, <2>10, <2>11,
       <2>12, <2>13, <2>14, <2>15, <2>16 DEF Next, Serve, Notify
<1> QED
  BY <1>1, <1>2, PTL DEF Spec

-----------------------------------------------------------------------------
(* Routing *)

RoutingInv == RoutingIndexed /\ RoutesHaveSockets

\* A step that leaves the three registries alone keeps the routing invariant.
LEMMA RoutingFrame ==
    ASSUME RoutingInv, UNCHANGED registries PROVE RoutingInv'
BY DEF RoutingInv, RoutingIndexed, RoutesHaveSockets, IsConnected

\* However membership events, group deletions, registrations and the cleanup of
\* sockets interleave, both routing tables of a worker agree and hold no route
\* of a user without a socket there.  The two halves need each other:
\* unregister_connection removes from _group_connections only what
\* _user_groups knows.
LEMMA RoutingSafe == Spec => [](RoutingIndexed /\ RoutesHaveSockets)
<1>1. Init => RoutingInv
  BY DEF Init, RoutingInv, RoutingIndexed, RoutesHaveSockets
<1>2. TypeOK /\ RoutingInv /\ [Next]_vars => RoutingInv'
  <2> SUFFICES ASSUME TypeOK, RoutingInv, [Next]_vars PROVE RoutingInv'
    OBVIOUS
  <2> USE SocketsAssumption DEF TypeOK, RoutingInv, RoutingIndexed,
                                RoutesHaveSockets, IsConnected
  <2>1. ASSUME NEW s \in Sockets, RegisterConnection(s) PROVE RoutingInv'
    BY <2>1 DEF RegisterConnection
  <2>2. ASSUME NEW s \in Sockets, MergeGroups(s) PROVE RoutingInv'
    BY <2>2 DEF MergeGroups, AddRoutes
  <2>3. ASSUME NEW s \in Sockets, UnregisterConnection(s) PROVE RoutingInv'
    <3> DEFINE w == Home[s]
               u == Owner[s]
    <3>1. local_connections' = local_connections \ {s}
      BY <2>3 DEF UnregisterConnection
    <3>2. CASE Siblings(s) \cap local_connections' # {}
      <4>1. UNCHANGED <<group_connections, user_groups>>
        BY <2>3, <3>2 DEF UnregisterConnection
      <4>2. IsConnected(w, u)'
        BY <3>1, <3>2 DEF Siblings
      <4>3. ASSUME NEW v \in Workers, NEW x, IsConnected(v, x)
            PROVE  IsConnected(v, x)'
        BY <3>1, <4>2, <4>3
      <4>4. RoutingIndexed'
        BY <4>1
      <4>5. ASSUME NEW v \in Workers, NEW r \in (group_connections[v] \cup user_groups[v])'
            PROVE  IsConnected(v, r[1])'
        <5>1. IsConnected(v, r[1])
          BY <4>1, <4>5
        <5> QED
          BY <4>3, <5>1
      <4> QED
        BY <4>4, <4>5
    <3>3. CASE Siblings(s) \cap local_connections' = {}
      <4> DEFINE routes == user_groups[w] \cap RoutesOfUser(u)
      <4>1. /\ user_groups' = [user_groups EXCEPT ![w] = @ \ routes]
            /\ group_connections' = [group_connections EXCEPT ![w] = @ \ routes]
        BY <2>3, <3>3 DEF UnregisterConnection, RemoveRoutes
      <4>2. RoutingIndexed'
        BY <4>1
      <4>3. ASSUME NEW v \in Workers, NEW r \in user_groups'[v]
            PROVE  IsConnected(v, r[1])'
        <5>1. r \in user_groups[v] /\ (v = w => r \notin routes)
          BY <4>1, <4>3
        <5>2. r \in Users \X Groups
          BY <5>1
        <5>3. v # w \/ r[1] # u
          BY <5>1, <5>2 DEF RoutesOfUser
        <5>4. PICK t \in local_connections : Home[t] = v /\ Owner[t] = r[1]
          BY <5>1
        <5>5. t # s
          BY <5>3, <5>4
        <5> QED
          BY <3>1, <5>4, <5>5
      <4> QED
        BY <4>2, <4>3
    <3> QED
      BY <3>2, <3>3
  <2>4. ASSUME NEW w \in Workers, NEW g \in Groups, NEW u \in Users,
               HandleJoin(w, u, g)
        PROVE  RoutingInv'
    BY <2>4 DEF HandleJoin, AddRoutes
  <2>5. ASSUME NEW w \in Workers, NEW g \in Groups, NEW u \in Users,
               HandleLeave(w, u, g)
        PROVE  RoutingInv'
    BY <2>5 DEF HandleLeave, RemoveRoutes
  <2>6. ASSUME NEW w \in Workers, NEW g \in Groups, GroupDeletedBegin(w, g)
        PROVE  RoutingInv'
    BY <2>6 DEF GroupDeletedBegin
  <2>7. ASSUME NEW w \in Workers, NEW g \in Groups, GroupDeletedEnd(w, g)
        PROVE  RoutingInv'
    BY <2>7 DEF GroupDeletedEnd, RoutesOfGroup
  <2>8. ASSUME NEW w \in Workers, Crash(w) PROVE RoutingInv'
    <3>1. /\ local_connections' = {s \in local_connections : Home[s] # w}
          /\ group_connections' = [group_connections EXCEPT ![w] = {}]
          /\ user_groups' = [user_groups EXCEPT ![w] = {}]
      BY <2>8 DEF Crash
    <3> QED
      BY <3>1
  <2>9. ASSUME NEW s \in Sockets, Disconnect(s) PROVE RoutingInv'
    BY <2>9, RoutingFrame DEF Disconnect
  <2>10. ASSUME NEW s \in Sockets, Serve(s), ~MergeGroups(s), ~UnregisterConnection(s)
         PROVE  RoutingInv'
    BY <2>10, RoutingFrame
       DEF Serve, AddActiveUser, AddActiveUserFails, ListUserGroups,
           ListUserGroupsFails, RemoveActiveUser, DeleteActiveUser,
           RemoveActiveUserFails
  <2>11. CASE UNCHANGED vars
    BY <2>11, RoutingFrame
  <2> QED
    BY <2>1, <2>2, <2>3, <2>4, <2>5, <2>6, <2>7, <2>8, <2>9, <2>10, <2>11
       DEF Next, Notify
<1> QED
  BY <1>1, <1>2, TypeCorrect, PTL DEF Spec, RoutingInv

\* Every route of _group_connections is in _user_groups too, over suspended
\* group deletions: unregister_connection finds all it has to remove.
THEOREM IndexSafe == Spec => []RoutingIndexed
BY RoutingSafe, PTL

\* No interleaving of joins, merges and clean-ups leaves a route of a user
\* without a socket on the worker.
THEOREM RoutesSafe == Spec => []RoutesHaveSockets
BY RoutingSafe, PTL

-----------------------------------------------------------------------------
(* Presence *)

\* Cardinalities of sets of sockets.
LEMMA SubsetCard ==
    ASSUME NEW S \in SUBSET Sockets, NEW T \in SUBSET Sockets, S \subseteq T
    PROVE  /\ Cardinality(S) \in Nat
           /\ Cardinality(T) \in Nat
           /\ Cardinality(S) <= Cardinality(T)
BY SocketsAssumption, FS_Subset, FS_CardinalityType

\* One more socket.
LEMMA AddCard ==
    ASSUME NEW S \in SUBSET Sockets, NEW s \in Sockets, s \notin S
    PROVE  Cardinality(S \cup {s}) = Cardinality(S) + 1
BY SocketsAssumption, FS_Subset, FS_AddElement

\* One socket less.
LEMMA RemoveCard ==
    ASSUME NEW S \in SUBSET Sockets, NEW s \in S
    PROVE  Cardinality(S \ {s}) = Cardinality(S) - 1
BY SocketsAssumption, FS_Subset, FS_RemoveElement

\* A step that takes no socket out of Counted and raises no count, other than
\* to zero, keeps the bound.
LEMMA OvercountFrame ==
    ASSUME TypeOK, NeverOvercounts,
           \A u \in Users : /\ Counted(u) \subseteq Counted(u)'
                            /\ counts'[u] = 0 \/ counts'[u] <= counts[u]
                            /\ counts'[u] \in Int
    PROVE  NeverOvercounts'
<1> SUFFICES ASSUME NEW u \in Users PROVE counts'[u] <= Cardinality(Counted(u)')
  BY DEF NeverOvercounts
<1>1. Counted(u) \in SUBSET Sockets /\ Counted(u)' \in SUBSET Sockets
  BY DEF Counted
<1>2. /\ Cardinality(Counted(u)) \in Nat
      /\ Cardinality(Counted(u)') \in Nat
      /\ Cardinality(Counted(u)) <= Cardinality(Counted(u)')
  BY <1>1, SubsetCard
<1>3. counts[u] \in Int /\ counts[u] <= Cardinality(Counted(u))
  BY DEF TypeOK, NeverOvercounts
<1> QED
  BY <1>2, <1>3

\* A successful or an unacknowledged HINCRBY +1 of a socket that joins Counted.
LEMMA OvercountAdd ==
    ASSUME TypeOK, NeverOvercounts, NEW s \in Sockets, pc[s] = "incr",
           HIncrBy(Owner[s], 1) \/ UNCHANGED presence,
           Goto(s, "load") \/ Goto(s, "dead")
    PROVE  NeverOvercounts'
<1> SUFFICES ASSUME NEW u \in Users PROVE counts'[u] <= Cardinality(Counted(u)')
  BY DEF NeverOvercounts
<1>1. Counted(u) \in SUBSET Sockets /\ Counted(u)' \in SUBSET Sockets
  BY DEF Counted
<1>2. counts[u] \in Int /\ counts[u] <= Cardinality(Counted(u))
  BY DEF TypeOK, NeverOvercounts
<1>3. CASE u = Owner[s]
  <2>1. Counted(u)' = Counted(u) \cup {s} /\ s \notin Counted(u)
    BY <1>3 DEF Counted, Goto, TypeOK
  <2>2. Cardinality(Counted(u)') = Cardinality(Counted(u)) + 1
    BY <2>1, <1>1, AddCard
  <2>3. counts'[u] = counts[u] + 1 \/ counts'[u] = counts[u]
    BY <1>3 DEF HIncrBy, TypeOK
  <2> QED
    BY <1>1, <1>2, <2>2, <2>3, SubsetCard
<1>4. CASE u # Owner[s]
  <2>1. Counted(u)' = Counted(u)
    BY <1>4 DEF Counted, Goto, TypeOK
  <2>2. counts'[u] = counts[u]
    BY <1>4 DEF HIncrBy, TypeOK
  <2> QED
    BY <1>2, <2>1, <2>2
<1> QED
  BY <1>3, <1>4

\* The HINCRBY -1 of a socket that leaves Counted.
LEMMA OvercountRemove ==
    ASSUME TypeOK, NeverOvercounts, NEW s \in Sockets, RemoveActiveUser(s)
    PROVE  NeverOvercounts'
<1> SUFFICES ASSUME NEW u \in Users PROVE counts'[u] <= Cardinality(Counted(u)')
  BY DEF NeverOvercounts
<1>1. Counted(u) \in SUBSET Sockets /\ Counted(u)' \in SUBSET Sockets
  BY DEF Counted
<1>2. counts[u] \in Int /\ counts[u] <= Cardinality(Counted(u))
  BY DEF TypeOK, NeverOvercounts
<1>3. pc[s] = "decr" /\ (Goto(s, "hdel") \/ Goto(s, "closed"))
  BY DEF RemoveActiveUser
<1>4. CASE u = Owner[s]
  <2>1. Counted(u)' = Counted(u) \ {s} /\ s \in Counted(u)
    BY <1>3, <1>4 DEF Counted, Goto, TypeOK
  <2>2. Cardinality(Counted(u)') = Cardinality(Counted(u)) - 1
    BY <2>1, <1>1, RemoveCard
  <2>3. counts'[u] = counts[u] - 1
    BY <1>4 DEF RemoveActiveUser, HIncrBy, TypeOK
  <2> QED
    BY <1>1, <1>2, <2>2, <2>3, SubsetCard
<1>5. CASE u # Owner[s]
  <2>1. Counted(u)' = Counted(u)
    BY <1>3, <1>5 DEF Counted, Goto, TypeOK
  <2>2. counts'[u] = counts[u]
    BY <1>5 DEF RemoveActiveUser, HIncrBy, TypeOK
  <2> QED
    BY <1>2, <2>1, <2>2
<1> QED
  BY <1>4, <1>5

PresenceInv == ZeroHasCleaner /\ NeverOvercounts

\* A step that moves sockets around without touching Redis and loses neither a
\* cleaner nor a counted socket.
LEMMA PresenceFrame ==
    ASSUME TypeOK, PresenceInv, UNCHANGED presence,
           \A s \in Sockets :
             \/ pc'[s] = pc[s]
             \/ pc'[s] = "lost"
             \/ pc[s] = "new" /\ pc'[s] = "incr"
             \/ /\ pc[s] \in {"load", "merge", "open", "closing"}
                /\ pc'[s] \in {"merge", "open", "closing", "decr", "skipped"}
    PROVE  PresenceInv'
<1>1. ZeroHasCleaner'
  BY DEF PresenceInv, ZeroHasCleaner
<1>2. \A u \in Users : Counted(u) \subseteq Counted(u)'
  BY DEF Counted
<1>3. \A u \in Users : counts'[u] <= counts[u] /\ counts'[u] \in Int
  BY DEF TypeOK
<1> QED
  BY <1>1, <1>2, <1>3, OvercountFrame DEF PresenceInv

\* A field at zero or below always has a coroutine that will delete it, or one
\* that a fault stopped; and the count never exceeds the increments still owed
\* a decrement.  This holds although the HDEL of remove_active_user is a
\* round trip of its own that may wipe an increment made in between.
LEMMA PresenceInvariant == Spec => [](ZeroHasCleaner /\ NeverOvercounts)
<1>1. Init => PresenceInv
  <2> SUFFICES ASSUME Init PROVE PresenceInv
    OBVIOUS
  <2>1. \A u \in Users : Counted(u) \in SUBSET Sockets
    BY DEF Counted
  <2>2. \A u \in Users : Cardinality(Counted(u)) \in Nat
    BY <2>1, SubsetCard
  <2> QED
    BY <2>2 DEF Init, PresenceInv, ZeroHasCleaner, NeverOvercounts
<1>2. TypeOK /\ PresenceInv /\ [Next]_vars => PresenceInv'
  <2> SUFFICES ASSUME TypeOK, PresenceInv, [Next]_vars PROVE PresenceInv'
    OBVIOUS
  <2> USE SocketsAssumption
  <2>1. ASSUME NEW s \in Sockets, RegisterConnection(s) PROVE PresenceInv'
    BY <2>1, PresenceFrame DEF RegisterConnection, Goto, TypeOK
  <2>2. ASSUME NEW s \in Sockets, Disconnect(s) PROVE PresenceInv'
    BY <2>2, PresenceFrame DEF Disconnect, Goto, TypeOK
  <2>3. ASSUME NEW s \in Sockets, AddActiveUser(s) \/ AddActiveUserFails(s)
        PROVE  PresenceInv'
    <3>1. /\ pc[s] = "incr"
          /\ HIncrBy(Owner[s], 1) \/ UNCHANGED presence
          /\ Goto(s, "load") \/ Goto(s, "dead")
      BY <2>3 DEF AddActiveUser, AddActiveUserFails
    <3>2. NeverOvercounts'
      BY <3>1, OvercountAdd DEF PresenceInv
    <3>3. ASSUME NEW u \in listed', counts'[u] <= 0
          PROVE  \E t \in Sockets : Owner[t] = u /\ pc'[t] \in {"hdel", "lost"}
      <4>1. u \in listed /\ counts[u] <= 0
        BY <3>1, <3>3 DEF HIncrBy, TypeOK
      <4>2. PICK t \in Sockets : Owner[t] = u /\ pc[t] \in {"hdel", "lost"}
        BY <4>1 DEF PresenceInv, ZeroHasCleaner
      <4> QED
        BY <3>1, <4>2 DEF Goto, TypeOK
    <3> QED
      BY <3>2, <3>3 DEF PresenceInv, ZeroHasCleaner
  <2>4. ASSUME NEW s \in Sockets, NEW gs \in SUBSET Groups, ListUserGroups(s, gs)
        PROVE  PresenceInv'
    BY <2>4, PresenceFrame DEF ListUserGroups, Goto, TypeOK
  <2>5. ASSUME NEW s \in Sockets, ListUserGroupsFails(s) PROVE PresenceInv'
    BY <2>5, PresenceFrame DEF ListUserGroupsFails, Goto, TypeOK
  <2>6. ASSUME NEW s \in Sockets, MergeGroups(s) PROVE PresenceInv'
    BY <2>6, PresenceFrame DEF MergeGroups, Goto, TypeOK
  <2>7. ASSUME NEW s \in Sockets, UnregisterConnection(s) PROVE PresenceInv'
    <3>1. /\ pc[s] = "closing"
          /\ Goto(s, "skipped") \/ Goto(s, "decr")
          /\ UNCHANGED presence
      BY <2>7 DEF UnregisterConnection
    <3> QED
      BY <3>1, PresenceFrame DEF Goto, TypeOK
  <2>8. ASSUME NEW s \in Sockets, RemoveActiveUser(s) PROVE PresenceInv'
    <3>1. NeverOvercounts'
      BY <2>8, OvercountRemove DEF PresenceInv
    <3>2. ASSUME NEW u \in listed', counts'[u] <= 0
          PROVE  \E t \in Sockets : Owner[t] = u /\ pc'[t] \in {"hdel", "lost"}
      <4>1. CASE u = Owner[s]
        BY <2>8, <3>2, <4>1 DEF RemoveActiveUser, Goto, TypeOK, Emptied
      <4>2. CASE u # Owner[s]
        <5>1. u \in listed /\ counts[u] <= 0
          BY <2>8, <3>2, <4>2 DEF RemoveActiveUser, HIncrBy, TypeOK
        <5>2. PICK t \in Sockets : Owner[t] = u /\ pc[t] \in {"hdel", "lost"}
          BY <5>1 DEF PresenceInv, ZeroHasCleaner
        <5> QED
          BY <2>8, <4>2, <5>2 DEF RemoveActiveUser, Goto, TypeOK
      <4> QED
        BY <4>1, <4>2
    <3> QED
      BY <3>1, <3>2 DEF PresenceInv, ZeroHasCleaner
  <2>9. ASSUME NEW s \in Sockets, pc[s] = "hdel", HDel(Owner[s]),
               Goto(s, "closed") \/ Goto(s, "lost")
        PROVE  PresenceInv'
    <3>1. \A u \in Users : Counted(u) \subseteq Counted(u)'
      BY <2>9 DEF Counted, Goto, TypeOK
    <3>2. \A u \in Users : counts'[u] \in Int /\ (counts'[u] = 0 \/ counts'[u] <= counts[u])
      BY <2>9 DEF HDel, TypeOK
    <3>3. NeverOvercounts'
      BY <3>1, <3>2, OvercountFrame DEF PresenceInv
    <3>4. ASSUME NEW u \in listed', counts'[u] <= 0
          PROVE  \E t \in Sockets : Owner[t] = u /\ pc'[t] \in {"hdel", "lost"}
      <4>1. u \in listed /\ counts[u] <= 0 /\ u # Owner[s]
        BY <2>9, <3>4 DEF HDel, TypeOK
      <4>2. PICK t \in Sockets : Owner[t] = u /\ pc[t] \in {"hdel", "lost"}
        BY <4>1 DEF PresenceInv, ZeroHasCleaner
      <4> QED
        BY <2>9, <4>1, <4>2 DEF Goto, TypeOK
    <3> QED
      BY <3>3, <3>4 DEF PresenceInv, ZeroHasCleaner
  <2>10. ASSUME NEW s \in Sockets, RemoveActiveUserFails(s) PROVE PresenceInv'
    <3>1. CASE UNCHANGED presence
      BY <2>10, <3>1, PresenceFrame DEF RemoveActiveUserFails, Goto, TypeOK
    <3>2. CASE pc[s] = "hdel" /\ HDel(Owner[s])
      BY <2>10, <3>2, <2>9 DEF RemoveActiveUserFails
    <3>3. CASE pc[s] = "decr" /\ HIncrBy(Owner[s], -1)
      <4>1. Goto(s, "lost")
        BY <2>10 DEF RemoveActiveUserFails
      <4>2. \A u \in Users : Counted(u) \subseteq Counted(u)'
        BY <4>1 DEF Counted, Goto, TypeOK
      <4>3. \A u \in Users : counts'[u] \in Int /\ counts'[u] <= counts[u]
        BY <3>3 DEF HIncrBy, TypeOK
      <4>4. NeverOvercounts'
        BY <4>2, <4>3, OvercountFrame DEF PresenceInv
      <4>5. ASSUME NEW u \in listed', counts'[u] <= 0
            PROVE  \E t \in Sockets : Owner[t] = u /\ pc'[t] \in {"hdel", "lost"}
        <5>1. CASE u = Owner[s]
          BY <4>1, <5>1 DEF Goto, TypeOK
        <5>2. CASE u # Owner[s]
          <6>1. u \in listed /\ counts[u] <= 0
            BY <3>3, <4>5, <5>2 DEF HIncrBy, TypeOK
          <6> QED
            BY <4>1, <6>1 DEF Goto, TypeOK, PresenceInv, ZeroHasCleaner
        <5> QED
          BY <5>1, <5>2
      <4> QED
        BY <4>4, <4>5 DEF PresenceInv, ZeroHasCleaner
    <3> QED
      BY <2>10, <3>1, <3>2, <3>3 DEF RemoveActiveUserFails
  <2>11. ASSUME NEW s \in Sockets, DeleteActiveUser(s) PROVE PresenceInv'
    BY <2>11, <2>9 DEF DeleteActiveUser
  <2>12. ASSUME NEW w \in Workers, NEW g \in Groups, Notify(w, g) PROVE PresenceInv'
    <3>1. UNCHANGED <<presence, pc>>
      BY <2>12 DEF Notify, HandleJoin, HandleLeave, GroupDeletedBegin, GroupDeletedEnd
    <3> QED
      BY <3>1, PresenceFrame
  <2>13. ASSUME NEW w \in Workers, Crash(w) PROVE PresenceInv'
    <3>1. /\ UNCHANGED presence
          /\ \A s \in Sockets : pc'[s] = pc[s] \/ pc'[s] = "lost"
      BY <2>13 DEF Crash, TypeOK
    <3> QED
      BY <3>1, PresenceFrame
  <2>14. CASE UNCHANGED vars
    BY <2>14, PresenceFrame
  <2> QED
    BY <2>1, <2>2, <2>3, <2>4, <2>5, <2>6, <2>7, <2>8, <2>10, <2>11, <2>12, <2>13, <2>14
       DEF Next, Serve
<1> QED
  BY <1>1, <1>2, TypeCorrect, PTL DEF Spec, PresenceInv

\* A presence field at zero or below is about to be deleted by the coroutine
\* that decremented it, unless a fault stopped that coroutine.
THEOREM PresenceSafe == Spec => []ZeroHasCleaner
BY PresenceInvariant, PTL

\* The counter of a user never exceeds the sockets that still owe a decrement.
THEOREM CountSafe == Spec => []NeverOvercounts
BY PresenceInvariant, PTL

\* A user whose sockets were all cleaned up with a decrement is offline: the
\* count is at most the number of sockets still owed one, none, and a count of
\* zero without a pending HDEL or a fault is no longer listed.
THEOREM OfflineSafe == Spec => []OfflineWhenClosed
<1>1. TypeOK /\ ZeroHasCleaner /\ NeverOvercounts => OfflineWhenClosed
  <2> SUFFICES ASSUME TypeOK, ZeroHasCleaner, NeverOvercounts, NEW u \in Users,
                      \A s \in Sockets : Owner[s] = u => pc[s] \in {"new", "closed"}
               PROVE  u \notin listed
    BY DEF OfflineWhenClosed
  <2>1. Counted(u) = {}
    BY DEF Counted
  <2>2. counts[u] \in Int /\ counts[u] <= 0
    BY <2>1, FS_EmptySet DEF TypeOK, NeverOvercounts
  <2> QED
    BY <2>2 DEF ZeroHasCleaner
<1> QED
  BY <1>1, TypeCorrect, PresenceInvariant, PTL
=============================================================================
