---------------------------- MODULE Social_proofs ---------------------------
(***************************************************************************)
(* Proofs about Social, for any sets of accounts and calls: consent behind *)
(* friendships and messages, no announcement before its commit, and no     *)
(* reference to a deleted account.                                         *)
(***************************************************************************)
EXTENDS Social, TLAPS

\* The pair of the other direction is a pair, and flipping twice is nothing.
LEMMA FlipPair ==
    \A p \in Pairs : Flip(p) \in Pairs /\ Flip(Flip(p)) = p
BY DEF Pairs, Flip

----------------------------------------------------------------------------
(* Types *)

\* A step of a friendship operation keeps the types.
LEMMA BefriendType ==
    ASSUME TypeOK, NEW p \in Pairs, Befriend(p) PROVE TypeOK'
<1>1. Flip(p) \in Pairs  BY FlipPair
<1>2. ASSUME SendFriendRequest(p) PROVE TypeOK'
    <2>1. row' \in [Pairs -> RowStates]  BY <1>2 DEF SendFriendRequest, TypeOK, RowStates
    <2>2. consent' \subseteq Pairs /\ mutual' \subseteq Pairs
        BY <1>1, <1>2 DEF SendFriendRequest, TypeOK, Consents
    <2> QED  BY <1>2, <2>1, <2>2 DEF SendFriendRequest, TypeOK, push
<1>3. ASSUME AcceptFriendRequest(p) PROVE TypeOK'
    <2>1. row' \in [Pairs -> RowStates]  BY <1>3 DEF AcceptFriendRequest, TypeOK, RowStates
    <2>2. consent' \subseteq Pairs /\ mutual' \subseteq Pairs
        <3>1. Flip(Flip(p)) \in Pairs  BY FlipPair
        <3> QED  BY <1>1, <1>3, <3>1 DEF AcceptFriendRequest, TypeOK, Consents
    <2> QED  BY <1>3, <2>1, <2>2 DEF AcceptFriendRequest, TypeOK, push
<1>4. ASSUME RemoveOrDecline(p) PROVE TypeOK'
    <2>1. row' \in [Pairs -> RowStates]  BY <1>1, <1>4 DEF RemoveOrDecline, TypeOK, RowStates
    <2> QED  BY <1>4, <2>1 DEF RemoveOrDecline, TypeOK, push
<1> QED  BY <1>2, <1>3, <1>4 DEF Befriend

\* What Enter does to a call, whatever its other fields.
LEMMA EnterType ==
    ASSUME TypeOK, NEW r \in Requests, NEW s \in Stages, Enter(r, s)
    PROVE  /\ req' \in [Requests -> [stage : Stages, route : Pairs]]
           /\ \A q \in Requests : req'[q].route = req[q].route
           /\ \A q \in Requests : q # r => req'[q] = req[q]
           /\ req'[r].stage = s
BY DEF Enter, TypeOK

\* A step of send_direct_message or of its task keeps the types.
LEMMA DeliverType ==
    ASSUME TypeOK, NEW r \in Requests, Deliver(r) PROVE TypeOK'
<1>1. ASSUME NEW s \in Stages, Enter(r, s), UNCHANGED <<users, row, history>>,
             dms' \subseteq Requests, tasks' \subseteq Requests, pushed' \subseteq Requests
      PROVE  TypeOK'
    <2>1. req' \in [Requests -> [stage : Stages, route : Pairs]]  BY <1>1, EnterType
    <2> QED  BY <1>1, <2>1 DEF TypeOK, history
<1>2. {"check", "insert", "commit", "sent", "refused", "failed"} \subseteq Stages  BY DEF Stages
<1>3. CASE SendDirectMessage(r)
    BY <1>1, <1>2, <1>3 DEF SendDirectMessage, database, push, TypeOK
<1>4. CASE CheckFriendship(r)
    BY <1>1, <1>2, <1>4 DEF CheckFriendship, database, push, TypeOK
<1>5. CASE RefuseMessage(r)
    BY <1>1, <1>2, <1>5 DEF RefuseMessage, database, push, TypeOK
<1>6. CASE InsertMessage(r)
    BY <1>1, <1>2, <1>6 DEF InsertMessage, database, push, TypeOK
<1>7. CASE InsertViolates(r)
    BY <1>1, <1>2, <1>7 DEF InsertViolates, database, push, TypeOK
<1>8. CASE CommitMessage(r)
    BY <1>1, <1>2, <1>8 DEF CommitMessage, TypeOK
<1>9. CASE SendFails(r)
    BY <1>1, <1>2, <1>9 DEF SendFails, database, push, TypeOK
<1>10. CASE CommitUnacknowledged(r)
    BY <1>1, <1>2, <1>10 DEF CommitUnacknowledged, push, TypeOK
<1>11. CASE PushToUser(r)
    BY <1>11 DEF PushToUser, database, history, TypeOK
<1>12. CASE LosePush(r)
    BY <1>12 DEF LosePush, database, history, TypeOK
<1> QED
    BY <1>3, <1>4, <1>5, <1>6, <1>7, <1>8, <1>9, <1>10, <1>11, <1>12 DEF Deliver

\* The type invariant is inductive.
LEMMA TypeStep == TypeOK /\ [Next]_vars => TypeOK'
<1> SUFFICES ASSUME TypeOK, [Next]_vars PROVE TypeOK'
    OBVIOUS
<1>1. ASSUME NEW p \in Pairs, Befriend(p) PROVE TypeOK'  BY <1>1, BefriendType
<1>2. ASSUME NEW r \in Requests, Deliver(r) PROVE TypeOK'  BY <1>2, DeliverType
<1>3. ASSUME NEW u \in Users, DeleteAccount(u) PROVE TypeOK'
    <2>1. row' \in [Pairs -> RowStates]  BY <1>3 DEF DeleteAccount, TypeOK, RowStates
    <2> QED  BY <1>3, <2>1 DEF DeleteAccount, TypeOK, push
<1>4. CASE UNCHANGED vars
    BY <1>4 DEF vars, database, push, history, TypeOK
<1> QED  BY <1>1, <1>2, <1>3, <1>4 DEF Next

\* The tables, the calls and the tasks of Social keep their types.
THEOREM SocialTypeCorrect == Spec => []TypeOK
<1>1. Init => TypeOK
    BY DEF Init, TypeOK, Pairs, RowStates, Stages
<1> QED  BY <1>1, TypeStep, PTL DEF Spec

----------------------------------------------------------------------------
(* Consent *)

\* What is behind a friendship: the requester of every row stands by it, both
\* users of an accepted row do, and those who stand by each other are on
\* record.  Calls past their check, and messages, have recorded users.
RowsHaveRequesters == \A p \in Pairs : row[p] # "none" => p \in consent
MutualOnRecord     == \A p \in Pairs : p \in consent /\ Flip(p) \in consent => p \in mutual
CallsWereWelcome   ==
    \A r \in Requests : req[r].stage \in {"insert", "commit"} => Route(r) \in mutual

ConsentInv == RowsHaveRequesters /\ FriendshipIsMutual /\ MutualOnRecord
WelcomeInv == TypeOK /\ ConsentInv /\ CallsWereWelcome /\ MessagesWereWelcome

\* Whoever agrees joins the consents, and is on record when it is mutual.
LEMMA ConsentsRecorded ==
    ASSUME MutualOnRecord, NEW c \in Pairs, Consents(c)
    PROVE  /\ MutualOnRecord'
           /\ mutual \subseteq mutual'
           /\ consent' = consent \cup {c}
<1>1. consent' = consent \cup {c}  BY DEF Consents
<1>2. mutual \subseteq mutual'  BY DEF Consents
<1>3. Flip(c) \in consent' => {c, Flip(c)} \subseteq mutual'  BY DEF Consents
<1>4. ASSUME NEW q \in Pairs, q \in consent', Flip(q) \in consent' PROVE q \in mutual'
    <2>1. CASE q = c  BY <1>3, <1>4, <2>1
    <2>2. CASE Flip(q) = c
        <3>1. q = Flip(c)  BY <2>2, FlipPair
        <3> QED  BY <1>3, <1>4, <3>1
    <2>3. CASE q # c /\ Flip(q) # c
        BY <1>1, <1>2, <1>4, <2>3 DEF MutualOnRecord
    <2> QED  BY <2>1, <2>2, <2>3
<1> QED  BY <1>1, <1>2, <1>4 DEF MutualOnRecord

\* A friendship operation keeps what rows stand for, and erases no record.
LEMMA BefriendConsent ==
    ASSUME TypeOK, ConsentInv, NEW p \in Pairs, Befriend(p)
    PROVE  ConsentInv' /\ mutual \subseteq mutual'
<1> DEFINE f == Flip(p)
<1>1. f \in Pairs /\ Flip(f) = p  BY FlipPair
<1>2. \A q \in Pairs : (Flip(q) = p => q = f) /\ (Flip(q) = f => q = p)  BY FlipPair
<1>3. row \in [Pairs -> RowStates]  BY DEF TypeOK
<1>4. CASE SendFriendRequest(p)
    <2>1. MutualOnRecord' /\ mutual \subseteq mutual' /\ consent' = consent \cup {p}
        BY <1>4, ConsentsRecorded DEF SendFriendRequest, ConsentInv
    <2>2. \A q \in Pairs : row'[q] = IF q = p THEN "pending" ELSE row[q]
        BY <1>3, <1>4 DEF SendFriendRequest
    <2>3. RowsHaveRequesters'
        BY <2>1, <2>2 DEF ConsentInv, RowsHaveRequesters
    <2>4. FriendshipIsMutual'
        BY <2>1, <2>2 DEF ConsentInv, FriendshipIsMutual
    <2> QED  BY <2>1, <2>3, <2>4 DEF ConsentInv
<1>5. CASE AcceptFriendRequest(p)
    <2>1. MutualOnRecord' /\ mutual \subseteq mutual' /\ consent' = consent \cup {f}
        BY <1>1, <1>5, ConsentsRecorded DEF AcceptFriendRequest, ConsentInv
    <2>2. \A q \in Pairs : row'[q] = IF q = p THEN "accepted" ELSE row[q]
        BY <1>3, <1>5 DEF AcceptFriendRequest
    <2>3. p \in consent
        BY <1>5 DEF AcceptFriendRequest, ConsentInv, RowsHaveRequesters
    <2>4. RowsHaveRequesters'
        BY <2>1, <2>2, <2>3 DEF ConsentInv, RowsHaveRequesters
    <2>5. FriendshipIsMutual'
        BY <2>1, <2>2, <2>3 DEF ConsentInv, FriendshipIsMutual
    <2> QED  BY <2>1, <2>4, <2>5 DEF ConsentInv
<1>6. CASE RemoveOrDecline(p)
    <2>1. consent' = consent \ {p, f} /\ mutual' = mutual
        BY <1>6 DEF RemoveOrDecline
    <2>2. \A q \in Pairs : row'[q] = IF q \in {p, f} THEN "none" ELSE row[q]
        BY <1>1, <1>3, <1>6 DEF RemoveOrDecline, BothDirections
    <2>3. RowsHaveRequesters'
        BY <2>1, <2>2 DEF ConsentInv, RowsHaveRequesters
    <2>4. FriendshipIsMutual'
        <3> SUFFICES ASSUME NEW q \in Pairs, row'[q] = "accepted"
                     PROVE  q \in consent' /\ Flip(q) \in consent'
            BY DEF FriendshipIsMutual
        <3>1. q \notin {p, f} /\ row[q] = "accepted"  BY <2>2
        <3>2. Flip(q) \notin {p, f}  BY <1>2, <3>1
        <3>3. q \in consent /\ Flip(q) \in consent
            BY <3>1 DEF ConsentInv, FriendshipIsMutual
        <3> QED  BY <2>1, <3>1, <3>2, <3>3
    <2>5. MutualOnRecord'  BY <2>1 DEF ConsentInv, MutualOnRecord
    <2> QED  BY <2>1, <2>3, <2>4, <2>5 DEF ConsentInv
<1> QED  BY <1>4, <1>5, <1>6 DEF Befriend

\* A call passes its check only between users on record, and stays there.
LEMMA DeliverWelcome ==
    ASSUME WelcomeInv, NEW r \in Requests, Deliver(r)
    PROVE  WelcomeInv'
<1>1. TypeOK'  BY DeliverType DEF WelcomeInv
<1>2. TypeOK /\ UNCHANGED <<row, consent, mutual>>
    BY DEF WelcomeInv, Deliver, SendDirectMessage, CheckFriendship, RefuseMessage,
           InsertMessage, InsertViolates, CommitMessage, SendFails, CommitUnacknowledged,
           PushToUser, LosePush, database, history
<1>3. ConsentInv'
    BY <1>2 DEF WelcomeInv, ConsentInv, RowsHaveRequesters, FriendshipIsMutual, MutualOnRecord
<1>4. ASSUME NEW s \in Stages, Enter(r, s),
             s \in {"insert", "commit"} => Route(r) \in mutual
      PROVE  CallsWereWelcome' /\ \A q \in Requests : Route(q)' = Route(q)
    <2>1. /\ \A q \in Requests : Route(q)' = Route(q)
          /\ \A q \in Requests : q # r => req'[q] = req[q]
          /\ req'[r].stage = s
        BY <1>2, <1>4, EnterType DEF Route
    <2> QED  BY <1>2, <1>4, <2>1 DEF WelcomeInv, CallsWereWelcome
<1>5. ASSUME dms' \cup tasks' \cup pushed' \subseteq dms \cup tasks \cup pushed \cup {r},
             r \in dms' \cup tasks' \cup pushed' => Route(r) \in mutual,
             \A q \in Requests : Route(q)' = Route(q)
      PROVE  MessagesWereWelcome'
    BY <1>1, <1>2, <1>5 DEF WelcomeInv, MessagesWereWelcome, TypeOK
<1>6. {"check", "insert", "commit", "sent", "refused", "failed"} \subseteq Stages  BY DEF Stages
<1>7. ASSUME NEW s \in {"check", "refused", "failed"}, Enter(r, s), UNCHANGED <<dms, push>>
      PROVE  CallsWereWelcome' /\ MessagesWereWelcome'
    <2>1. CallsWereWelcome' /\ \A q \in Requests : Route(q)' = Route(q)  BY <1>4, <1>6, <1>7
    <2>2. r \in dms \cup tasks \cup pushed => Route(r) \in mutual
        BY DEF WelcomeInv, MessagesWereWelcome
    <2>3. dms' = dms /\ tasks' = tasks /\ pushed' = pushed  BY <1>7 DEF push
    <2> QED  BY <1>5, <2>1, <2>2, <2>3
<1>8. CASE CheckFriendship(r)
    <2>1. PICK p \in {Route(r), Flip(Route(r))} : row[p] = "accepted"
        BY <1>8 DEF CheckFriendship, FriendshipStatus
    <2>2. Route(r) \in Pairs  BY <1>2 DEF Route, TypeOK
    <2>3. p \in Pairs /\ Flip(p) \in {Route(r), Flip(Route(r))} /\ {p, Flip(p)} = {Route(r), Flip(Route(r))}
        BY <2>1, <2>2, FlipPair
    <2>4. {Route(r), Flip(Route(r))} \subseteq consent
        BY <2>1, <2>3 DEF WelcomeInv, ConsentInv, FriendshipIsMutual
    <2>5. Route(r) \in mutual
        BY <2>2, <2>4 DEF WelcomeInv, ConsentInv, MutualOnRecord
    <2>6. Enter(r, "insert")  BY <1>8 DEF CheckFriendship
    <2>7. CallsWereWelcome' /\ \A q \in Requests : Route(q)' = Route(q)
        BY <1>4, <1>6, <2>5, <2>6
    <2>8. dms' = dms /\ tasks' = tasks /\ pushed' = pushed
        BY <1>8 DEF CheckFriendship, database, push
    <2>9. MessagesWereWelcome'  BY <1>5, <2>5, <2>7, <2>8
    <2> QED  BY <1>1, <1>3, <2>7, <2>9 DEF WelcomeInv
<1>9. CASE InsertMessage(r)
    <2>1. Route(r) \in mutual
        BY <1>9 DEF InsertMessage, At, WelcomeInv, CallsWereWelcome
    <2>2. Enter(r, "commit")  BY <1>9 DEF InsertMessage
    <2>3. CallsWereWelcome' /\ \A q \in Requests : Route(q)' = Route(q)
        BY <1>4, <1>6, <2>1, <2>2
    <2>4. dms' = dms /\ tasks' = tasks /\ pushed' = pushed
        BY <1>9 DEF InsertMessage, database, push
    <2>5. MessagesWereWelcome'  BY <1>5, <2>1, <2>3, <2>4
    <2> QED  BY <1>1, <1>3, <2>3, <2>5 DEF WelcomeInv
<1>10. CASE CommitMessage(r) \/ CommitUnacknowledged(r)
    <2>1. Route(r) \in mutual
        BY <1>10 DEF CommitMessage, CommitUnacknowledged, At, WelcomeInv, CallsWereWelcome
    <2>2. PICK s \in {"sent", "failed"} : Enter(r, s)
        BY <1>10 DEF CommitMessage, CommitUnacknowledged
    <2>3. CallsWereWelcome' /\ \A q \in Requests : Route(q)' = Route(q)
        BY <1>4, <1>6, <2>1, <2>2
    <2>4. dms' \cup tasks' \cup pushed' \subseteq dms \cup tasks \cup pushed \cup {r}
        BY <1>10 DEF CommitMessage, CommitUnacknowledged, push
    <2>5. MessagesWereWelcome'  BY <1>5, <2>1, <2>3, <2>4
    <2> QED  BY <1>1, <1>3, <2>3, <2>5 DEF WelcomeInv
<1>11. CASE PushToUser(r) \/ LosePush(r)
    <2>1. req' = req /\ dms' = dms
        BY <1>11 DEF PushToUser, LosePush, database
    <2>2. tasks' \cup pushed' \subseteq tasks \cup pushed
        BY <1>11 DEF PushToUser, LosePush
    <2>3. CallsWereWelcome'  BY <1>2, <2>1 DEF WelcomeInv, CallsWereWelcome, Route
    <2>4. MessagesWereWelcome'
        BY <1>2, <2>1, <2>2 DEF WelcomeInv, MessagesWereWelcome, Route
    <2> QED  BY <1>1, <1>3, <2>3, <2>4 DEF WelcomeInv
<1>12. CASE SendDirectMessage(r) \/ RefuseMessage(r) \/ InsertViolates(r) \/ SendFails(r)
    <2>1. UNCHANGED <<dms, push>> /\ \E s \in {"check", "refused", "failed"} : Enter(r, s)
        BY <1>12 DEF SendDirectMessage, RefuseMessage, InsertViolates, SendFails, database
    <2>2. CallsWereWelcome' /\ MessagesWereWelcome'  BY <1>7, <2>1
    <2> QED  BY <1>1, <1>3, <2>2 DEF WelcomeInv
<1> QED  BY <1>8, <1>9, <1>10, <1>11, <1>12 DEF Deliver

\* The deletion of an account withdraws its consents and keeps the record.
LEMMA DeleteWelcome ==
    ASSUME WelcomeInv, NEW u \in Users, DeleteAccount(u)
    PROVE  WelcomeInv'
<1>1. /\ mutual' = mutual /\ req' = req /\ tasks' = tasks /\ pushed' = pushed
      /\ dms' \subseteq dms
      /\ consent' = {p \in consent : u \notin {p[1], p[2]}}
      /\ row' = [p \in Pairs |-> IF u \in {p[1], p[2]} THEN "none" ELSE row[p]]
    BY DEF DeleteAccount, push
<1>2. TypeOK'
    <2>1. DeleteAccount(u) => Next  BY DEF Next
    <2> QED  BY <2>1, TypeStep DEF WelcomeInv
<1>3. \A p \in Pairs : {Flip(p)[1], Flip(p)[2]} = {p[1], p[2]}  BY DEF Flip
<1>4. RowsHaveRequesters' /\ MutualOnRecord'
    BY <1>1 DEF WelcomeInv, ConsentInv, RowsHaveRequesters, MutualOnRecord
<1>5. FriendshipIsMutual'
    <2> SUFFICES ASSUME NEW p \in Pairs, row'[p] = "accepted"
                 PROVE  p \in consent' /\ Flip(p) \in consent'
        BY DEF FriendshipIsMutual
    <2>1. u \notin {p[1], p[2]} /\ row[p] = "accepted"  BY <1>1
    <2>2. u \notin {Flip(p)[1], Flip(p)[2]}  BY <1>3, <2>1
    <2>3. p \in consent /\ Flip(p) \in consent
        BY <2>1 DEF WelcomeInv, ConsentInv, FriendshipIsMutual
    <2> QED  BY <1>1, <2>1, <2>2, <2>3
<1>6. CallsWereWelcome' /\ MessagesWereWelcome'
    BY <1>1 DEF WelcomeInv, CallsWereWelcome, MessagesWereWelcome, Route
<1> QED  BY <1>2, <1>4, <1>5, <1>6 DEF WelcomeInv, ConsentInv

\* WelcomeInv survives every step.
LEMMA WelcomeStep == WelcomeInv /\ [Next]_vars => WelcomeInv'
<1> SUFFICES ASSUME WelcomeInv, [Next]_vars PROVE WelcomeInv'
    OBVIOUS
<1>1. ASSUME NEW p \in Pairs, Befriend(p) PROVE WelcomeInv'
    <2>1. TypeOK'  BY <1>1, BefriendType DEF WelcomeInv
    <2>2. ConsentInv' /\ mutual \subseteq mutual'  BY <1>1, BefriendConsent DEF WelcomeInv
    <2>3. req' = req /\ dms' = dms /\ tasks' = tasks /\ pushed' = pushed
        BY <1>1 DEF Befriend, SendFriendRequest, AcceptFriendRequest, RemoveOrDecline, push
    <2>4. CallsWereWelcome' /\ MessagesWereWelcome'
        BY <2>2, <2>3 DEF WelcomeInv, CallsWereWelcome, MessagesWereWelcome, Route
    <2> QED  BY <2>1, <2>2, <2>4 DEF WelcomeInv
<1>2. ASSUME NEW r \in Requests, Deliver(r) PROVE WelcomeInv'  BY <1>2, DeliverWelcome
<1>3. ASSUME NEW u \in Users, DeleteAccount(u) PROVE WelcomeInv'  BY <1>3, DeleteWelcome
<1>4. CASE UNCHANGED vars
    BY <1>4 DEF vars, database, push, history, WelcomeInv, TypeOK, ConsentInv,
                RowsHaveRequesters, FriendshipIsMutual, MutualOnRecord,
                CallsWereWelcome, MessagesWereWelcome, Route
<1> QED  BY <1>1, <1>2, <1>3, <1>4 DEF Next

\* Nothing is asked or sent at first.
LEMMA WelcomeInit == Init => WelcomeInv
<1> SUFFICES ASSUME Init PROVE WelcomeInv
    OBVIOUS
<1>1. TypeOK  BY DEF Init, TypeOK, Pairs, RowStates, Stages
<1>2. ConsentInv
    BY DEF Init, ConsentInv, RowsHaveRequesters, FriendshipIsMutual, MutualOnRecord
<1>3. CallsWereWelcome /\ MessagesWereWelcome
    BY DEF Init, CallsWereWelcome, MessagesWereWelcome
<1> QED  BY <1>1, <1>2, <1>3 DEF WelcomeInv

\* An accepted friendship always stands for the consent of both users, given
\* since the last removal (send_friend_request, accept_friend_request,
\* remove_or_decline_friendship and delete_account in any order).
THEOREM FriendshipSafe == Spec => []FriendshipIsMutual
<1>1. WelcomeInv => FriendshipIsMutual  BY DEF WelcomeInv, ConsentInv
<1> QED  BY <1>1, WelcomeInit, WelcomeStep, PTL DEF Spec

\* However friendships change during send_direct_message, a message is stored
\* and announced only between users who had both consented before.
THEOREM WelcomeSafe == Spec => []MessagesWereWelcome
<1>1. WelcomeInv => MessagesWereWelcome  BY DEF WelcomeInv
<1> QED  BY <1>1, WelcomeInit, WelcomeStep, PTL DEF Spec

----------------------------------------------------------------------------
(* Commits *)

Both(r) == {Route(r)[1], Route(r)[2]}

\* Rows, messages and uncommitted inserts refer to existing accounts, and what
\* is announced has been stored.
StoredInv ==
    /\ TypeOK
    /\ NoOrphans
    /\ \A r \in Requests : At(r, "commit") => Both(r) \subseteq users
    /\ NoPhantomBroadcast

\* A step of a call leaves its route and the other calls alone.
LEMMA DeliverStored ==
    ASSUME StoredInv, NEW r \in Requests, Deliver(r)
    PROVE  StoredInv'
<1>1. TypeOK'  BY DeliverType DEF StoredInv
<1>2. TypeOK /\ users' = users /\ row' = row
    BY DEF StoredInv, Deliver, SendDirectMessage, CheckFriendship, RefuseMessage,
           InsertMessage, InsertViolates, CommitMessage, SendFails, CommitUnacknowledged,
           PushToUser, LosePush, database
<1>3. ASSUME NEW s \in Stages, Enter(r, s), s = "commit" => Both(r) \subseteq users,
             dms \subseteq dms', dms' \subseteq dms \cup {r},
             dms' # dms => Both(r) \subseteq users,
             tasks' \cup pushed' \subseteq tasks \cup pushed \cup dms'
      PROVE  StoredInv'
    <2>1. /\ \A q \in Requests : Route(q)' = Route(q)
          /\ \A q \in Requests : q # r => req'[q] = req[q]
          /\ req'[r].stage = s
        BY <1>2, <1>3, EnterType DEF Route
    <2>2. \A q \in Requests : Both(q)' = Both(q)  BY <2>1 DEF Both
    <2>3. \A q \in Requests : At(q, "commit")' => Both(q)' \subseteq users'
        BY <1>2, <1>3, <2>1, <2>2 DEF StoredInv, At
    <2>4. \A q \in dms' : Both(q) \subseteq users
        BY <1>3 DEF StoredInv, NoOrphans, Both
    <2>5. NoOrphans'
        <3>1. ASSUME NEW p \in Pairs, row'[p] # "none" PROVE {p[1], p[2]} \subseteq users'
            BY <1>2, <3>1 DEF StoredInv, NoOrphans
        <3>2. dms' \subseteq Requests  BY <1>1 DEF TypeOK
        <3>3. ASSUME NEW q \in dms' PROVE Both(q)' \subseteq users'
            BY <1>2, <2>2, <2>4, <3>2, <3>3
        <3> QED  BY <3>1, <3>3 DEF NoOrphans, Both
    <2>6. NoPhantomBroadcast'
        <3>1. tasks' \cup pushed' \subseteq Requests  BY <1>1 DEF TypeOK
        <3>2. \A q \in tasks \cup pushed : q \in dms \/ ~ (Both(q) \subseteq users)
            BY DEF StoredInv, NoPhantomBroadcast, Both
        <3>3. ASSUME NEW q \in tasks' \cup pushed'
              PROVE  q \in dms' \/ ~ (Both(q)' \subseteq users')
            <4>1. q \in tasks \cup pushed \cup dms' /\ Both(q)' = Both(q)
                BY <1>3, <2>2, <3>1, <3>3
            <4> QED  BY <1>2, <1>3, <3>2, <4>1
        <3> QED  BY <3>3 DEF NoPhantomBroadcast, Both
    <2> QED  BY <1>1, <2>3, <2>5, <2>6 DEF StoredInv
<1>4. {"check", "insert", "commit", "sent", "refused", "failed"} \subseteq Stages  BY DEF Stages
<1>5. CASE SendDirectMessage(r) \/ CheckFriendship(r) \/ RefuseMessage(r)
           \/ InsertViolates(r) \/ SendFails(r)
    <2>1. PICK s \in {"check", "insert", "refused", "failed"} : Enter(r, s)
        BY <1>5 DEF SendDirectMessage, CheckFriendship, RefuseMessage, InsertViolates, SendFails
    <2>2. dms' = dms /\ tasks' = tasks /\ pushed' = pushed
        BY <1>5 DEF SendDirectMessage, CheckFriendship, RefuseMessage, InsertViolates,
                    SendFails, database, push
    <2> QED  BY <1>3, <1>4, <2>1, <2>2
<1>6. CASE InsertMessage(r)
    BY <1>3, <1>4, <1>6 DEF InsertMessage, database, push, Both
<1>7. CASE CommitMessage(r) \/ CommitUnacknowledged(r)
    <2>1. PICK s \in {"sent", "failed"} : Enter(r, s)
        BY <1>7 DEF CommitMessage, CommitUnacknowledged
    <2>2. Both(r) \subseteq users
        BY <1>7 DEF CommitMessage, CommitUnacknowledged, StoredInv
    <2>3. dms' = dms \cup {r} /\ tasks' \subseteq tasks \cup {r} /\ pushed' = pushed
        BY <1>7 DEF CommitMessage, CommitUnacknowledged, push
    <2> QED  BY <1>3, <1>4, <2>1, <2>2, <2>3
<1>8. CASE PushToUser(r) \/ LosePush(r)
    <2>1. req' = req /\ dms' = dms
        BY <1>8 DEF PushToUser, LosePush, database
    <2>2. tasks' \cup pushed' \subseteq tasks \cup pushed
        BY <1>8 DEF PushToUser, LosePush
    <2> QED
        BY <1>1, <1>2, <2>1, <2>2 DEF StoredInv, NoOrphans, NoPhantomBroadcast, At, Both, Route
<1> QED  BY <1>5, <1>6, <1>7, <1>8 DEF Deliver

\* StoredInv survives every step.
LEMMA StoredStep == StoredInv /\ [Next]_vars => StoredInv'
<1> SUFFICES ASSUME StoredInv, [Next]_vars PROVE StoredInv'
    OBVIOUS
<1>0. TypeOK /\ TypeOK'  BY TypeStep DEF StoredInv
<1>1. ASSUME NEW p \in Pairs, Befriend(p) PROVE StoredInv'
    <2>1. /\ req' = req /\ dms' = dms /\ tasks' = tasks /\ pushed' = pushed
          /\ users' = users
        BY <1>1 DEF Befriend, SendFriendRequest, AcceptFriendRequest, RemoveOrDecline, push
    <2>2. \A q \in Pairs : row'[q] # "none" => {q[1], q[2]} \subseteq users
        <3>1. CASE SendFriendRequest(p)
            BY <1>0, <3>1 DEF SendFriendRequest, StoredInv, NoOrphans, TypeOK
        <3>2. CASE AcceptFriendRequest(p)
            BY <1>0, <3>2 DEF AcceptFriendRequest, StoredInv, NoOrphans, TypeOK
        <3>3. CASE RemoveOrDecline(p)
            <4>1. Flip(p) \in Pairs  BY FlipPair
            <4> QED  BY <1>0, <3>3, <4>1 DEF RemoveOrDecline, StoredInv, NoOrphans, TypeOK
        <3> QED  BY <1>1, <3>1, <3>2, <3>3 DEF Befriend
    <2>3. NoOrphans'  BY <2>1, <2>2 DEF StoredInv, NoOrphans, Route
    <2> QED  BY <1>0, <2>1, <2>3 DEF StoredInv, NoPhantomBroadcast, At, Both, Route
<1>2. ASSUME NEW r \in Requests, Deliver(r) PROVE StoredInv'  BY <1>2, DeliverStored
<1>3. ASSUME NEW u \in Users, DeleteAccount(u) PROVE StoredInv'
    <2>1. /\ req' = req /\ tasks' = tasks /\ pushed' = pushed /\ users' = users \ {u}
          /\ dms' = {r \in dms : u \notin Both(r)}
          /\ row' = [p \in Pairs |-> IF u \in {p[1], p[2]} THEN "none" ELSE row[p]]
        BY <1>3 DEF DeleteAccount, push, Both
    <2>2. \A r \in Requests : Both(r)' = Both(r) /\ (At(r, "commit")' = At(r, "commit"))
        BY <2>1 DEF Both, Route, At
    <2>3. \A r \in Requests : At(r, "commit") => u \notin Both(r)
        BY <1>3 DEF DeleteAccount, References, Both
    <2>4. \A r \in Requests : At(r, "commit")' => Both(r)' \subseteq users'
        BY <2>1, <2>2, <2>3 DEF StoredInv
    <2>5. NoOrphans'
        <3>1. \A p \in Pairs : row'[p] # "none" => {p[1], p[2]} \subseteq users'
            BY <2>1 DEF StoredInv, NoOrphans
        <3>2. \A r \in dms' : Both(r) \subseteq users'
            BY <2>1 DEF StoredInv, NoOrphans, Both
        <3>3. \A r \in dms' : Both(r)' \subseteq users'
            BY <1>0, <2>2, <3>2 DEF TypeOK
        <3> QED  BY <3>1, <3>3 DEF NoOrphans, Both
    <2>6. NoPhantomBroadcast'
        <3>1. ASSUME NEW r \in tasks \cup pushed
              PROVE  r \in dms' \/ ~ (Both(r) \subseteq users')
            <4>1. r \in dms \/ ~ (Both(r) \subseteq users)
                BY DEF StoredInv, NoPhantomBroadcast, Both
            <4>2. CASE u \in Both(r)  BY <2>1, <4>2
            <4>3. CASE u \notin Both(r)  BY <2>1, <4>1, <4>3
            <4> QED  BY <4>2, <4>3
        <3>2. \A r \in tasks' \cup pushed' : r \in dms' \/ ~ (Both(r)' \subseteq users')
            BY <1>0, <2>1, <2>2, <3>1 DEF TypeOK
        <3> QED  BY <3>2 DEF NoPhantomBroadcast, Both
    <2> QED  BY <1>0, <2>4, <2>5, <2>6 DEF StoredInv
<1>4. CASE UNCHANGED vars
    BY <1>0, <1>4 DEF vars, database, push, StoredInv, NoOrphans, NoPhantomBroadcast,
                      At, Both, Route
<1> QED  BY <1>1, <1>2, <1>3, <1>4 DEF Next

\* Nothing is stored or announced at first.
LEMMA StoredInit == Init => StoredInv
BY DEF Init, StoredInv, TypeOK, NoOrphans, NoPhantomBroadcast, At, Pairs, RowStates, Stages

\* Outbound notifications follow the commit: a direct message that is scheduled
\* or published is stored, unless the deletion of an account has removed it.
THEOREM NoPhantomSafe == Spec => []NoPhantomBroadcast
<1>1. StoredInv => NoPhantomBroadcast  BY DEF StoredInv
<1> QED  BY <1>1, StoredInit, StoredStep, PTL DEF Spec

\* delete_account leaves no friendship and no message of the account behind,
\* also when it falls into a call of send_direct_message.
THEOREM NoOrphansSafe == Spec => []NoOrphans
<1>1. StoredInv => NoOrphans  BY DEF StoredInv
<1> QED  BY <1>1, StoredInit, StoredStep, PTL DEF Spec
=============================================================================
