------------------------------- MODULE Social -------------------------------
(***************************************************************************)
(* Friendships and direct messages: the friendship operations of           *)
(* UserService (src/services/user.py), send_direct_message of              *)
(* MessagingService (src/services/messaging.py) and the deletion of an     *)
(* account, on the tables users, friendships and direct_messages.          *)
(*                                                                         *)
(* The friendship operations are transactions of one statement and so one  *)
(* step each.  send_direct_message is a transaction of two statements and  *)
(* a commit, at READ COMMITTED and without FOR UPDATE: other transactions  *)
(* commit between its steps.  After the commit it spawns the task that     *)
(* publishes the message to the workers.                                   *)
(*                                                                         *)
(* The primary key of friendships is the ordered pair <<requester,         *)
(* addressee>>, so two users can have two rows.                            *)
(***************************************************************************)
CONSTANTS
    Users,      \* the registered accounts
    Requests    \* calls of send_direct_message; each stands for its message

VARIABLES
    users,      \* rows of users
    row,        \* friendships: no row, a pending one or an accepted one
    dms,        \* committed rows of direct_messages
    req,        \* where each call is, and its sender and recipient
    tasks,      \* messages whose push_to_user task has not run yet
    pushed,     \* messages published to the workers
    consent,    \* history: <<a, b>> when a has asked or accepted b, and
                \* nobody has removed the friendship since
    mutual      \* history: pairs that have ever consented to each other

database == <<users, row, dms>>
push     == <<tasks, pushed>>
history  == <<consent, mutual>>
vars     == <<database, req, push, history>>

Pairs     == Users \X Users
RowStates == {"none", "pending", "accepted"}
Stages    == {"idle", "check", "insert", "commit", "sent", "refused", "failed"}

Flip(p) == <<p[2], p[1]>>

\* The two users of a call, as the pair <<sender, recipient>>.
Route(r) == req[r].route

\* Every account exists and nothing has been asked or sent.
Init ==
    /\ users = Users
    /\ row = [p \in Pairs |-> "none"]
    /\ dms = {}
    /\ req \in [Requests -> [stage : {"idle"}, route : {p \in Pairs : p[1] # p[2]}]]
    /\ tasks = {}
    /\ pushed = {}
    /\ consent = {}
    /\ mutual = {}

----------------------------------------------------------------------------
(* Friendships.                                                            *)

\* p[1] has agreed to p[2], whichever of them asked first.
Consents(p) ==
    /\ consent' = consent \cup {p}
    /\ mutual' = IF Flip(p) \in consent' THEN mutual \cup {p, Flip(p)} ELSE mutual

\* send_friend_request: refused to oneself, by the primary key when the same
\* request exists, and by the foreign keys when an account does not.
SendFriendRequest(p) ==
    /\ p[1] # p[2]
    /\ {p[1], p[2]} \subseteq users
    /\ row[p] = "none"
    /\ row' = [row EXCEPT ![p] = "pending"]
    /\ Consents(p)
    /\ UNCHANGED <<users, dms, req, push>>

\* accept_friend_request of the request p, by its addressee p[2]: the UPDATE
\* does not ask whether the row is still pending.
AcceptFriendRequest(p) ==
    /\ row[p] # "none"
    /\ row' = [row EXCEPT ![p] = "accepted"]
    /\ Consents(Flip(p))
    /\ UNCHANGED <<users, dms, req, push>>

\* Fault: only the row of the caller's own request is deleted.
OneDirection(p) == {p}

BothDirections(p) == {p, Flip(p)}

\* remove_or_decline_friendship by p[1]: the rows of both directions go.
RemoveOrDecline(p) ==
    /\ \E q \in BothDirections(p) : row[q] # "none"
    /\ row' = [q \in Pairs |-> IF q \in BothDirections(p) THEN "none" ELSE row[q]]
    /\ consent' = consent \ {p, Flip(p)}
    /\ UNCHANGED <<users, dms, req, push, mutual>>

----------------------------------------------------------------------------
(* send_direct_message.                                                    *)

At(r, stage)    == req[r].stage = stage
Enter(r, stage) == req' = [req EXCEPT ![r].stage = stage]

\* Fault: any row between the two users counts as a friendship.
StatusOfAny(p) ==
    {IF row[q] = "none" THEN "none" ELSE "accepted" : q \in {p, Flip(p)}} \ {"none"}

\* get_friendship_status: SELECT ... LIMIT 1 without ORDER BY returns any one
\* of the rows between two users, if there is one.
FriendshipStatus(p) == {row[q] : q \in {p, Flip(p)}} \ {"none"}

\* A new call begins its transaction.
SendDirectMessage(r) ==
    /\ At(r, "idle")
    /\ Enter(r, "check")
    /\ UNCHANGED <<database, push, history>>

\* The row that came back is accepted.
CheckFriendship(r) ==
    /\ At(r, "check")
    /\ "accepted" \in FriendshipStatus(Route(r))
    /\ Enter(r, "insert")
    /\ UNCHANGED <<database, push, history>>

\* The row that came back is pending, or none did: DirectMessageNotAllowedError.
RefuseMessage(r) ==
    /\ At(r, "check")
    /\ \/ FriendshipStatus(Route(r)) = {}
       \/ "pending" \in FriendshipStatus(Route(r))
    /\ Enter(r, "refused")
    /\ UNCHANGED <<database, push, history>>

\* Fault: the task is spawned inside the transaction.
InsertSpawning(r) ==
    /\ At(r, "insert") /\ {Route(r)[1], Route(r)[2]} \subseteq users /\ Enter(r, "commit")
    /\ tasks' = tasks \cup {r}
    /\ UNCHANGED <<database, pushed, history>>

\* The INSERT, which the foreign keys refuse when an account has gone.
InsertMessage(r) ==
    /\ At(r, "insert")
    /\ {Route(r)[1], Route(r)[2]} \subseteq users
    /\ Enter(r, "commit")
    /\ UNCHANGED <<database, push, history>>

InsertViolates(r) ==
    /\ At(r, "insert")
    /\ ~ ({Route(r)[1], Route(r)[2]} \subseteq users)
    /\ Enter(r, "failed")
    /\ UNCHANGED <<database, push, history>>

\* The transaction commits, then push_to_user is spawned.
CommitMessage(r) ==
    /\ At(r, "commit")
    /\ Enter(r, "sent")
    /\ dms' = dms \cup {r}
    /\ tasks' = tasks \cup {r}
    /\ UNCHANGED <<users, row, pushed, history>>

\* A database error or a crash ends the call before its commit.
SendFails(r) ==
    /\ req[r].stage \in {"check", "insert", "commit"}
    /\ Enter(r, "failed")
    /\ UNCHANGED <<database, push, history>>

\* PostgreSQL commits and the connection breaks before the worker knows.
CommitUnacknowledged(r) ==
    /\ At(r, "commit")
    /\ Enter(r, "failed")
    /\ dms' = dms \cup {r}
    /\ UNCHANGED <<users, row, push, history>>

\* push_to_user publishes to the channel.
PushToUser(r) ==
    /\ r \in tasks
    /\ tasks' = tasks \ {r}
    /\ pushed' = pushed \cup {r}
    /\ UNCHANGED <<database, req, history>>

\* The task fails on Redis, or its process ends first.
LosePush(r) ==
    /\ r \in tasks
    /\ tasks' = tasks \ {r}
    /\ UNCHANGED <<database, req, pushed, history>>

----------------------------------------------------------------------------
(* Accounts.                                                               *)

\* Fault: the deletion does not wait for inserts that reference the user.
ReferencesIgnored(u) == FALSE

\* The foreign keys of direct_messages: an uncommitted INSERT holds a lock on
\* the rows of its two users, which a DELETE waits for.
References(u) ==
    \E r \in Requests : At(r, "commit") /\ u \in {Route(r)[1], Route(r)[2]}

\* delete_account, with the cascades to friendships and direct_messages.
DeleteAccount(u) ==
    /\ u \in users
    /\ ~ References(u)
    /\ users' = users \ {u}
    /\ row' = [p \in Pairs |-> IF u \in {p[1], p[2]} THEN "none" ELSE row[p]]
    /\ dms' = {r \in dms : u \notin {Route(r)[1], Route(r)[2]}}
    /\ consent' = {p \in consent : u \notin {p[1], p[2]}}
    /\ UNCHANGED <<req, push, mutual>>

----------------------------------------------------------------------------

Befriend(p) ==
    \/ SendFriendRequest(p)
    \/ AcceptFriendRequest(p)
    \/ RemoveOrDecline(p)

Deliver(r) ==
    \/ SendDirectMessage(r)
    \/ CheckFriendship(r)
    \/ RefuseMessage(r)
    \/ InsertMessage(r)
    \/ InsertViolates(r)
    \/ CommitMessage(r)
    \/ SendFails(r)
    \/ CommitUnacknowledged(r)
    \/ PushToUser(r)
    \/ LosePush(r)

Next ==
    \/ \E p \in Pairs : Befriend(p)
    \/ \E r \in Requests : Deliver(r)
    \/ \E u \in Users : DeleteAccount(u)

Spec == Init /\ [][Next]_vars

----------------------------------------------------------------------------
(* Properties.                                                             *)

\* Tables, calls and tasks have their types.
TypeOK ==
    /\ users \subseteq Users
    /\ row \in [Pairs -> RowStates]
    /\ dms \subseteq Requests
    /\ req \in [Requests -> [stage : Stages, route : Pairs]]
    /\ tasks \subseteq Requests
    /\ pushed \subseteq Requests
    /\ consent \subseteq Pairs
    /\ mutual \subseteq Pairs

\* An accepted row stands for the consent of both users, given since the last
\* time either of them ended the relationship: nobody is made a friend by the
\* other's acts alone, and no accepted row outlives remove_or_decline.
FriendshipIsMutual ==
    \A p \in Pairs : row[p] = "accepted" => {p, Flip(p)} \subseteq consent

\* A stored, scheduled or published direct message goes between users who
\* had both consented before it was sent, however removals, new requests and
\* deletions fall between the check and the commit.
MessagesWereWelcome ==
    \A r \in dms \cup tasks \cup pushed : Route(r) \in mutual

\* A message is announced only after its commit: a scheduled or published
\* message has its row, unless an account's deletion has taken the row since.
NoPhantomBroadcast ==
    \A r \in tasks \cup pushed :
        r \in dms \/ ~ ({Route(r)[1], Route(r)[2]} \subseteq users)

\* No friendship and no message refers to an account that was deleted, also
\* when the deletion falls into a call of send_direct_message.
NoOrphans ==
    /\ \A p \in Pairs : row[p] # "none" => {p[1], p[2]} \subseteq users
    /\ \A r \in dms : {Route(r)[1], Route(r)[2]} \subseteq users

\* What FriendRequestAlreadyExistsError says: a request is refused when a
\* request or a friendship exists between the two users, in either direction.
OneRequestPerPair ==
    \A p \in Pairs : p[1] # p[2] => row[p] = "none" \/ row[Flip(p)] = "none"

\* What DirectMessageNotAllowedError says: a direct message is refused only
\* to users between whom no friendship is active.
RefusedOnlyStrangers ==
    [][\A r \in Requests :
           At(r, "check") /\ req'[r].stage = "refused" =>
               "accepted" \notin FriendshipStatus(Route(r))]_vars

\* What the integration test of direct messages says: who is not a friend is
\* blocked from sending.
StrangersAreBlocked ==
    [][\A r \in dms' \ dms : "accepted" \in FriendshipStatus(Route(r))]_vars

=============================================================================
