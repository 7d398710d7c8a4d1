------------------------------ MODULE Accounts ------------------------------
(***************************************************************************)
(* The life of an account: register and login of AuthService               *)
(* (src/services/auth.py), deactivate_account, reactivate_account and      *)
(* delete_account of UserService (src/services/user.py), on the table      *)
(* users, statement by statement at READ COMMITTED.                        *)
(*                                                                         *)
(* login reads the row without FOR UPDATE, hashes the password in between, *)
(* and then updates and refers to the row it has read by its user_id.  An  *)
(* UPDATE waits for the holder of the row and then looks at the row again; *)
(* the INSERT of a token keeps a DELETE of the user waiting.  What a       *)
(* transaction has written is visible to itself only, until it commits.    *)
(* Transactions are never retried (see Rotation).                          *)
(***************************************************************************)
CONSTANTS
    Users,      \* user_ids; an account's password is named by its user_id
    Names,      \* usernames
    NameOf,     \* the username of an account: several accounts, one after the
                \* other, may have the same
    Outdated,   \* accounts that exist at first, with an outdated hash
    Txs,        \* calls of register and login
    NoTx,       \* nobody
    NoUser      \* no account

ASSUME AccountsAssumption ==
    /\ NameOf \in [Users -> Names]
    /\ Outdated \subseteq Users
    /\ \A u, v \in Outdated : NameOf[u] = NameOf[v] => u = v
    /\ NoTx \notin Txs
    /\ NoUser \notin Users

VARIABLES
    row,        \* committed rows of users: none, active, deactivated, gone
    outdated,   \* accounts whose password_hash needs_rehash
    sessions,   \* committed token pairs: the call, its account, its password
    lock,       \* the transaction that has updated a row
    at,         \* where a call is
    password,   \* the password a call presents
    user,       \* the account whose row it has read or inserted
    saw,        \* the columns it has read: deactivated, outdated
    did         \* what it has written: reactivated, rehashed

table == <<row, outdated, sessions>>
calls == <<lock, at, password, user, saw, did>>
accountVars == <<table, calls>>

Points == {"idle", "register", "reactivate", "rehash", "issue", "commit", "publish",
           "returned", "refused", "failed"}
Ended  == {"returned", "refused", "failed"}

Untouched == [reactivated |-> FALSE, rehashed |-> FALSE]

Init ==
    /\ row = [u \in Users |-> IF u \in Outdated THEN "active" ELSE "none"]
    /\ outdated = Outdated
    /\ sessions = {}
    /\ lock = [u \in Users |-> NoTx]
    /\ at = [x \in Txs |-> "idle"]
    /\ password = [x \in Txs |-> NoUser]
    /\ user = [x \in Txs |-> NoUser]
    /\ saw = [x \in Txs |-> [deactivated |-> FALSE, outdated |-> FALSE]]
    /\ did = [x \in Txs |-> Untouched]

-----------------------------------------------------------------------------

Exists(u)  == row[u] \in {"active", "deactivated"}
Goto(x, p) == at' = [at EXCEPT ![x] = p]

\* The row is x's own, or nobody's.
Lockable(x, u) == lock[u] \in {NoTx, x}

\* Fault: a transaction that raises keeps its locks.
Kept(x) == lock

Released(x) == [u \in Users |-> IF lock[u] = x THEN NoTx ELSE lock[u]]

\* The transaction ends without effect and the call is answered.
Rollback(x, answer) ==
    /\ lock' = Released(x)
    /\ did' = [did EXCEPT ![x] = Untouched]
    /\ Goto(x, answer)
    /\ UNCHANGED <<table, password, user, saw>>

-----------------------------------------------------------------------------
(* register *)

\* Fault: the name is only looked up among the committed rows.
Unclaimed(n) == TRUE

\* The unique index waits for a registration of the name that is under way.
NameFree(n) == \A y \in Txs : ~ (at[y] = "register" /\ NameOf[user[y]] = n)

NameTaken(n) == \E u \in Users : NameOf[u] = n /\ Exists(u)

\* create_user and _issue_token_pair, both for a new user_id.
Register(x, u) ==
    /\ at[x] = "idle"
    /\ row[u] = "none" /\ \A y \in Txs : user[y] # u
    /\ NameFree(NameOf[u])
    /\ ~ NameTaken(NameOf[u])
    /\ Goto(x, "register")
    /\ user' = [user EXCEPT ![x] = u]
    /\ password' = [password EXCEPT ![x] = u]
    /\ UNCHANGED <<table, lock, saw, did>>

\* uq_users_username: UserAlreadyExistsError.
RegisterTaken(x, n) ==
    /\ at[x] = "idle"
    /\ NameFree(n)
    /\ NameTaken(n)
    /\ Rollback(x, "refused")

\* What a commit makes visible; the answer is "failed" where the client does
\* not learn of it.
Session(x) == [call |-> x, user |-> user[x], password |-> password[x]]

RegisterCommit(x, answer) ==
    /\ at[x] = "register"
    /\ row' = [row EXCEPT ![user[x]] = "active"]
    /\ sessions' = sessions \cup {Session(x)}
    /\ Goto(x, answer)
    /\ UNCHANGED <<outdated, lock, password, user, saw, did>>

-----------------------------------------------------------------------------
(* login *)

\* The statement after the SELECT, or after the UPDATE that reactivates.
AfterSelect(s)     == IF s.deactivated THEN "reactivate"
                      ELSE IF s.outdated THEN "rehash" ELSE "issue"
AfterReactivate(s) == IF s.outdated THEN "rehash" ELSE "issue"

\* get_user_by_username and verify_password.
Login(x, u, p) ==
    LET s == [deactivated |-> row[u] = "deactivated", outdated |-> u \in outdated] IN
    /\ at[x] = "idle"
    /\ Exists(u)
    /\ p = u
    /\ user' = [user EXCEPT ![x] = u]
    /\ password' = [password EXCEPT ![x] = p]
    /\ saw' = [saw EXCEPT ![x] = s]
    /\ Goto(x, AfterSelect(s))
    /\ UNCHANGED <<table, lock, did>>

\* No row of that name, or the hash of another password.
LoginDenied(x, n, p) ==
    /\ at[x] = "idle"
    /\ \A u \in Users : Exists(u) /\ NameOf[u] = n => p # u
    /\ Rollback(x, "refused")

Reactivate(x) ==
    /\ at[x] = "reactivate"
    /\ Lockable(x, user[x])
    /\ Exists(user[x])
    /\ lock' = [lock EXCEPT ![user[x]] = x]
    /\ did' = [did EXCEPT ![x].reactivated = TRUE]
    /\ Goto(x, AfterReactivate(saw[x]))
    /\ UNCHANGED <<table, password, user, saw>>

\* Fault: the hash is updated before the account is reactivated.
SeesCommitted(x) == row[user[x]] = "active"

\* deactivated = FALSE, as the transaction sees its row.
SeesActive(x) == row[user[x]] = "active" \/ (Exists(user[x]) /\ did[x].reactivated)

\* CHANGE_PASSWORD finds the row with the hash that was read.
Unchanged(x) == SeesActive(x) /\ user[x] \in outdated

Rehash(x) ==
    /\ at[x] = "rehash"
    /\ Lockable(x, user[x])
    /\ Unchanged(x)
    /\ lock' = [lock EXCEPT ![user[x]] = x]
    /\ did' = [did EXCEPT ![x].rehashed = TRUE]
    /\ Goto(x, "issue")
    /\ UNCHANGED <<table, password, user, saw>>

\* Fault: the tokens have no foreign key.
Unreferenced(x) == TRUE

HasUser(x) == Exists(user[x])

\* _issue_token_pair: the foreign keys hold the row against a DELETE.
Issue(x) ==
    /\ at[x] = "issue"
    /\ HasUser(x)
    /\ Goto(x, "commit")
    /\ UNCHANGED <<table, lock, password, user, saw, did>>

\* UPDATE 0, or a foreign key that is violated: all are answered with
\* InvalidCredentialsError.
LoginRefused(x) ==
    /\ \/ at[x] = "reactivate" /\ Lockable(x, user[x]) /\ ~ Exists(user[x])
       \/ at[x] = "rehash" /\ Lockable(x, user[x]) /\ ~ Unchanged(x)
       \/ at[x] = "issue" /\ ~ HasUser(x)
    /\ Rollback(x, "refused")

LoginCommit(x, answer) ==
    /\ at[x] = "commit"
    /\ row' = [row EXCEPT ![user[x]] = IF did[x].reactivated THEN "active" ELSE @]
    /\ outdated' = IF did[x].rehashed THEN outdated \ {user[x]} ELSE outdated
    /\ sessions' = sessions \cup {Session(x)}
    /\ lock' = Released(x)
    /\ did' = [did EXCEPT ![x] = Untouched]
    /\ Goto(x, IF answer = "returned" /\ did[x] # Untouched THEN "publish" ELSE answer)
    /\ UNCHANGED <<password, user, saw>>

\* The invalidation event of a login that has changed the row; a failure of
\* Redis reaches the client although the session is committed.
Publish(x, answer) ==
    /\ at[x] = "publish"
    /\ Goto(x, answer)
    /\ UNCHANGED <<table, lock, password, user, saw, did>>

-----------------------------------------------------------------------------
(* UserService: one statement each *)

\* UPDATE users SET deactivated: waits for an updater of the row.
SetDeactivated(u, state) ==
    /\ Exists(u)
    /\ lock[u] = NoTx
    /\ row' = [row EXCEPT ![u] = state]
    /\ UNCHANGED <<outdated, sessions, calls>>

\* DELETE FROM users, which takes the tokens with it; it waits for updaters
\* and for transactions that have inserted a token of the user.
DeleteAccount(u) ==
    /\ Exists(u)
    /\ lock[u] = NoTx
    /\ \A x \in Txs : ~ (at[x] = "commit" /\ user[x] = u)
    /\ row' = [row EXCEPT ![u] = "gone"]
    /\ outdated' = outdated \ {u}
    /\ sessions' = {s \in sessions : s.user # u}
    /\ UNCHANGED calls

-----------------------------------------------------------------------------

Running(x) == at[x] \notin {"idle"} \cup Ended

\* A statement fails, times out, or its worker dies.
Fail(x) ==
    /\ Running(x)
    /\ at[x] # "publish"
    /\ Rollback(x, "failed")

Proceed(x) ==
    \/ RegisterCommit(x, "returned")
    \/ Reactivate(x) \/ Rehash(x) \/ Issue(x) \/ LoginRefused(x)
    \/ LoginCommit(x, "returned") \/ Publish(x, "returned")

Next ==
    \/ \E x \in Txs :
          \/ \E u \in Users : Register(x, u)
          \/ \E n \in Names : RegisterTaken(x, n)
          \/ \E u, p \in Users : Login(x, u, p)
          \/ \E n \in Names, p \in Users : LoginDenied(x, n, p)
          \/ Proceed(x) \/ Fail(x)
          \/ RegisterCommit(x, "failed") \/ LoginCommit(x, "failed") \/ Publish(x, "failed")
    \/ \E u \in Users : \/ SetDeactivated(u, "deactivated")
                        \/ SetDeactivated(u, "active")
                        \/ DeleteAccount(u)

Spec == Init /\ [][Next]_accountVars

\* The database executes every statement that waits for no row.
Fairness == \A x \in Txs : WF_accountVars(Proceed(x))

LiveSpec == Spec /\ Fairness

-----------------------------------------------------------------------------
(* Properties *)

\* Every variable has its type.
TypeOK ==
    /\ row \in [Users -> {"none", "active", "deactivated", "gone"}]
    /\ outdated \subseteq Users
    /\ sessions \subseteq [call : Txs, user : Users, password : Users]
    /\ lock \in [Users -> Txs \cup {NoTx}]
    /\ at \in [Txs -> Points]
    /\ password \in [Txs -> Users \cup {NoUser}]
    /\ user \in [Txs -> Users \cup {NoUser}]
    /\ saw \in [Txs -> [deactivated : BOOLEAN, outdated : BOOLEAN]]
    /\ did \in [Txs -> [reactivated : BOOLEAN, rehashed : BOOLEAN]]

\* A session belongs to an account that exists and whose password was
\* presented, also when the account is deleted and its name registered by
\* somebody else while a login hashes the password.
SessionsAreOwned ==
    \A s \in sessions : Exists(s.user) /\ s.password = s.user

\* Registrations that run at once, deletions between them included, never give
\* one username to two accounts.
UniqueNames ==
    \A u, v \in Users : Exists(u) /\ Exists(v) /\ NameOf[u] = NameOf[v] => u = v

\* A login that has verified the password is refused as "Invalid username or
\* password." only if somebody has changed the row since it was read; in
\* particular its own reactivation never stands in the way of its rehash.
RefusalsAreExplained ==
    [][\A x \in Txs :
         at[x] \in {"reactivate", "rehash", "issue"} /\ at'[x] = "refused" =>
             \/ ~ Exists(user[x])
             \/ saw[x].deactivated # (row[user[x]] = "deactivated")
             \/ saw[x].outdated # (user[x] \in outdated)]_accountVars

\* Every call is answered: no path keeps a row locked.
CallsEnd == \A x \in Txs : Running(x) ~> at[x] \in Ended

\* InvalidCredentialsError: "Raised when authentication fails due to incorrect
\* credentials": the credentials of an existing account are not refused.
CorrectLoginAccepted ==
    [][\A x \in Txs :
         at[x] \in {"reactivate", "rehash", "issue"} /\ at'[x] = "refused"
             => ~ Exists(user[x])]_accountVars
=============================================================================
