------------------------------ MODULE Rotation ------------------------------
(***************************************************************************)
(* The token transactions of AuthService (src/services/auth.py): login,    *)
(* refresh with reuse detection, and logout, statement by statement at the *)
(* READ COMMITTED isolation that src/database/connection.py asks for.      *)
(*                                                                         *)
(* refresh and access are the committed rows of refresh_tokens and         *)
(* access_tokens.  A transaction sees the rows committed when a statement  *)
(* begins, locks the rows it selects FOR UPDATE or updates one by one,     *)
(* waits where another transaction holds one, and publishes its writes     *)
(* when it commits: the rows it has locked become revoked and the pair it  *)
(* has inserted becomes live.  A cycle of waiting transactions is broken   *)
(* by the database, which aborts one of them.  Nothing is retried: a       *)
(* generator cannot be re-entered by the retry decorator of transaction(). *)
(***************************************************************************)
EXTENDS Naturals, FiniteSets

CONSTANTS
    Users,      \* accounts
    Pairs,      \* token pairs that may be generated
    UserOf,     \* the account a pair is issued to
    Established,\* the pairs of logins made before the behaviour begins
    Txs,        \* requests, each of which runs one transaction
    MayFail,    \* whether statements and commits may fail
    NoTx,       \* no transaction
    NoPair      \* no pair: no access token in a logout, no new pair in a transaction

ASSUME RotationAssumption ==
    /\ UserOf \in [Pairs -> Users]
    /\ Established \subseteq Pairs
    /\ MayFail \in BOOLEAN
    /\ NoTx \notin Txs
    /\ NoPair \notin Pairs

Rows == {"refresh", "access"} \X Pairs

VARIABLES
    refresh,    \* committed rows of refresh_tokens: none, live, revoked
    access,     \* committed rows of access_tokens: none, live, revoked
    expired,    \* refresh tokens whose expires_at has passed
    family,     \* the login that a pair descends from
    lock,       \* the transaction that holds a row
    at,         \* where a transaction is
    token,      \* the refresh token presented with a request
    extra,      \* the access token presented with a logout
    new,        \* the pair inserted by a transaction
    todo        \* the rows its current statement has still to lock

tables == <<refresh, access, expired, family>>
txVars == <<lock, at, token, extra, new, todo>>
rotationVars == <<tables, txVars>>

\* idle, the statements, and how the request was answered: with a result, with
\* the reuse error, or with any other error.
TxStates == {"idle", "select", "rotate", "wipe", "wipe_access", "wipe_refresh",
             "insert", "drop_refresh", "drop_access", "commit",
             "returned", "reused", "failed"}

Ended == {"returned", "reused", "failed"}

Init ==
    /\ refresh = [p \in Pairs |-> IF p \in Established THEN "live" ELSE "none"]
    /\ access = refresh
    /\ expired = {}
    /\ family = [p \in Pairs |-> p]
    /\ lock = [row \in Rows |-> NoTx]
    /\ at = [x \in Txs |-> "idle"]
    /\ token = [x \in Txs |-> NoPair]
    /\ extra = [x \in Txs |-> NoPair]
    /\ new = [x \in Txs |-> NoPair]
    /\ todo = [x \in Txs |-> {}]

-----------------------------------------------------------------------------
(* Transactions *)

Free(row)    == lock[row] = NoTx
Goto(x, l)   == at' = [at EXCEPT ![x] = l]
Acquire(x, row) == lock' = [lock EXCEPT ![row] = x]

\* Fault: the locks stay.
StillLocked(x) == lock

Released(x) == [row \in Rows |-> IF lock[row] = x THEN NoTx ELSE lock[row]]

\* The rows release their locks; the request has been answered.
Finish(x, answer) ==
    /\ lock' = Released(x)
    /\ todo' = [todo EXCEPT ![x] = {}]
    /\ new' = [new EXCEPT ![x] = NoPair]
    /\ Goto(x, answer)
    /\ UNCHANGED <<token, extra>>

Rollback(x, answer) == Finish(x, answer) /\ UNCHANGED tables

RevokedBy(x, kind, rows) ==
    [p \in Pairs |-> IF lock[<<kind, p>>] = x /\ rows[p] # "none" THEN "revoked"
                     ELSE IF p = new[x] THEN "live" ELSE rows[p]]

\* COMMIT publishes the updates and the insert of the transaction.
Commit(x, answer) ==
    /\ refresh' = RevokedBy(x, "refresh", refresh)
    /\ access' = RevokedBy(x, "access", access)
    /\ family' = [p \in Pairs |-> IF p = new[x] /\ token[x] # NoPair
                                  THEN family[token[x]] ELSE family[p]]
    /\ UNCHANGED expired
    /\ Finish(x, answer)

\* Fault: a revoked pair may be handed out again.
UnusedOrRevoked(p) == refresh[p] # "live" /\ \A x \in Txs : new[x] # p

\* secrets.token_urlsafe: a pair that nobody has generated before.
Unused(p) == refresh[p] = "none" /\ \A x \in Txs : new[x] # p

\* _issue_token_pair: two inserts, invisible until the commit.
IssuePair(x, u) ==
    \E p \in Pairs : Unused(p) /\ UserOf[p] = u /\ new' = [new EXCEPT ![x] = p]

-----------------------------------------------------------------------------
(* login *)

Login(x, u) ==
    /\ at[x] = "idle"
    /\ IssuePair(x, u)
    /\ Goto(x, "insert")
    /\ UNCHANGED <<tables, lock, token, extra, todo>>

LoginCommit(x) ==
    /\ at[x] = "insert"
    /\ Commit(x, "returned")

-----------------------------------------------------------------------------
(* refresh *)

Refresh(x, p) ==
    /\ at[x] = "idle"
    /\ refresh[p] # "none"
    /\ token' = [token EXCEPT ![x] = p]
    /\ Goto(x, "select")
    /\ UNCHANGED <<tables, lock, extra, new, todo>>

\* Fault: the SELECT without FOR UPDATE neither waits nor locks.
WithoutLock(x, row) == UNCHANGED lock

ForUpdate(x, row) == Free(row) /\ Acquire(x, row)

\* get_refresh_token(for_update=True) returns the row as last committed.
Select(x) ==
    LET p == token[x] IN
    /\ at[x] = "select"
    /\ ForUpdate(x, <<"refresh", p>>)
    /\ \/ refresh[p] = "revoked" /\ Goto(x, "wipe")
       \/ refresh[p] = "live" /\ p \notin expired /\ Goto(x, "rotate")
    /\ UNCHANGED <<tables, token, extra, new, todo>>

\* TokenExpiredError leaves the transaction block, which rolls back.
SelectExpired(x) ==
    /\ at[x] = "select"
    /\ Free(<<"refresh", token[x]>>)
    /\ refresh[token[x]] = "live" /\ token[x] \in expired
    /\ Rollback(x, "failed")

\* revoke_refresh_token, an UPDATE of the row that the SELECT has locked, and the
\* inserts.
Rotate(x) ==
    /\ at[x] = "rotate"
    /\ lock[<<"refresh", token[x]>>] \in {NoTx, x}
    /\ Acquire(x, <<"refresh", token[x]>>)
    /\ IssuePair(x, UserOf[token[x]])
    /\ Goto(x, "commit")
    /\ UNCHANGED <<tables, token, extra, todo>>

\* The bound on pairs: a rotation that finds no pair left fails.
RotateUnsupplied(x) ==
    /\ at[x] = "rotate"
    /\ \A p \in Pairs : ~(Unused(p) /\ UserOf[p] = UserOf[token[x]])
    /\ Rollback(x, "failed")

RotateCommit(x) ==
    /\ at[x] = "commit"
    /\ Commit(x, "returned")

Committed(kind, u) ==
    {row \in {kind} \X Pairs : /\ UserOf[row[2]] = u
                               /\ IF kind = "refresh" THEN refresh[row[2]] # "none"
                                  ELSE access[row[2]] # "none"}

\* revoke_all_user_access_tokens: one UPDATE, which finds the rows committed
\* when it begins.
WipeAccess(x) ==
    /\ at[x] = "wipe"
    /\ todo' = [todo EXCEPT ![x] = Committed("access", UserOf[token[x]])]
    /\ Goto(x, "wipe_access")
    /\ UNCHANGED <<tables, lock, token, extra, new>>

\* revoke_all_user_refresh_tokens: the next UPDATE.
WipeRefresh(x) ==
    /\ at[x] = "wipe_access"
    /\ todo[x] = {}
    /\ todo' = [todo EXCEPT ![x] = Committed("refresh", UserOf[token[x]])]
    /\ Goto(x, "wipe_refresh")
    /\ UNCHANGED <<tables, lock, token, extra, new>>

\* An UPDATE reaches one more row, in any order, and waits for its holder.
UpdateRow(x, row) ==
    /\ at[x] \in {"wipe_access", "wipe_refresh"}
    /\ row \in todo[x]
    /\ lock[row] \in {NoTx, x}
    /\ Acquire(x, row)
    /\ todo' = [todo EXCEPT ![x] = @ \ {row}]
    /\ UNCHANGED <<tables, at, token, extra, new>>

WipeCommit(x) ==
    /\ at[x] = "wipe_refresh"
    /\ todo[x] = {}
    /\ Commit(x, "reused")

-----------------------------------------------------------------------------
(* logout *)

\* The Bearer header may carry no access token, one of a pair that exists, or
\* one that has no row: a is NoPair, or any pair.
Logout(x, p, a) ==
    /\ at[x] = "idle"
    /\ refresh[p] # "none"
    /\ token' = [token EXCEPT ![x] = p]
    /\ extra' = [extra EXCEPT ![x] = a]
    /\ Goto(x, "drop_refresh")
    /\ UNCHANGED <<tables, lock, new, todo>>

DropRefresh(x) ==
    /\ at[x] = "drop_refresh"
    /\ Free(<<"refresh", token[x]>>)
    /\ Acquire(x, <<"refresh", token[x]>>)
    /\ Goto(x, "drop_access")
    /\ UNCHANGED <<tables, token, extra, new, todo>>

\* revoke_access_token updates no row and raises; handle_db_not_found_error
\* turns that into a normal return, after the rollback.
DropAccessMissing(x) ==
    /\ at[x] = "drop_access"
    /\ extra[x] # NoPair
    /\ access[extra[x]] = "none"
    /\ Rollback(x, "returned")

DropAccess(x) ==
    /\ at[x] = "drop_access"
    /\ extra[x] # NoPair
    /\ access[extra[x]] # "none"
    /\ lock[<<"access", extra[x]>>] \in {NoTx, x}
    /\ Acquire(x, <<"access", extra[x]>>)
    /\ extra' = [extra EXCEPT ![x] = NoPair]
    /\ UNCHANGED <<tables, at, token, new, todo>>

LogoutCommit(x) ==
    /\ at[x] = "drop_access"
    /\ extra[x] = NoPair
    /\ Commit(x, "returned")

-----------------------------------------------------------------------------
(* Waiting and failing *)

\* The rows that the current statement still needs.
Wants(x) ==
    CASE at[x] \in {"select", "rotate", "drop_refresh"} -> {<<"refresh", token[x]>>}
      [] at[x] \in {"wipe_access", "wipe_refresh"}      -> todo[x]
      [] at[x] = "drop_access" /\ extra[x] # NoPair     -> {<<"access", extra[x]>>}
      [] OTHER                                          -> {}

\* x is one of a set of transactions that all wait for rows held within the set.
Deadlocked(x) ==
    \E cycle \in SUBSET Txs :
        /\ x \in cycle
        /\ \A y \in cycle :
              Wants(y) # {} /\ \A row \in Wants(y) : lock[row] \in cycle \ {y}

\* The deadlock detector of the database has chosen x to be aborted.
DeadlockAbort(x) == Deadlocked(x) /\ Rollback(x, "failed")

Running(x) == at[x] \notin {"idle"} \cup Ended

\* Fault: logout takes every error for the missing access token.
FailSwallowed(x) ==
    /\ MayFail
    /\ Running(x)
    /\ Rollback(x, IF at[x] \in {"drop_refresh", "drop_access"} THEN "returned" ELSE "failed")

\* The connection is lost, a statement times out or the worker dies: the
\* database rolls back.
Fail(x) ==
    /\ MayFail
    /\ Running(x)
    /\ Rollback(x, "failed")

\* The same when the commit has been made and its answer is lost.
FailAfterCommit(x) ==
    /\ MayFail
    /\ \/ at[x] \in {"commit", "insert"}
       \/ at[x] = "wipe_refresh" /\ todo[x] = {}
       \/ at[x] = "drop_access" /\ extra[x] = NoPair
    /\ Commit(x, "failed")

Expire(p) ==
    /\ refresh[p] # "none"
    /\ p \notin expired
    /\ expired' = expired \cup {p}
    /\ UNCHANGED <<refresh, access, family, txVars>>

\* The steps of a request that has begun.
Proceed(x) ==
    \/ LoginCommit(x)
    \/ Select(x) \/ SelectExpired(x) \/ Rotate(x) \/ RotateUnsupplied(x) \/ RotateCommit(x)
    \/ WipeAccess(x) \/ WipeRefresh(x) \/ WipeCommit(x)
    \/ \E row \in Rows : UpdateRow(x, row)
    \/ DropRefresh(x) \/ DropAccess(x) \/ DropAccessMissing(x) \/ LogoutCommit(x)
    \/ DeadlockAbort(x)

Next ==
    \/ \E x \in Txs :
          \/ \E u \in Users : Login(x, u)
          \/ \E p \in Pairs : Refresh(x, p)
          \/ \E p \in Pairs, a \in Pairs \cup {NoPair} : Logout(x, p, a)
          \/ Proceed(x) \/ Fail(x) \/ FailAfterCommit(x)
    \/ \E p \in Pairs : Expire(p)

Spec == Init /\ [][Next]_rotationVars

\* The database executes every statement that waits for no row, and it aborts a
\* deadlocked transaction.  No failure is needed for a request to end.
Fairness == \A x \in Txs : WF_rotationVars(Proceed(x))

LiveSpec == Spec /\ Fairness

-----------------------------------------------------------------------------
(* Properties *)

\* Every variable has its type.
TypeOK ==
    /\ refresh \in [Pairs -> {"none", "live", "revoked"}]
    /\ access \in [Pairs -> {"none", "live", "revoked"}]
    /\ expired \subseteq Pairs
    /\ family \in [Pairs -> Pairs]
    /\ lock \in [Rows -> Txs \cup {NoTx}]
    /\ at \in [Txs -> TxStates]
    /\ token \in [Txs -> Pairs \cup {NoPair}]
    /\ extra \in [Txs -> Pairs \cup {NoPair}]
    /\ new \in [Txs -> Pairs \cup {NoPair}]
    /\ todo \in [Txs -> SUBSET Rows]

\* README "Token Rotation": however many requests present a refresh token at
\* once, and whatever fails, a login never has two live refresh tokens.
FamilySingleLive ==
    \A p, q \in Pairs :
        refresh[p] = "live" /\ refresh[q] = "live" /\ family[p] = family[q] => p = q

\* Every request that has begun is answered: row locks are released on every
\* path, and a cycle of waiting transactions is broken.
RequestsEnd == \A x \in Txs : Running(x) ~> at[x] \in Ended

\* Every row that x still needs is held by another transaction.
Blocked(x) == Wants(x) # {} /\ \A row \in Wants(x) : lock[row] \notin {NoTx, x}

\* A transaction waits only for one that is under way, or in a deadlock that the
\* database detects: no path through login, refresh, reuse or logout leaves a row
\* lock behind.
NobodyIsStuck ==
    \A x \in Txs : Blocked(x) =>
        \/ \E y \in Txs : Running(y) /\ ~Blocked(y)
        \/ \E y \in Txs : Deadlocked(y)

\* A refresh or a logout that was answered normally has revoked the presented
\* refresh token for good, whichever requests run beside it.  Exempt is the
\* logout whose access token has no row: logout answers it like a success.
LogoutSticks ==
    \A x \in Txs :
        at[x] = "returned" /\ token[x] # NoPair /\ extra[x] = NoPair
            => refresh[token[x]] = "revoked"

Alive(f) == {p \in Pairs : refresh[p] = "live" /\ family[p] = f}

\* The live refresh token of a family, of which FamilySingleLive says that there
\* is at most one.
LiveOf(f) == IF Alive(f) = {} THEN NoPair ELSE CHOOSE p \in Alive(f) : TRUE

Families == INSTANCE SessionFamily
    WITH live <- [f \in Pairs |-> LiveOf(f)],
         issued <- {p \in Pairs : refresh[p] # "none"}

\* Rotation implements SessionFamily: at every commit of a login, refresh,
\* reuse or logout transaction, a refresh token is exchanged at most once, for
\* a new one, and a revoked one never comes back.
ImplementsSessionFamily == Families!Spec

\* README "Token Rotation": the reuse of a rotated token "safely triggers the
\* account-wide session revocation protocol"; the error says "All active
\* sessions revoked".  After it, the reused token's own login must be over.
ReuseEndsFamily ==
    \A x \in Txs : at[x] = "reused" =>
        \A p \in Pairs : family[p] = family[token[x]] => refresh[p] # "live"

\* logout, "Revokes refresh and optional access tokens across DB": after a
\* normal return the presented refresh token is revoked.
LogoutRevokes ==
    \A x \in Txs :
        at[x] = "returned" /\ token[x] # NoPair => refresh[token[x]] = "revoked"
=============================================================================
