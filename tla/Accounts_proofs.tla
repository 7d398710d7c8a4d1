-------------------------- MODULE Accounts_proofs --------------------------
(* Theorems about Accounts, for any number of accounts, names and calls.   *)
EXTENDS Accounts, TLAPS

-----------------------------------------------------------------------------
(* The invariant *)

\* What a call knows of the account it works on: its password was verified,
\* a rehash follows what was read and written, an inserted token keeps the row,
\* and an inserted row keeps the name.
Local(x) ==
    /\ at[x] \in {"register", "reactivate", "rehash", "issue", "commit"} =>
           user[x] \in Users /\ password[x] = user[x]
    /\ at[x] = "rehash" => saw[x].outdated /\ (saw[x].deactivated => did[x].reactivated)
    /\ at[x] = "commit" => Exists(user[x])
    /\ at[x] = "register" => row[user[x]] = "none" /\ ~ NameTaken(NameOf[user[x]])

\* One registration of a name at a time.
OneClaim ==
    \A x, y \in Txs :
        at[x] = "register" /\ at[y] = "register" /\ NameOf[user[x]] = NameOf[user[y]] => x = y

\* The inductive invariant.
Inv == /\ TypeOK
       /\ SessionsAreOwned
       /\ UniqueNames
       /\ OneClaim
       /\ \A x \in Txs : Local(x)

-----------------------------------------------------------------------------
(* Steps of a call that commit nothing *)

\* A step of x leaves the other calls where they are.
OthersKept(x) ==
    \A y \in Txs : y # x => /\ at'[y] = at[y] /\ user'[y] = user[y]
                            /\ password'[y] = password[y]
                            /\ saw'[y] = saw[y] /\ did'[y] = did[y]

\* A step of x that leaves the rows, and claims no name.
LEMMA QuietStep ==
    ASSUME Inv, NEW x \in Txs, UNCHANGED table, TypeOK', OthersKept(x), Local(x)',
           at'[x] # "register"
    PROVE  Inv'
<1>0. row' = row /\ sessions' = sessions
  BY DEF table
<1>1. SessionsAreOwned' /\ UniqueNames'
  BY <1>0 DEF Inv, SessionsAreOwned, UniqueNames, Exists
<1>2. OneClaim'
  BY DEF Inv, OneClaim, OthersKept
<1>3. ASSUME NEW y \in Txs, y # x PROVE Local(y)'
  <2>1. /\ at'[y] = at[y] /\ user'[y] = user[y] /\ password'[y] = password[y]
        /\ saw'[y] = saw[y] /\ did'[y] = did[y] /\ Local(y)
    BY <1>3 DEF OthersKept, Inv
  <2> QED
    BY <1>0, <2>1 DEF Local, Exists, NameTaken
<1> QED
  BY <1>1, <1>2, <1>3 DEF Inv

\* The locks that a transaction drops.
LEMMA ReleasedType ==
    ASSUME TypeOK, NEW x \in Txs PROVE Released(x) \in [Users -> Txs \cup {NoTx}]
BY DEF TypeOK, Released

\* A transaction that ends without effect.
LEMMA RollbackInv ==
    ASSUME Inv, NEW x \in Txs, NEW p \in Ended, Rollback(x, p) PROVE Inv'
<1>1. /\ lock' = Released(x) /\ did' = [did EXCEPT ![x] = Untouched]
      /\ at' = [at EXCEPT ![x] = p] /\ UNCHANGED table
      /\ password' = password /\ user' = user /\ saw' = saw
  BY DEF Rollback, Goto
<1>2. TypeOK'
  <2>1. TypeOK
    BY DEF Inv
  <2>2. lock' \in [Users -> Txs \cup {NoTx}]
    BY <1>1, <2>1, ReleasedType
  <2>3. did' \in [Txs -> [reactivated : BOOLEAN, rehashed : BOOLEAN]]
    <3>1. Untouched \in [reactivated : BOOLEAN, rehashed : BOOLEAN]
      BY DEF Untouched
    <3> QED
      BY <1>1, <2>1, <3>1 DEF TypeOK
  <2>4. at' \in [Txs -> Points]
    BY <1>1, <2>1 DEF TypeOK, Points, Ended
  <2> QED
    BY <1>1, <2>1, <2>2, <2>3, <2>4 DEF TypeOK, table
<1>3. OthersKept(x) /\ at'[x] = p
  BY <1>1 DEF OthersKept, Inv, TypeOK
<1>4. Local(x)' /\ at'[x] # "register"
  BY <1>3 DEF Local, Ended
<1> QED
  BY <1>1, <1>2, <1>3, <1>4, QuietStep

\* A step of x that only moves it.
LEMMA MoveInv ==
    ASSUME Inv, NEW x \in Txs, NEW p \in {"commit"} \cup Ended, Goto(x, p),
           UNCHANGED <<table, lock, password, user, saw, did>>,
           p = "commit" => user[x] \in Users /\ password[x] = user[x] /\ Exists(user[x])
    PROVE  Inv'
<1>1. /\ UNCHANGED table /\ lock' = lock /\ password' = password /\ user' = user
      /\ saw' = saw /\ did' = did /\ at' = [at EXCEPT ![x] = p]
  BY DEF Goto
<1>2. TypeOK'
  BY <1>1 DEF Inv, TypeOK, Points, Ended, table
<1>3. OthersKept(x) /\ at'[x] = p
  BY <1>1 DEF OthersKept, Inv, TypeOK
<1>4. Local(x)' /\ at'[x] # "register"
  BY <1>1, <1>3 DEF Local, Ended, Exists, table
<1> QED
  BY <1>1, <1>2, <1>3, <1>4, QuietStep

\* An UPDATE of the row by x, which becomes its holder.
LEMMA UpdateInv ==
    ASSUME Inv, NEW x \in Txs, NEW p \in {"rehash", "issue"}, Goto(x, p),
           at[x] \in {"reactivate", "rehash"},
           lock' = [lock EXCEPT ![user[x]] = x],
           NEW d \in [reactivated : BOOLEAN, rehashed : BOOLEAN],
           did' = [did EXCEPT ![x] = d],
           UNCHANGED <<table, password, user, saw>>,
           p = "rehash" => saw[x].outdated /\ d.reactivated
    PROVE  Inv'
<1>1. /\ UNCHANGED table /\ password' = password /\ user' = user /\ saw' = saw
      /\ at' = [at EXCEPT ![x] = p]
  BY DEF Goto
<1>2. user[x] \in Users /\ password[x] = user[x]
  BY DEF Inv, Local
<1>3. TypeOK'
  <2>1. did' \in [Txs -> [reactivated : BOOLEAN, rehashed : BOOLEAN]]
    BY DEF Inv, TypeOK
  <2>2. lock' \in [Users -> Txs \cup {NoTx}]
    BY <1>2 DEF Inv, TypeOK
  <2>3. at' \in [Txs -> Points]
    BY <1>1 DEF Inv, TypeOK, Points
  <2> QED
    BY <1>1, <2>1, <2>2, <2>3 DEF Inv, TypeOK, table
<1>4. OthersKept(x) /\ at'[x] = p /\ did'[x] = d
  BY <1>1 DEF OthersKept, Inv, TypeOK
<1>5. Local(x)' /\ at'[x] # "register"
  BY <1>1, <1>2, <1>4 DEF Local
<1> QED
  BY <1>1, <1>3, <1>4, <1>5, QuietStep

\* login has read the row and verified the password.
LEMMA LoginInv ==
    ASSUME Inv, NEW x \in Txs, NEW u \in Users, NEW p \in Users, Login(x, u, p) PROVE Inv'
<1> DEFINE s == [deactivated |-> row[u] = "deactivated", outdated |-> u \in outdated]
<1>1. /\ UNCHANGED table /\ lock' = lock /\ did' = did
      /\ user' = [user EXCEPT ![x] = u] /\ password' = [password EXCEPT ![x] = u]
      /\ saw' = [saw EXCEPT ![x] = s] /\ at' = [at EXCEPT ![x] = AfterSelect(s)]
  BY DEF Login, Goto
<1>2. s \in [deactivated : BOOLEAN, outdated : BOOLEAN]
  OBVIOUS
<1>3. /\ AfterSelect(s) \in {"reactivate", "rehash", "issue"}
      /\ AfterSelect(s) = "rehash" => s.outdated /\ ~ s.deactivated
  BY DEF AfterSelect
<1> HIDE DEF s
<1>4. TypeOK'
  <2>1. saw' \in [Txs -> [deactivated : BOOLEAN, outdated : BOOLEAN]]
    BY <1>1, <1>2 DEF Inv, TypeOK
  <2>2. at' \in [Txs -> Points]
    BY <1>1, <1>3 DEF Inv, TypeOK, Points
  <2>3. user' \in [Txs -> Users \cup {NoUser}] /\ password' \in [Txs -> Users \cup {NoUser}]
    BY <1>1 DEF Inv, TypeOK
  <2> QED
    BY <1>1, <2>1, <2>2, <2>3 DEF Inv, TypeOK, table
<1>5. /\ OthersKept(x) /\ at'[x] = AfterSelect(s) /\ saw'[x] = s
      /\ user'[x] = u /\ password'[x] = u
  BY <1>1 DEF OthersKept, Inv, TypeOK
<1>6. Local(x)' /\ at'[x] # "register"
  BY <1>3, <1>5 DEF Local
<1> QED
  BY <1>1, <1>4, <1>5, <1>6, QuietStep

\* register has inserted its row: a row of its own, with a name of its own.
LEMMA RegisterInv ==
    ASSUME Inv, NEW x \in Txs, NEW u \in Users, Register(x, u) PROVE Inv'
<1>1. /\ row' = row /\ outdated' = outdated /\ sessions' = sessions /\ lock' = lock
      /\ saw' = saw /\ did' = did /\ row[u] = "none" /\ ~ NameTaken(NameOf[u])
      /\ user' = [user EXCEPT ![x] = u] /\ password' = [password EXCEPT ![x] = u]
      /\ at' = [at EXCEPT ![x] = "register"]
      /\ \A y \in Txs : ~ (at[y] = "register" /\ NameOf[user[y]] = NameOf[u])
  BY DEF Register, Goto, table, NameFree
<1>2. TypeOK'
  BY <1>1 DEF Inv, TypeOK, Points
<1>3. /\ OthersKept(x) /\ at'[x] = "register" /\ user'[x] = u /\ password'[x] = u
  BY <1>1 DEF OthersKept, Inv, TypeOK
<1>4. SessionsAreOwned' /\ UniqueNames'
  BY <1>1 DEF Inv, SessionsAreOwned, UniqueNames, Exists
<1>5. OneClaim'
  BY <1>1, <1>3 DEF Inv, OneClaim, OthersKept
<1>6. ASSUME NEW y \in Txs, y # x PROVE Local(y)'
  <2>1. /\ at'[y] = at[y] /\ user'[y] = user[y] /\ password'[y] = password[y]
        /\ saw'[y] = saw[y] /\ did'[y] = did[y] /\ Local(y)
    BY <1>3, <1>6 DEF OthersKept, Inv
  <2> QED
    BY <1>1, <2>1 DEF Local, Exists, NameTaken
<1>7. Local(x)'
  BY <1>1, <1>3 DEF Local, Exists, NameTaken
<1> QED
  BY <1>2, <1>4, <1>5, <1>6, <1>7 DEF Inv

-----------------------------------------------------------------------------
(* Steps that change the rows *)

\* What a step that changes the row u keeps for the calls it does not move:
\* it brings no name into being that somebody claims, and removes no row
\* that an inserted token refers to.
LEMMA RowFrame ==
    ASSUME Inv, NEW u \in Users, NEW y \in Txs,
           \A v \in Users : v # u => row'[v] = row[v],
           Exists(u)' => Exists(u) \/ ~ (at[y] = "register" /\ NameOf[user[y]] = NameOf[u]),
           Exists(u) => Exists(u)' \/ ~ (at[y] = "commit" /\ user[y] = u),
           row[u] = "none" => (at[y] = "register" => user[y] # u),
           row'[u] # "none",
           /\ at'[y] = at[y] /\ user'[y] = user[y] /\ password'[y] = password[y]
           /\ saw'[y] = saw[y] /\ did'[y] = did[y]
    PROVE  Local(y)'
<1>0. Local(y)
  BY DEF Inv
<1>1. at[y] = "commit" => Exists(user[y])'
  BY <1>0 DEF Local, Exists
<1>2. at[y] = "register" => row'[user[y]] = "none"
  BY <1>0 DEF Local
<1>3. at[y] = "register" => ~ NameTaken(NameOf[user[y]])'
  BY <1>0 DEF Local, Exists, NameTaken
<1> QED
  BY <1>0, <1>1, <1>2, <1>3 DEF Local, Exists, NameTaken

\* The commit of a registration.
LEMMA RegisterCommitInv ==
    ASSUME Inv, AccountsAssumption, NEW x \in Txs, NEW p \in {"returned", "failed"},
           RegisterCommit(x, p)
    PROVE  Inv'
<1>0. PICK u \in Users : /\ user[x] = u /\ password[x] = u
                         /\ row[u] = "none" /\ ~ NameTaken(NameOf[u])
  BY DEF RegisterCommit, Inv, Local
<1>1. /\ row' = [row EXCEPT ![u] = "active"] /\ at' = [at EXCEPT ![x] = p]
      /\ sessions' = sessions \cup {[call |-> x, user |-> u, password |-> u]}
      /\ outdated' = outdated /\ lock' = lock /\ password' = password /\ user' = user
      /\ saw' = saw /\ did' = did /\ at[x] = "register"
  BY <1>0 DEF RegisterCommit, Goto, Session
<1>2. /\ row'[u] = "active" /\ \A v \in Users : v # u => row'[v] = row[v]
      /\ OthersKept(x) /\ at'[x] = p
  BY <1>0, <1>1 DEF Inv, TypeOK, OthersKept
<1>3. TypeOK'
  <2>1. sessions' \subseteq [call : Txs, user : Users, password : Users]
    BY <1>0, <1>1 DEF Inv, TypeOK
  <2> QED
    BY <1>0, <1>1, <2>1 DEF Inv, TypeOK, Points
<1>4. SessionsAreOwned'
  <2>1. \A v \in Users : Exists(v) => Exists(v)'
    BY <1>2 DEF Exists
  <2>2. Exists(u)'
    BY <1>2 DEF Exists
  <2>3. ASSUME NEW s \in sessions PROVE Exists(s.user)' /\ s.password = s.user
    <3>1. s.user \in Users /\ Exists(s.user) /\ s.password = s.user
      BY DEF Inv, TypeOK, SessionsAreOwned
    <3> QED
      BY <2>1, <3>1
  <2>4. \A s \in sessions' : Exists(s.user)' /\ s.password = s.user
    BY <1>1, <2>2, <2>3
  <2> QED
    BY <2>4 DEF SessionsAreOwned
<1>5. UniqueNames'
  BY <1>0, <1>2 DEF Inv, UniqueNames, NameTaken, Exists
<1>6. OneClaim'
  BY <1>1, <1>2 DEF Inv, OneClaim, OthersKept
<1>7. ASSUME NEW y \in Txs, y # x PROVE Local(y)'
  <2>1. at[y] = "register" => NameOf[user[y]] # NameOf[u]
    BY <1>0, <1>1, <1>7 DEF Inv, OneClaim
  <2>2. /\ at'[y] = at[y] /\ user'[y] = user[y] /\ password'[y] = password[y]
        /\ saw'[y] = saw[y] /\ did'[y] = did[y]
    BY <1>2, <1>7 DEF OthersKept
  <2>3. Exists(u)' /\ row'[u] # "none"
    BY <1>2 DEF Exists
  <2>4. at[y] = "register" => user[y] # u
    BY <2>1
  <2> QED
    BY <1>0, <1>2, <2>1, <2>2, <2>3, <2>4, RowFrame
<1>8. Local(x)'
  BY <1>2 DEF Local
<1> QED
  BY <1>3, <1>4, <1>5, <1>6, <1>7, <1>8 DEF Inv

\* The commit of a login.
LEMMA LoginCommitInv ==
    ASSUME Inv, AccountsAssumption, NEW x \in Txs, NEW answer \in {"returned", "failed"},
           LoginCommit(x, answer)
    PROVE  Inv'
<1>0. PICK u \in Users : user[x] = u /\ password[x] = u /\ Exists(u)
  BY DEF LoginCommit, Inv, Local
<1>01. PICK p \in {"publish"} \cup Ended :
          p = IF answer = "returned" /\ did[x] # Untouched THEN "publish" ELSE answer
  BY DEF Ended
<1>00. PICK r \in {"active", "deactivated"} :
          r = IF did[x].reactivated THEN "active" ELSE row[u]
  BY <1>0 DEF Exists
<1>1. /\ row' = [row EXCEPT ![u] = r] /\ at' = [at EXCEPT ![x] = p]
      /\ sessions' = sessions \cup {[call |-> x, user |-> u, password |-> u]}
      /\ outdated' = outdated \ {u} \/ outdated' = outdated
      /\ lock' = Released(x) /\ password' = password /\ user' = user
      /\ saw' = saw /\ did' = [did EXCEPT ![x] = Untouched] /\ at[x] = "commit"
  BY <1>0, <1>00, <1>01 DEF LoginCommit, Goto, Session
<1>2. /\ row'[u] = r /\ \A v \in Users : v # u => row'[v] = row[v]
      /\ OthersKept(x) /\ at'[x] = p
  BY <1>0, <1>1 DEF Inv, TypeOK, OthersKept
<1>3. TypeOK'
  <2>1. sessions' \subseteq [call : Txs, user : Users, password : Users]
    BY <1>0, <1>1 DEF Inv, TypeOK
  <2>2. lock' \in [Users -> Txs \cup {NoTx}]
    BY <1>1, ReleasedType DEF Inv
  <2>3. did' \in [Txs -> [reactivated : BOOLEAN, rehashed : BOOLEAN]]
    <3>1. Untouched \in [reactivated : BOOLEAN, rehashed : BOOLEAN]
      BY DEF Untouched
    <3> QED
      BY <1>1, <3>1 DEF Inv, TypeOK
  <2>4. at' \in [Txs -> Points]
    BY <1>0, <1>1 DEF Inv, TypeOK, Points, Ended
  <2>5. row' \in [Users -> {"none", "active", "deactivated", "gone"}]
    BY <1>00, <1>1 DEF Inv, TypeOK
  <2>6. outdated' \subseteq Users
    BY <1>1 DEF Inv, TypeOK
  <2> QED
    BY <1>1, <2>1, <2>2, <2>3, <2>4, <2>5, <2>6 DEF Inv, TypeOK
<1>4. \A v \in Users : Exists(v) <=> Exists(v)'
  BY <1>0, <1>00, <1>2 DEF Exists
<1>5. SessionsAreOwned'
  <2>1. ASSUME NEW s \in sessions PROVE Exists(s.user)' /\ s.password = s.user
    <3>1. s.user \in Users /\ Exists(s.user) /\ s.password = s.user
      BY DEF Inv, TypeOK, SessionsAreOwned
    <3> QED
      BY <1>4, <3>1
  <2>2. \A s \in sessions' : Exists(s.user)' /\ s.password = s.user
    BY <1>0, <1>1, <1>4, <2>1
  <2> QED
    BY <2>2 DEF SessionsAreOwned
<1>6. UniqueNames'
  BY <1>4 DEF Inv, UniqueNames
<1>7. OneClaim'
  BY <1>0, <1>2 DEF Inv, OneClaim, OthersKept, Ended
<1>8. ASSUME NEW y \in Txs, y # x PROVE Local(y)'
  <2>1. /\ at'[y] = at[y] /\ user'[y] = user[y] /\ password'[y] = password[y]
        /\ saw'[y] = saw[y] /\ did'[y] = did[y]
    BY <1>2, <1>8 DEF OthersKept
  <2>2. Exists(u) /\ Exists(u)' /\ row[u] # "none" /\ row'[u] # "none"
    BY <1>0, <1>4, <1>00, <1>2 DEF Exists
  <2> QED
    BY <1>0, <1>2, <2>1, <2>2, RowFrame
<1>9. Local(x)'
  BY <1>0, <1>2 DEF Local, Ended
<1> QED
  BY <1>3, <1>5, <1>6, <1>7, <1>8, <1>9 DEF Inv

\* deactivate_account and reactivate_account.
LEMMA SetDeactivatedInv ==
    ASSUME Inv, NEW u \in Users, NEW r \in {"active", "deactivated"}, SetDeactivated(u, r)
    PROVE  Inv'
<1>1. /\ row' = [row EXCEPT ![u] = r] /\ Exists(u) /\ outdated' = outdated
      /\ sessions' = sessions /\ lock' = lock /\ at' = at /\ password' = password
      /\ user' = user /\ saw' = saw /\ did' = did
  BY DEF SetDeactivated, calls
<1>2. row'[u] = r /\ \A v \in Users : v # u => row'[v] = row[v]
  BY <1>1 DEF Inv, TypeOK
<1>3. TypeOK'
  BY <1>1 DEF Inv, TypeOK
<1>4. \A v \in Users : Exists(v) <=> Exists(v)'
  BY <1>1, <1>2 DEF Exists
<1>5. SessionsAreOwned'
  <2>1. ASSUME NEW s \in sessions PROVE Exists(s.user)' /\ s.password = s.user
    <3>1. s.user \in Users /\ Exists(s.user) /\ s.password = s.user
      BY DEF Inv, TypeOK, SessionsAreOwned
    <3> QED
      BY <1>4, <3>1
  <2> QED
    BY <1>1, <2>1 DEF SessionsAreOwned
<1>6. UniqueNames' /\ OneClaim'
  BY <1>1, <1>4 DEF Inv, UniqueNames, OneClaim
<1>7. ASSUME NEW y \in Txs PROVE Local(y)'
  <2>1. /\ at'[y] = at[y] /\ user'[y] = user[y] /\ password'[y] = password[y]
        /\ saw'[y] = saw[y] /\ did'[y] = did[y]
    BY <1>1
  <2>2. Exists(u) /\ Exists(u)' /\ row[u] # "none" /\ row'[u] # "none"
    BY <1>1, <1>2 DEF Exists
  <2> QED
    BY <1>2, <2>1, <2>2, RowFrame
<1> QED
  BY <1>3, <1>5, <1>6, <1>7 DEF Inv

\* delete_account: no inserted token refers to the row.
LEMMA DeleteAccountInv ==
    ASSUME Inv, NEW u \in Users, DeleteAccount(u) PROVE Inv'
<1>1. /\ row' = [row EXCEPT ![u] = "gone"] /\ Exists(u) /\ outdated' = outdated \ {u}
      /\ sessions' = {s \in sessions : s.user # u} /\ lock' = lock /\ at' = at
      /\ password' = password /\ user' = user /\ saw' = saw /\ did' = did
      /\ \A y \in Txs : ~ (at[y] = "commit" /\ user[y] = u)
  BY DEF DeleteAccount, calls
<1>2. row'[u] = "gone" /\ \A v \in Users : v # u => row'[v] = row[v]
  BY <1>1 DEF Inv, TypeOK
<1>3. TypeOK'
  <2>1. sessions' \subseteq sessions /\ outdated' \subseteq outdated
    BY <1>1
  <2>2. row' \in [Users -> {"none", "active", "deactivated", "gone"}]
    BY <1>1 DEF Inv, TypeOK
  <2> QED
    BY <1>1, <2>1, <2>2 DEF Inv, TypeOK
<1>4. /\ \A v \in Users : Exists(v)' => Exists(v)
      /\ \A v \in Users : v # u /\ Exists(v) => Exists(v)'
  BY <1>1, <1>2 DEF Exists
<1>5. SessionsAreOwned'
  <2>1. ASSUME NEW s \in sessions, s.user # u PROVE Exists(s.user)' /\ s.password = s.user
    <3>1. s.user \in Users /\ Exists(s.user) /\ s.password = s.user
      BY DEF Inv, TypeOK, SessionsAreOwned
    <3> QED
      BY <1>4, <2>1, <3>1
  <2>2. \A s \in sessions' : Exists(s.user)' /\ s.password = s.user
    BY <1>1, <2>1
  <2> QED
    BY <2>2 DEF SessionsAreOwned
<1>6. UniqueNames' /\ OneClaim'
  BY <1>1, <1>4 DEF Inv, UniqueNames, OneClaim
<1>7. ASSUME NEW y \in Txs PROVE Local(y)'
  <2>1. /\ at'[y] = at[y] /\ user'[y] = user[y] /\ password'[y] = password[y]
        /\ saw'[y] = saw[y] /\ did'[y] = did[y]
    BY <1>1
  <2>2. Exists(u) /\ row[u] # "none" /\ row'[u] # "none"
    BY <1>1, <1>2 DEF Exists
  <2> QED
    BY <1>1, <1>2, <2>1, <2>2, RowFrame
<1> QED
  BY <1>3, <1>5, <1>6, <1>7 DEF Inv

-----------------------------------------------------------------------------
(* The theorems *)

\* The accounts that exist at first have names of their own.
LEMMA AccountsStart == Init => Inv
<1> SUFFICES ASSUME Init PROVE Inv
  OBVIOUS
<1>1. TypeOK
  BY AccountsAssumption DEF Init, TypeOK, Points, Untouched
<1>2. SessionsAreOwned
  BY DEF Init, SessionsAreOwned
<1>3. UniqueNames
  BY AccountsAssumption DEF Init, UniqueNames, Exists
<1>4. OneClaim /\ \A x \in Txs : Local(x)
  BY DEF Init, OneClaim, Local
<1> QED
  BY <1>1, <1>2, <1>3, <1>4 DEF Inv

\* Every step keeps the invariant.
LEMMA AccountsStep ==
    ASSUME Inv, [Next]_accountVars PROVE Inv'
<1>1. ASSUME NEW x \in Txs, NEW u \in Users, Register(x, u) PROVE Inv'
  BY <1>1, RegisterInv
<1>2. ASSUME NEW x \in Txs,
             \/ \E n \in Names : RegisterTaken(x, n)
             \/ \E n \in Names, p \in Users : LoginDenied(x, n, p)
             \/ LoginRefused(x) \/ Fail(x)
      PROVE  Inv'
  <2>1. PICK p \in Ended : Rollback(x, p)
    BY <1>2 DEF RegisterTaken, LoginDenied, LoginRefused, Fail, Ended
  <2> QED
    BY <2>1, RollbackInv
<1>3. ASSUME NEW x \in Txs, NEW u \in Users, NEW p \in Users, Login(x, u, p) PROVE Inv'
  BY <1>3, LoginInv
<1>4. ASSUME NEW x \in Txs, NEW p \in {"returned", "failed"}, RegisterCommit(x, p) PROVE Inv'
  BY <1>4, RegisterCommitInv, AccountsAssumption
<1>5. ASSUME NEW x \in Txs, NEW p \in {"returned", "failed"}, LoginCommit(x, p) PROVE Inv'
  BY <1>5, LoginCommitInv, AccountsAssumption
<1>6. ASSUME NEW x \in Txs, NEW p \in {"returned", "failed"}, Publish(x, p) PROVE Inv'
  <2>1. Goto(x, p) /\ UNCHANGED <<table, lock, password, user, saw, did>>
    BY <1>6 DEF Publish
  <2>2. p \in {"commit"} \cup Ended /\ p # "commit"
    BY <1>6 DEF Ended
  <2> QED
    BY <2>1, <2>2, MoveInv
<1>7. ASSUME NEW x \in Txs, Issue(x) PROVE Inv'
  <2>1. /\ Goto(x, "commit") /\ UNCHANGED <<table, lock, password, user, saw, did>>
        /\ at[x] = "issue" /\ Exists(user[x])
    BY <1>7 DEF Issue, HasUser
  <2>2. user[x] \in Users /\ password[x] = user[x]
    BY <2>1 DEF Inv, Local
  <2> QED
    BY <2>1, <2>2, MoveInv
<1>8. ASSUME NEW x \in Txs, Reactivate(x) PROVE Inv'
  <2>1. PICK d \in [reactivated : BOOLEAN, rehashed : BOOLEAN] :
            d = [did[x] EXCEPT !.reactivated = TRUE]
    BY DEF Inv, TypeOK
  <2>2. did' = [did EXCEPT ![x] = d] /\ d.reactivated
    BY <1>8, <2>1 DEF Reactivate, Inv, TypeOK
  <2>3. /\ at[x] \in {"reactivate", "rehash"} /\ Goto(x, AfterReactivate(saw[x]))
        /\ lock' = [lock EXCEPT ![user[x]] = x] /\ UNCHANGED <<table, password, user, saw>>
    BY <1>8 DEF Reactivate
  <2>4. /\ AfterReactivate(saw[x]) \in {"rehash", "issue"}
        /\ AfterReactivate(saw[x]) = "rehash" => saw[x].outdated
    BY DEF AfterReactivate
  <2> QED
    BY <2>2, <2>3, <2>4, UpdateInv
<1>9. ASSUME NEW x \in Txs, Rehash(x) PROVE Inv'
  <2>1. PICK d \in [reactivated : BOOLEAN, rehashed : BOOLEAN] :
            d = [did[x] EXCEPT !.rehashed = TRUE]
    BY DEF Inv, TypeOK
  <2>2. did' = [did EXCEPT ![x] = d]
    BY <1>9, <2>1 DEF Rehash, Inv, TypeOK
  <2>3. /\ at[x] \in {"reactivate", "rehash"} /\ Goto(x, "issue")
        /\ lock' = [lock EXCEPT ![user[x]] = x] /\ UNCHANGED <<table, password, user, saw>>
    BY <1>9 DEF Rehash
  <2> QED
    BY <2>2, <2>3, UpdateInv
<1>10. ASSUME NEW u \in Users, NEW r \in {"active", "deactivated"}, SetDeactivated(u, r)
       PROVE  Inv'
  BY <1>10, SetDeactivatedInv
<1>11. ASSUME NEW u \in Users, DeleteAccount(u) PROVE Inv'
  BY <1>11, DeleteAccountInv
<1>12. ASSUME UNCHANGED accountVars PROVE Inv'
  <2>1. UNCHANGED <<row, outdated, sessions, lock, at, password, user, saw, did>>
    BY <1>12 DEF accountVars, table, calls
  <2> QED
    BY <2>1 DEF Inv, TypeOK, SessionsAreOwned, UniqueNames, OneClaim, Local, Exists, NameTaken
<1> QED
  BY <1>1, <1>2, <1>3, <1>4, <1>5, <1>6, <1>7, <1>8, <1>9, <1>10, <1>11, <1>12
     DEF Next, Proceed

\* Every reachable state has the right types.
THEOREM AccountsTypes == Spec => []TypeOK
<1>1. Inv => TypeOK
  BY DEF Inv
<1> QED
  BY <1>1, AccountsStart, AccountsStep, PTL DEF Spec

\* However register, login, deactivation and deletion interleave, a token pair
\* belongs to an existing account whose password was presented: login works
\* on by user_id, and the foreign keys of the tokens refuse a deleted one.
THEOREM SessionsSafe == Spec => []SessionsAreOwned
<1>1. Inv => SessionsAreOwned
  BY DEF Inv
<1> QED
  BY <1>1, AccountsStart, AccountsStep, PTL DEF Spec

\* uq_users_username, waiting for registrations under way, keeps the names of
\* the existing accounts apart.
THEOREM NamesSafe == Spec => []UniqueNames
<1>1. Inv => UniqueNames
  BY DEF Inv
<1> QED
  BY <1>1, AccountsStart, AccountsStep, PTL DEF Spec

\* A verified login is refused only if the row was changed after login read
\* it: reactivating before rehashing keeps CHANGE_PASSWORD from missing it.
THEOREM RefusalsExplained == Spec => RefusalsAreExplained
<1> DEFINE Explained(x) ==
        \/ ~ Exists(user[x])
        \/ saw[x].deactivated # (row[user[x]] = "deactivated")
        \/ saw[x].outdated # (user[x] \in outdated)
<1>1. ASSUME Inv, NEW x \in Txs, LoginRefused(x) PROVE Explained(x)
  <2>1. CASE at[x] # "rehash"
    BY <1>1, <2>1 DEF LoginRefused, HasUser
  <2>2. CASE at[x] = "rehash"
    <3>1. /\ saw[x].outdated /\ (saw[x].deactivated => did[x].reactivated)
          /\ saw[x] \in [deactivated : BOOLEAN, outdated : BOOLEAN]
      BY <1>1, <2>2 DEF Inv, Local, TypeOK
    <3>2. ~ SeesActive(x) \/ user[x] \notin outdated
      BY <1>1, <2>2 DEF LoginRefused, Unchanged
    <3>3. CASE user[x] \notin outdated
      BY <3>1, <3>3
    <3>4. CASE ~ SeesActive(x)
      <4>1. row[user[x]] # "active" /\ (Exists(user[x]) => ~ did[x].reactivated)
        BY <3>4 DEF SeesActive
      <4>2. Exists(user[x]) => row[user[x]] = "deactivated" /\ ~ saw[x].deactivated
        BY <3>1, <4>1 DEF Exists
      <4> QED
        BY <3>1, <4>2
    <3> QED
      BY <3>2, <3>3, <3>4
  <2> QED
    BY <2>1, <2>2
<1>2. ASSUME Inv, NEW x \in Txs, [Next]_accountVars, ~ LoginRefused(x),
             at[x] \in {"reactivate", "rehash", "issue"}
      PROVE  at'[x] # "refused"
  <2>0. at \in [Txs -> Points]
    BY <1>2 DEF Inv, TypeOK
  <2>1. ASSUME NEW y \in Txs, y # x, NEW p, Goto(y, p) PROVE at'[x] = at[x]
    BY <2>0, <2>1 DEF Goto
  <2>2. ASSUME NEW p, p # "refused", Goto(x, p) PROVE at'[x] # "refused"
    BY <2>0, <2>2 DEF Goto
  <2>3. ASSUME NEW y \in Txs,
               \/ \E u \in Users : Register(y, u)
               \/ \E n \in Names : RegisterTaken(y, n)
               \/ \E u, p \in Users : Login(y, u, p)
               \/ \E n \in Names, p \in Users : LoginDenied(y, n, p)
        PROVE  at'[x] # "refused"
    <3>1. (\E p : Goto(y, p)) /\ y # x
      BY <1>2, <2>3 DEF Register, RegisterTaken, Login, LoginDenied, Rollback
    <3> QED
      BY <1>2, <2>1, <3>1
  <2>4. ASSUME NEW y \in Txs, LoginRefused(y) PROVE at'[x] # "refused"
    <3>1. Goto(y, "refused") /\ y # x
      BY <1>2, <2>4 DEF LoginRefused, Rollback
    <3> QED
      BY <1>2, <2>1, <3>1
  <2>5. ASSUME NEW y \in Txs,
               \/ \E p \in {"returned", "failed"} : \/ RegisterCommit(y, p) \/ LoginCommit(y, p)
                                                  \/ Publish(y, p)
               \/ Reactivate(y) \/ Rehash(y) \/ Issue(y) \/ Fail(y)
        PROVE  at'[x] # "refused"
    <3>1. PICK p \in Points : p # "refused" /\ Goto(y, p)
      BY <2>5 DEF RegisterCommit, LoginCommit, Publish, Reactivate, Rehash, Issue, Fail,
                  Rollback, AfterReactivate, Points
    <3> QED
      BY <1>2, <2>1, <2>2, <3>1
  <2>6. CASE at' = at
    BY <1>2, <2>6
  <2>7. ASSUME NEW u \in Users,
               \/ SetDeactivated(u, "deactivated") \/ SetDeactivated(u, "active")
               \/ DeleteAccount(u)
        PROVE  at' = at
    BY <2>7 DEF SetDeactivated, DeleteAccount, calls
  <2>8. UNCHANGED accountVars => at' = at
    BY DEF accountVars, calls
  <2> QED
    BY <1>2, <2>3, <2>4, <2>5, <2>6, <2>7, <2>8 DEF Next, Proceed
<1>3. Inv /\ [Next]_accountVars =>
          [\A x \in Txs :
             at[x] \in {"reactivate", "rehash", "issue"} /\ at'[x] = "refused" =>
                 \/ ~ Exists(user[x])
                 \/ saw[x].deactivated # (row[user[x]] = "deactivated")
                 \/ saw[x].outdated # (user[x] \in outdated)]_accountVars
  BY <1>1, <1>2
<1> QED
  BY <1>3, AccountsStart, AccountsStep, PTL DEF Spec, RefusalsAreExplained
=============================================================================
