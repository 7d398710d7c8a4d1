--------------------------- MODULE Rotation_proofs ---------------------------
(***************************************************************************)
(* Proofs about Rotation, for every number of accounts, pairs and requests *)
(* and every pattern of failures.                                          *)
(***************************************************************************)
EXTENDS Rotation, TLAPS

USE DEF tables, txVars, rotationVars

\* Releasing the locks of a request keeps the types.
LEMMA FinishType ==
    ASSUME TypeOK, NEW x \in Txs, NEW answer \in Ended, Finish(x, answer)
    PROVE  /\ lock' \in [Rows -> Txs \cup {NoTx}]
           /\ at' \in [Txs -> TxStates]
           /\ token' \in [Txs -> Pairs \cup {NoPair}]
           /\ extra' \in [Txs -> Pairs \cup {NoPair}]
           /\ new' \in [Txs -> Pairs \cup {NoPair}]
           /\ todo' \in [Txs -> SUBSET Rows]
BY DEF Finish, Goto, TypeOK, Ended, TxStates, Released

\* So does a rollback.
LEMMA RollbackType ==
    ASSUME TypeOK, NEW x \in Txs, NEW answer \in Ended, Rollback(x, answer)
    PROVE  TypeOK'
BY FinishType DEF Rollback, TypeOK

\* So does a commit.
LEMMA CommitType ==
    ASSUME TypeOK, NEW x \in Txs, NEW answer \in Ended, Commit(x, answer)
    PROVE  TypeOK'
<1>1. /\ refresh' \in [Pairs -> {"none", "live", "revoked"}]
      /\ access' \in [Pairs -> {"none", "live", "revoked"}]
  BY DEF Commit, RevokedBy, TypeOK
<1>2. family' \in [Pairs -> Pairs]
  BY RotationAssumption DEF Commit, TypeOK
<1> QED
  BY <1>1, <1>2, FinishType DEF Commit, TypeOK

\* The statements of every request keep the tables and the lock table in type.
THEOREM RotationTypeCorrect == Spec => []TypeOK
<1>1. Init => TypeOK
  BY RotationAssumption DEF Init, TypeOK, TxStates
<1>2. TypeOK /\ [Next]_rotationVars => TypeOK'
  <2> SUFFICES ASSUME TypeOK, [Next]_rotationVars PROVE TypeOK'
    OBVIOUS
  <2> USE RotationAssumption
  <2>0. {"returned", "reused", "failed"} = Ended
    BY DEF Ended
  <2>1. ASSUME NEW x \in Txs, NEW u \in Users, Login(x, u) PROVE TypeOK'
    BY <2>1 DEF Login, IssuePair, Goto, TypeOK, TxStates
  <2>2. ASSUME NEW x \in Txs, NEW p \in Pairs, Refresh(x, p) PROVE TypeOK'
    BY <2>2 DEF Refresh, Goto, TypeOK, TxStates
  <2>3. ASSUME NEW x \in Txs, NEW p \in Pairs, NEW a \in Pairs \cup {NoPair}, Logout(x, p, a)
        PROVE  TypeOK'
    BY <2>3 DEF Logout, Goto, TypeOK, TxStates
  <2>4. ASSUME NEW x \in Txs, Select(x) PROVE TypeOK'
    <3>1. lock' = [lock EXCEPT ![<<"refresh", token[x]>>] = x]
      BY <2>4 DEF Select, Acquire, ForUpdate
    <3>2. Goto(x, "wipe") \/ Goto(x, "rotate")
      BY <2>4 DEF Select
    <3>3. lock' \in [Rows -> Txs \cup {NoTx}]
      BY <3>1 DEF TypeOK
    <3>4. at' \in [Txs -> TxStates]
      BY <3>2 DEF Goto, TypeOK, TxStates
    <3> QED
      BY <2>4, <3>3, <3>4 DEF Select, TypeOK
  <2>5. ASSUME NEW x \in Txs, Rotate(x) PROVE TypeOK'
    <3>1. lock' = [lock EXCEPT ![<<"refresh", token[x]>>] = x]
      BY <2>5 DEF Rotate, Acquire
    <3>2. lock' \in [Rows -> Txs \cup {NoTx}]
      BY <3>1 DEF TypeOK
    <3> QED
      BY <2>5, <3>2 DEF Rotate, IssuePair, Goto, TypeOK, TxStates
  <2>6. ASSUME NEW x \in Txs, WipeAccess(x) \/ WipeRefresh(x) PROVE TypeOK'
    <3>1. todo' \in [Txs -> SUBSET Rows]
      BY <2>6 DEF WipeAccess, WipeRefresh, TypeOK, Committed, Rows
    <3> QED
      BY <2>6, <3>1 DEF WipeAccess, WipeRefresh, Goto, TypeOK, TxStates
  <2>7. ASSUME NEW x \in Txs, NEW row \in Rows, UpdateRow(x, row) PROVE TypeOK'
    BY <2>7 DEF UpdateRow, Acquire, TypeOK
  <2>8. ASSUME NEW x \in Txs, DropRefresh(x) PROVE TypeOK'
    BY <2>8 DEF DropRefresh, Goto, Acquire, TypeOK, TxStates
  <2>9. ASSUME NEW x \in Txs, DropAccess(x) PROVE TypeOK'
    BY <2>9 DEF DropAccess, Acquire, TypeOK
  <2>10. ASSUME NEW x \in Txs, \E answer \in Ended : Rollback(x, answer) PROVE TypeOK'
    BY <2>10, RollbackType
  <2>11. ASSUME NEW x \in Txs, \E answer \in Ended : Commit(x, answer) PROVE TypeOK'
    BY <2>11, CommitType
  <2>12. ASSUME NEW x \in Txs,
                SelectExpired(x) \/ RotateUnsupplied(x) \/ DropAccessMissing(x) \/ DeadlockAbort(x) \/ Fail(x)
         PROVE  TypeOK'
    BY <2>0, <2>10, <2>12 DEF SelectExpired, RotateUnsupplied, DropAccessMissing, DeadlockAbort, Fail
  <2>13. ASSUME NEW x \in Txs, \/ LoginCommit(x) \/ RotateCommit(x) \/ WipeCommit(x)
                               \/ LogoutCommit(x) \/ FailAfterCommit(x)
         PROVE  TypeOK'
    BY <2>0, <2>11, <2>13
       DEF LoginCommit, RotateCommit, WipeCommit, LogoutCommit, FailAfterCommit
  <2>14. ASSUME NEW p \in Pairs, Expire(p) PROVE TypeOK'
    BY <2>14 DEF Expire, TypeOK
  <2>15. CASE UNCHANGED rotationVars
    BY <2>15 DEF TypeOK
  <2> QED
    BY <2>1, <2>2, <2>3, <2>4, <2>5, <2>6, <2>7, <2>8, <2>9, <2>12, <2>13, <2>14, <2>15
       DEF Next, Proceed
<1> QED
  BY <1>1, <1>2, PTL DEF Spec

-----------------------------------------------------------------------------
(* FamilySingleLive *)

\* The strengthening of FamilySingleLive that every step preserves.  A refresh
\* holds the row of the live token it rotates until it commits; what it has
\* inserted is a pair nobody else has; and pairs without a committed row are
\* families of their own that no committed row belongs to.
RotationInv ==
    /\ \A x \in Txs : at[x] \in {"rotate", "commit"} =>
          /\ token[x] \in Pairs
          /\ lock[<<"refresh", token[x]>>] = x
          /\ refresh[token[x]] = "live"
    /\ \A x \in Txs : at[x] = "select" => token[x] \in Pairs
    /\ \A x \in Txs : new[x] # NoPair =>
          refresh[new[x]] = "none" /\ at[x] \in {"insert", "commit"}
    /\ \A x \in Txs : at[x] = "insert" => token[x] = NoPair
    /\ \A x \in Txs : at[x] = "idle" => token[x] = NoPair
    /\ \A x, y \in Txs : new[x] = new[y] /\ new[x] # NoPair => x = y
    /\ \A q \in Pairs : refresh[q] = "none" => family[q] = q
    /\ \A q \in Pairs : refresh[q] # "none" => refresh[family[q]] # "none"

\* Only a rotation and a login insert a pair.
LEMMA CommitSources ==
    ASSUME RotationInv, NEW x \in Txs, new[x] # NoPair
    PROVE  \/ at[x] = "insert" /\ token[x] = NoPair
           \/ at[x] = "commit" /\ token[x] \in Pairs
BY DEF RotationInv

\* What a commit does to one row of refresh_tokens.
LEMMA CommitRow ==
    ASSUME TypeOK, NEW x \in Txs, NEW answer \in Ended, Commit(x, answer), NEW q \in Pairs
    PROVE  /\ lock[<<"refresh", q>>] = x /\ refresh[q] # "none" => refresh'[q] = "revoked"
           /\ q = new[x] /\ refresh[q] = "none" => refresh'[q] = "live"
           /\ lock[<<"refresh", q>>] # x /\ q # new[x] => refresh'[q] = refresh[q]
           /\ q # new[x] /\ refresh[q] = "none" => refresh'[q] = "none"
           /\ q # new[x] /\ refresh'[q] = "live" => refresh[q] = "live"
           /\ refresh[q] # "none" => refresh'[q] # "none"
           /\ q # new[x] => family'[q] = family[q]
           /\ token[x] = NoPair => family'[q] = family[q]
           /\ q = new[x] /\ token[x] # NoPair => family'[q] = family[token[x]]
BY DEF Commit, RevokedBy, TypeOK

\* What the end of a transaction does to the others.
LEMMA FinishFrame ==
    ASSUME TypeOK, NEW x \in Txs, NEW answer \in Ended, Finish(x, answer)
    PROVE  /\ at'[x] = answer /\ new'[x] = NoPair /\ token' = token
           /\ \A y \in Txs : y # x => at'[y] = at[y] /\ new'[y] = new[y]
           /\ \A row \in Rows : lock[row] # x => lock'[row] = lock[row]
BY DEF Finish, Goto, TypeOK, Released

\* A commit keeps the invariant.
LEMMA CommitInv ==
    ASSUME TypeOK, RotationInv, NEW x \in Txs, NEW answer \in Ended, Commit(x, answer)
    PROVE  RotationInv'
<1> USE RotationAssumption
<1>0. Finish(x, answer)
  BY DEF Commit
<1>1. ASSUME NEW y \in Txs, at'[y] \in {"rotate", "commit"}
      PROVE  token'[y] \in Pairs /\ lock'[<<"refresh", token'[y]>>] = y /\ refresh'[token'[y]] = "live"
  <2>1. y # x
    BY <1>0, <1>1, FinishFrame DEF Ended
  <2>2. /\ at[y] \in {"rotate", "commit"} /\ token'[y] = token[y]
        /\ token[y] \in Pairs /\ lock[<<"refresh", token[y]>>] = y /\ refresh[token[y]] = "live"
    BY <1>0, <1>1, <2>1, FinishFrame DEF RotationInv
  <2>3. token[y] # new[x]
    BY <2>2 DEF RotationInv
  <2>4. <<"refresh", token[y]>> \in Rows
    BY <2>2 DEF Rows
  <2> QED
    BY <1>0, <2>1, <2>2, <2>3, <2>4, FinishFrame, CommitRow
<1>2. ASSUME NEW y \in Txs, new'[y] # NoPair
      PROVE  refresh'[new'[y]] = "none" /\ at'[y] \in {"insert", "commit"}
  <2>1. y # x /\ new'[y] = new[y] /\ at'[y] = at[y]
    BY <1>0, <1>2, FinishFrame
  <2>2. new[y] \in Pairs /\ new[y] # new[x]
    BY <1>2, <2>1 DEF RotationInv, TypeOK
  <2>3. refresh[new[y]] = "none" /\ at[y] \in {"insert", "commit"}
    BY <1>2, <2>1 DEF RotationInv
  <2> QED
    BY <2>1, <2>2, <2>3, CommitRow
<1>3. ASSUME NEW y \in Txs
      PROVE  /\ at'[y] \in {"idle", "insert"} => token'[y] = NoPair
             /\ at'[y] = "select" => token'[y] \in Pairs
  BY <1>0, <1>3, FinishFrame DEF RotationInv, Ended
<1>4. ASSUME NEW y \in Txs, NEW z \in Txs, new'[y] = new'[z], new'[y] # NoPair PROVE y = z
  BY <1>0, <1>4, FinishFrame DEF RotationInv
<1>5. ASSUME NEW q \in Pairs, refresh'[q] = "none" PROVE family'[q] = q
  <2>1. refresh[q] = "none"
    BY <1>5, CommitRow
  <2>2. q # new[x]
    BY <1>5, <2>1, CommitRow
  <2>3. family'[q] = family[q]
    BY <2>2, CommitRow
  <2> QED
    BY <2>1, <2>3 DEF RotationInv
<1>6. ASSUME NEW q \in Pairs, refresh'[q] # "none" PROVE refresh'[family'[q]] # "none"
  <2>0. \A p \in Pairs : refresh[p] # "none" => refresh'[p] # "none"
    BY CommitRow
  <2>1. CASE q # new[x]
    <3>1. refresh[q] # "none"
      BY <1>6, <2>1, CommitRow
    <3>2. family'[q] = family[q]
      BY <2>1, CommitRow
    <3>3. family[q] \in Pairs
      BY DEF TypeOK
    <3>4. refresh[family[q]] # "none"
      BY <3>1 DEF RotationInv
    <3> QED
      BY <2>0, <3>2, <3>3, <3>4
  <2>2. CASE q = new[x]
    <3>1. CASE at[x] = "insert" /\ token[x] = NoPair
      <4>1. refresh[q] = "none" /\ family[q] = q
        BY <2>2 DEF RotationInv
      <4> QED
        BY <1>6, <3>1, <4>1, CommitRow
    <3>2. CASE at[x] = "commit" /\ token[x] \in Pairs
      <4>0. family'[q] = family[token[x]]
        BY <2>2, <3>2, CommitRow
      <4>1. refresh[token[x]] = "live" /\ family'[q] = family[token[x]]
        BY <3>2, <4>0 DEF RotationInv
      <4>2. refresh[family[token[x]]] # "none" /\ family[token[x]] \in Pairs
        BY <3>2, <4>1 DEF RotationInv, TypeOK
      <4> QED
        BY <2>0, <4>1, <4>2
    <3> QED
      BY <2>2, <3>1, <3>2, CommitSources
  <2> QED
    BY <2>1, <2>2
<1> QED
  BY <1>1, <1>2, <1>3, <1>4, <1>5, <1>6 DEF RotationInv

\* A commit leaves a login with one live refresh token: the inserted token
\* either starts a family or takes the place of the token revoked with it.
LEMMA CommitSingleLive ==
    ASSUME TypeOK, RotationInv, FamilySingleLive, NEW x \in Txs, NEW answer \in Ended,
           Commit(x, answer)
    PROVE  FamilySingleLive'
<1> USE RotationAssumption
<1>1. ASSUME NEW q \in Pairs, q # new[x], refresh'[q] = "live", new[x] # NoPair
      PROVE  family'[q] # family'[new[x]]
  <2>0. new[x] \in Pairs /\ refresh[new[x]] = "none" /\ family[new[x]] = new[x]
    BY <1>1 DEF RotationInv, TypeOK
  <2>1. refresh[q] = "live" /\ family'[q] = family[q] /\ lock[<<"refresh", q>>] # x
    BY <1>1, CommitRow
  <2>2. CASE at[x] = "insert" /\ token[x] = NoPair
    <3>1. family'[new[x]] = new[x]
      BY <2>0, <2>2, CommitRow
    <3>2. refresh[family[q]] # "none"
      BY <2>1 DEF RotationInv
    <3> QED
      BY <2>0, <2>1, <3>1, <3>2
  <2>3. CASE at[x] = "commit" /\ token[x] \in Pairs
    <3>1. family'[new[x]] = family[token[x]]
      BY <2>0, <2>3, CommitRow
    <3>2. refresh[token[x]] = "live" /\ lock[<<"refresh", token[x]>>] = x
      BY <2>3 DEF RotationInv
    <3> QED
      BY <2>1, <2>3, <3>1, <3>2 DEF FamilySingleLive
  <2> QED
    BY <1>1, <2>2, <2>3, CommitSources
<1>2. ASSUME NEW p \in Pairs, NEW q \in Pairs, refresh'[p] = "live", refresh'[q] = "live",
             family'[p] = family'[q]
      PROVE  p = q
  <2>1. CASE p = new[x]
    <3>1. new[x] # NoPair
      BY <2>1
    <3>2. q # new[x] => family'[q] # family'[new[x]]
      BY <1>1, <1>2, <3>1
    <3> QED
      BY <1>2, <2>1, <3>2
  <2>3. CASE q = new[x]
    <3>1. new[x] # NoPair
      BY <2>3
    <3>2. p # new[x] => family'[p] # family'[new[x]]
      BY <1>1, <1>2, <3>1
    <3> QED
      BY <1>2, <2>3, <3>2
  <2>2. CASE p # new[x] /\ q # new[x]
    <3>1. refresh[p] = "live" /\ refresh[q] = "live" /\ family[p] = family[q]
      BY <1>2, <2>2, CommitRow
    <3> QED
      BY <3>1 DEF FamilySingleLive
  <2> QED
    BY <2>1, <2>2, <2>3
<1> QED
  BY <1>2 DEF FamilySingleLive

\* A step that ends nothing changes neither the rows nor the families, so the
\* invariant only has to be looked at for the transaction that takes it.
LEMMA StatementInv ==
    ASSUME TypeOK, RotationInv, NEW x \in Txs,
           UNCHANGED <<refresh, family>>,
           \A y \in Txs : y # x => at'[y] = at[y] /\ token'[y] = token[y] /\ new'[y] = new[y],
           \A row \in Rows : lock[row] # NoTx => lock'[row] = lock[row],
           at'[x] = "select" => token'[x] \in Pairs,
           at'[x] \in {"rotate", "commit"} => token'[x] \in Pairs /\
               lock'[<<"refresh", token'[x]>>] = x /\ refresh[token'[x]] = "live",
           new'[x] # NoPair => refresh[new'[x]] = "none" /\ at'[x] \in {"insert", "commit"},
           at'[x] \in {"idle", "insert"} => token'[x] = NoPair,
           \A y \in Txs : y # x /\ new'[x] # NoPair => new[y] # new'[x]
    PROVE  RotationInv'
<1> USE RotationAssumption
<1>1. ASSUME NEW y \in Txs, at'[y] \in {"rotate", "commit"}
      PROVE  token'[y] \in Pairs /\ lock'[<<"refresh", token'[y]>>] = y /\ refresh'[token'[y]] = "live"
  <2>1. CASE y = x
    BY <1>1, <2>1
  <2>2. CASE y # x
    <3>1. token[y] \in Pairs /\ lock[<<"refresh", token[y]>>] = y /\ refresh[token[y]] = "live"
      BY <1>1, <2>2 DEF RotationInv
    <3>2. <<"refresh", token[y]>> \in Rows
      BY <3>1 DEF Rows
    <3> QED
      BY <1>1, <2>2, <3>1, <3>2
  <2> QED
    BY <2>1, <2>2
<1>2. ASSUME NEW y \in Txs, new'[y] # NoPair
      PROVE  refresh'[new'[y]] = "none" /\ at'[y] \in {"insert", "commit"}
  BY <1>2 DEF RotationInv
<1>3. ASSUME NEW y \in Txs
      PROVE  /\ at'[y] \in {"idle", "insert"} => token'[y] = NoPair
             /\ at'[y] = "select" => token'[y] \in Pairs
  BY <1>3 DEF RotationInv
<1>4. ASSUME NEW y \in Txs, NEW z \in Txs, new'[y] = new'[z], new'[y] # NoPair PROVE y = z
  BY <1>4 DEF RotationInv
<1>5. /\ \A q \in Pairs : refresh'[q] = "none" => family'[q] = q
      /\ \A q \in Pairs : refresh'[q] # "none" => refresh'[family'[q]] # "none"
  BY DEF RotationInv
<1> QED
  BY <1>1, <1>2, <1>3, <1>4, <1>5 DEF RotationInv

\* A rollback keeps the invariant.
LEMMA RollbackInv ==
    ASSUME TypeOK, RotationInv, NEW x \in Txs, NEW answer \in Ended, Rollback(x, answer)
    PROVE  RotationInv'
<1> USE RotationAssumption
<1>0. Finish(x, answer) /\ UNCHANGED <<refresh, family>>
  BY DEF Rollback
<1>1. ASSUME NEW y \in Txs, at'[y] \in {"rotate", "commit"}
      PROVE  token'[y] \in Pairs /\ lock'[<<"refresh", token'[y]>>] = y /\ refresh'[token'[y]] = "live"
  <2>1. y # x /\ at[y] \in {"rotate", "commit"} /\ token'[y] = token[y]
    BY <1>0, <1>1, FinishFrame DEF Ended
  <2>2. token[y] \in Pairs /\ lock[<<"refresh", token[y]>>] = y /\ refresh[token[y]] = "live"
    BY <2>1 DEF RotationInv
  <2>3. <<"refresh", token[y]>> \in Rows
    BY <2>2 DEF Rows
  <2> QED
    BY <1>0, <2>1, <2>2, <2>3, FinishFrame
<1>2. ASSUME NEW y \in Txs, new'[y] # NoPair
      PROVE  refresh'[new'[y]] = "none" /\ at'[y] \in {"insert", "commit"}
  BY <1>0, <1>2, FinishFrame DEF RotationInv
<1>3. ASSUME NEW y \in Txs
      PROVE  /\ at'[y] \in {"idle", "insert"} => token'[y] = NoPair
             /\ at'[y] = "select" => token'[y] \in Pairs
  BY <1>0, <1>3, FinishFrame DEF RotationInv, Ended
<1>4. ASSUME NEW y \in Txs, NEW z \in Txs, new'[y] = new'[z], new'[y] # NoPair PROVE y = z
  BY <1>0, <1>4, FinishFrame DEF RotationInv
<1>5. /\ \A q \in Pairs : refresh'[q] = "none" => family'[q] = q
      /\ \A q \in Pairs : refresh'[q] # "none" => refresh'[family'[q]] # "none"
  BY <1>0 DEF RotationInv
<1> QED
  BY <1>1, <1>2, <1>3, <1>4, <1>5 DEF RotationInv

\* Every step keeps the strengthening and the invariant.
LEMMA RotationStep ==
    ASSUME TypeOK, RotationInv, FamilySingleLive, [Next]_rotationVars
    PROVE  RotationInv' /\ FamilySingleLive'
<1> USE RotationAssumption
<1>0. {"returned", "reused", "failed"} = Ended
  BY DEF Ended
<1>a. UNCHANGED <<refresh, family>> => FamilySingleLive'
  BY DEF FamilySingleLive
<1>1. ASSUME NEW x \in Txs, NEW u \in Users, Login(x, u) PROVE RotationInv'
  <2>1. /\ UNCHANGED <<refresh, family, lock, token>>
        /\ at'[x] = "insert" /\ token[x] = NoPair
        /\ \A y \in Txs : y # x => at'[y] = at[y] /\ new'[y] = new[y]
    BY <1>1 DEF Login, IssuePair, Goto, TypeOK, RotationInv
  <2>2. refresh[new'[x]] = "none" /\ \A y \in Txs : new[y] # new'[x]
    BY <1>1 DEF Login, IssuePair, Unused, TypeOK
  <2> QED
    BY <2>1, <2>2, StatementInv
<1>2. ASSUME NEW x \in Txs, NEW p \in Pairs,
             Refresh(x, p) \/ \E a \in Pairs \cup {NoPair} : Logout(x, p, a)
      PROVE  RotationInv'
  <2>1. /\ UNCHANGED <<refresh, family, lock, new>>
        /\ at'[x] \in {"select", "drop_refresh"} /\ new[x] = NoPair
        /\ token'[x] = p
        /\ \A y \in Txs : y # x => at'[y] = at[y] /\ token'[y] = token[y]
    BY <1>2 DEF Refresh, Logout, Goto, TypeOK, RotationInv
  <2> QED
    BY <2>1, StatementInv
<1>3. ASSUME NEW x \in Txs, Select(x) PROVE RotationInv'
  <2>0. new[x] = NoPair
    BY <1>3 DEF Select, RotationInv
  <2>1. /\ UNCHANGED <<refresh, family, token, new>>
        /\ at'[x] \in {"wipe", "rotate"}
        /\ \A y \in Txs : y # x => at'[y] = at[y]
    BY <1>3 DEF Select, Goto, TypeOK
  <2>2. \A row \in Rows : lock[row] # NoTx => lock'[row] = lock[row]
    BY <1>3 DEF Select, Acquire, Free, TypeOK, ForUpdate
  <2>3. CASE at'[x] = "rotate"
    <3>1. refresh[token[x]] = "live" /\ Acquire(x, <<"refresh", token[x]>>)
      BY <1>3, <2>3 DEF Select, Goto, TypeOK, ForUpdate
    <3>2. token[x] \in Pairs
      BY <1>3 DEF Select, RotationInv
    <3>3. <<"refresh", token[x]>> \in Rows
      BY <3>2 DEF Rows
    <3>4. lock'[<<"refresh", token[x]>>] = x
      BY <3>1, <3>3 DEF Acquire, TypeOK
    <3> QED
      BY <2>0, <2>1, <2>2, <2>3, <3>1, <3>2, <3>4, StatementInv
  <2>4. CASE at'[x] = "wipe"
    BY <2>0, <2>1, <2>2, <2>4, StatementInv
  <2> QED
    BY <2>1, <2>3, <2>4
<1>4. ASSUME NEW x \in Txs, Rotate(x) PROVE RotationInv'
  <2>1. /\ UNCHANGED <<refresh, family, token>>
        /\ at'[x] = "commit"
        /\ \A y \in Txs : y # x => at'[y] = at[y] /\ new'[y] = new[y]
    BY <1>4 DEF Rotate, IssuePair, Goto, TypeOK
  <2>2. refresh[new'[x]] = "none" /\ \A y \in Txs : new[y] # new'[x]
    BY <1>4 DEF Rotate, IssuePair, Unused, TypeOK
  <2>3. token[x] \in Pairs /\ lock[<<"refresh", token[x]>>] = x /\ refresh[token[x]] = "live"
    BY <1>4 DEF Rotate, RotationInv
  <2>4. lock' = lock
    BY <1>4, <2>3 DEF Rotate, Acquire, TypeOK
  <2> QED
    BY <2>1, <2>2, <2>3, <2>4, StatementInv
<1>5. ASSUME NEW x \in Txs, WipeAccess(x) \/ WipeRefresh(x) PROVE RotationInv'
  <2>1. /\ UNCHANGED <<refresh, family, lock, token, new>>
        /\ at'[x] \in {"wipe_access", "wipe_refresh"} /\ new[x] = NoPair
        /\ \A y \in Txs : y # x => at'[y] = at[y]
    BY <1>5 DEF WipeAccess, WipeRefresh, Goto, TypeOK, RotationInv
  <2> QED
    BY <2>1, StatementInv
<1>6. ASSUME NEW x \in Txs, \/ \E row \in Rows : UpdateRow(x, row)
                            \/ DropRefresh(x) \/ DropAccess(x)
      PROVE  RotationInv'
  <2>1. /\ UNCHANGED <<refresh, family, token, new>>
        /\ at'[x] \in {"wipe_access", "wipe_refresh", "drop_access"} /\ new[x] = NoPair
        /\ \A y \in Txs : y # x => at'[y] = at[y]
    BY <1>6 DEF UpdateRow, DropRefresh, DropAccess, Goto, TypeOK, RotationInv
  <2>2. \A row \in Rows : lock[row] # NoTx => lock'[row] = lock[row]
    BY <1>6 DEF UpdateRow, DropRefresh, DropAccess, Acquire, Free, TypeOK
  <2> QED
    BY <2>1, <2>2, StatementInv
<1>7. ASSUME NEW x \in Txs,
             SelectExpired(x) \/ RotateUnsupplied(x) \/ DropAccessMissing(x) \/ DeadlockAbort(x) \/ Fail(x)
      PROVE  RotationInv' /\ UNCHANGED <<refresh, family>>
  <2>1. \E answer \in Ended : Rollback(x, answer)
    BY <1>0, <1>7 DEF SelectExpired, RotateUnsupplied, DropAccessMissing, DeadlockAbort, Fail
  <2> QED
    BY <2>1, RollbackInv DEF Rollback
<1>8. ASSUME NEW x \in Txs, \/ LoginCommit(x) \/ RotateCommit(x) \/ WipeCommit(x)
                            \/ LogoutCommit(x) \/ FailAfterCommit(x)
      PROVE  RotationInv' /\ FamilySingleLive'
  <2>1. \E answer \in Ended : Commit(x, answer)
    BY <1>0, <1>8
       DEF LoginCommit, RotateCommit, WipeCommit, LogoutCommit, FailAfterCommit
  <2> QED
    BY <2>1, CommitInv, CommitSingleLive
<1>9. ASSUME UNCHANGED <<refresh, family, txVars>> PROVE RotationInv'
  BY <1>9 DEF RotationInv
<1>10. ASSUME NEW p \in Pairs, Expire(p) PROVE UNCHANGED <<refresh, family, txVars>>
  BY <1>10 DEF Expire
<1>11. ASSUME NEW x \in Txs,
              \/ \E u \in Users : Login(x, u)
              \/ \E p \in Pairs : Refresh(x, p)
              \/ \E p \in Pairs, a \in Pairs \cup {NoPair} : Logout(x, p, a)
              \/ Select(x) \/ Rotate(x) \/ WipeAccess(x) \/ WipeRefresh(x)
              \/ \E row \in Rows : UpdateRow(x, row)
              \/ DropRefresh(x) \/ DropAccess(x)
       PROVE  UNCHANGED <<refresh, family>>
  BY <1>11 DEF Login, Refresh, Logout, Select, Rotate, WipeAccess, WipeRefresh,
               UpdateRow, DropRefresh, DropAccess
<1> QED
  BY <1>a, <1>1, <1>2, <1>3, <1>4, <1>5, <1>6, <1>7, <1>8, <1>9, <1>10, <1>11
     DEF Next, Proceed

\* The initial state satisfies both.
LEMMA RotationStart == Init => RotationInv /\ FamilySingleLive
BY RotationAssumption DEF Init, RotationInv, FamilySingleLive

\* However many requests present the same refresh token at once, and whatever
\* fails in between, a login never has two live refresh tokens.
THEOREM SingleLiveSafe == Spec => []FamilySingleLive
BY RotationStart, RotationStep, RotationTypeCorrect, PTL DEF Spec

-----------------------------------------------------------------------------
(* LogoutSticks *)

\* A logout has found the row of its refresh token, and holds it from its first
\* statement to its commit.
LogoutHolds ==
    \A x \in Txs :
        /\ at[x] = "drop_refresh" => token[x] \in Pairs /\ refresh[token[x]] # "none"
        /\ at[x] = "drop_access" => /\ token[x] \in Pairs
                                    /\ lock[<<"refresh", token[x]>>] = x
                                    /\ refresh[token[x]] # "none"

\* A row is never deleted, and a revoked row stays revoked.
RowsStay ==
    \A q \in Pairs : /\ refresh[q] # "none" => refresh'[q] # "none"
                     /\ refresh[q] = "revoked" => refresh'[q] = "revoked"

\* No commit revives a token: what it inserts had no row.
LEMMA CommitRowsStay ==
    ASSUME TypeOK, RotationInv, NEW x \in Txs, NEW answer \in Ended, Commit(x, answer)
    PROVE  RowsStay
<1> SUFFICES ASSUME NEW q \in Pairs
             PROVE  /\ refresh[q] # "none" => refresh'[q] # "none"
                    /\ refresh[q] = "revoked" => refresh'[q] = "revoked"
  BY DEF RowsStay
<1>1. refresh[q] # "none" => refresh'[q] # "none"
  BY CommitRow
<1>2. ASSUME refresh[q] = "revoked" PROVE refresh'[q] = "revoked"
  <2>1. q # new[x]
    BY <1>2, RotationAssumption DEF RotationInv
  <2>2. CASE lock[<<"refresh", q>>] = x
    BY <1>2, <2>2, CommitRow
  <2>3. CASE lock[<<"refresh", q>>] # x
    BY <1>2, <2>1, <2>3, CommitRow
  <2> QED
    BY <2>2, <2>3
<1> QED
  BY <1>1, <1>2

\* A step of x leaves the other requests and their locks alone, so only x has
\* to be looked at.
LEMMA LogoutFrame ==
    ASSUME TypeOK, RowsStay, LogoutHolds, LogoutSticks, NEW x \in Txs,
           \A y \in Txs : y # x => /\ at'[y] = at[y] /\ token'[y] = token[y]
                                  /\ extra'[y] = extra[y],
           \A row \in Rows, y \in Txs : y # x /\ lock[row] = y => lock'[row] = y,
           at'[x] = "drop_refresh" => token'[x] \in Pairs /\ refresh'[token'[x]] # "none",
           at'[x] = "drop_access" => /\ token'[x] \in Pairs
                                     /\ lock'[<<"refresh", token'[x]>>] = x
                                     /\ refresh'[token'[x]] # "none",
           at'[x] = "returned" /\ token'[x] # NoPair /\ extra'[x] = NoPair
               => refresh'[token'[x]] = "revoked"
    PROVE  LogoutHolds' /\ LogoutSticks'
<1>1. ASSUME NEW y \in Txs, y # x, at'[y] = "drop_refresh"
      PROVE  token'[y] \in Pairs /\ refresh'[token'[y]] # "none"
  <2>1. token'[y] = token[y] /\ token[y] \in Pairs /\ refresh[token[y]] # "none"
    BY <1>1 DEF LogoutHolds
  <2> QED
    BY <2>1 DEF RowsStay
<1>2. ASSUME NEW y \in Txs, y # x, at'[y] = "drop_access"
      PROVE  /\ token'[y] \in Pairs /\ lock'[<<"refresh", token'[y]>>] = y
             /\ refresh'[token'[y]] # "none"
  <2>1. /\ token'[y] = token[y] /\ token[y] \in Pairs
        /\ lock[<<"refresh", token[y]>>] = y /\ refresh[token[y]] # "none"
    BY <1>2 DEF LogoutHolds
  <2>2. <<"refresh", token[y]>> \in Rows
    BY <2>1 DEF Rows
  <2> QED
    BY <1>2, <2>1, <2>2 DEF RowsStay
<1>3. ASSUME NEW y \in Txs, y # x,
             at'[y] = "returned", token'[y] # NoPair, extra'[y] = NoPair
      PROVE  refresh'[token'[y]] = "revoked"
  <2>1. token[y] \in Pairs /\ refresh[token[y]] = "revoked" /\ token'[y] = token[y]
    BY <1>3 DEF LogoutSticks, TypeOK
  <2> QED
    BY <2>1 DEF RowsStay
<1>4. LogoutHolds'
  BY <1>1, <1>2 DEF LogoutHolds
<1>5. LogoutSticks'
  BY <1>3 DEF LogoutSticks
<1> QED
  BY <1>4, <1>5

\* Every step keeps a logout's hold on its row and its effect.
LEMMA LogoutStep ==
    ASSUME TypeOK, RotationInv, LogoutHolds, LogoutSticks, [Next]_rotationVars
    PROVE  LogoutHolds' /\ LogoutSticks'
<1> USE RotationAssumption
<1>0. UNCHANGED refresh => RowsStay
  BY DEF RowsStay
<1>1. ASSUME NEW x \in Txs, NEW u \in Users, Login(x, u) PROVE LogoutHolds' /\ LogoutSticks'
  <2>1. /\ UNCHANGED <<refresh, lock, token, extra>> /\ at'[x] = "insert"
        /\ \A y \in Txs : y # x => at'[y] = at[y]
    BY <1>1 DEF Login, Goto, TypeOK
  <2> QED
    BY <1>0, <2>1, LogoutFrame
<1>2. ASSUME NEW x \in Txs, NEW p \in Pairs, Refresh(x, p)
      PROVE  LogoutHolds' /\ LogoutSticks'
  <2>1. /\ UNCHANGED <<refresh, lock, extra>> /\ at'[x] = "select"
        /\ \A y \in Txs : y # x => at'[y] = at[y] /\ token'[y] = token[y]
    BY <1>2 DEF Refresh, Goto, TypeOK
  <2> QED
    BY <1>0, <2>1, LogoutFrame
<1>3. ASSUME NEW x \in Txs, NEW p \in Pairs, NEW a \in Pairs \cup {NoPair}, Logout(x, p, a)
      PROVE  LogoutHolds' /\ LogoutSticks'
  <2>1. /\ UNCHANGED <<refresh, lock>> /\ at'[x] = "drop_refresh"
        /\ token'[x] = p /\ refresh[p] # "none"
        /\ \A y \in Txs : y # x => /\ at'[y] = at[y] /\ token'[y] = token[y]
                                   /\ extra'[y] = extra[y]
    BY <1>3 DEF Logout, Goto, TypeOK
  <2> QED
    BY <1>0, <2>1, LogoutFrame
<1>4. ASSUME NEW x \in Txs, Select(x) \/ Rotate(x) \/ WipeAccess(x) \/ WipeRefresh(x)
      PROVE  LogoutHolds' /\ LogoutSticks'
  <2>1. /\ UNCHANGED <<refresh, token, extra>>
        /\ at'[x] \in {"wipe", "rotate", "commit", "wipe_access", "wipe_refresh"}
        /\ \A y \in Txs : y # x => at'[y] = at[y]
    BY <1>4 DEF Select, Rotate, WipeAccess, WipeRefresh, Goto, TypeOK
  <2>2. \A row \in Rows : lock[row] # NoTx => lock'[row] = lock[row]
    BY <1>4 DEF Select, Rotate, WipeAccess, WipeRefresh, ForUpdate, Acquire, Free, TypeOK
  <2>3. \A row \in Rows, y \in Txs : y # x /\ lock[row] = y => lock'[row] = y
    BY <2>2
  <2>4. at'[x] \notin {"drop_refresh", "drop_access", "returned"}
    BY <2>1
  <2> QED
    BY <1>0, <2>1, <2>3, <2>4, LogoutFrame
<1>5. ASSUME NEW x \in Txs, NEW row \in Rows, UpdateRow(x, row)
      PROVE  LogoutHolds' /\ LogoutSticks'
  <2>1. UNCHANGED <<refresh, at, token, extra>> /\ at[x] \in {"wipe_access", "wipe_refresh"}
    BY <1>5 DEF UpdateRow
  <2>2. \A r \in Rows : lock[r] # NoTx => lock'[r] = lock[r]
    BY <1>5 DEF UpdateRow, Acquire, TypeOK
  <2>3. \A r \in Rows, y \in Txs : y # x /\ lock[r] = y => lock'[r] = y
    BY <2>2
  <2>4. at'[x] \notin {"drop_refresh", "drop_access", "returned"}
    BY <2>1
  <2> QED
    BY <1>0, <2>1, <2>3, <2>4, LogoutFrame
<1>6. ASSUME NEW x \in Txs, DropRefresh(x) PROVE LogoutHolds' /\ LogoutSticks'
  <2>1. /\ UNCHANGED <<refresh, token, extra>> /\ at'[x] = "drop_access"
        /\ \A y \in Txs : y # x => at'[y] = at[y]
    BY <1>6 DEF DropRefresh, Goto, TypeOK
  <2>2. \A row \in Rows : lock[row] # NoTx => lock'[row] = lock[row]
    BY <1>6 DEF DropRefresh, Acquire, Free, TypeOK
  <2>3. token[x] \in Pairs /\ refresh[token[x]] # "none"
    BY <1>6 DEF DropRefresh, LogoutHolds
  <2>4. <<"refresh", token[x]>> \in Rows
    BY <2>3 DEF Rows
  <2>5. lock'[<<"refresh", token[x]>>] = x
    BY <1>6, <2>4 DEF DropRefresh, Acquire, TypeOK
  <2> QED
    BY <1>0, <2>1, <2>2, <2>3, <2>5, LogoutFrame
<1>7. ASSUME NEW x \in Txs, DropAccess(x) PROVE LogoutHolds' /\ LogoutSticks'
  <2>1. /\ UNCHANGED <<refresh, at, token>> /\ at[x] = "drop_access"
        /\ \A y \in Txs : y # x => extra'[y] = extra[y]
    BY <1>7 DEF DropAccess, TypeOK
  <2>2. \A row \in Rows : lock[row] # NoTx => lock'[row] = lock[row]
    BY <1>7 DEF DropAccess, Acquire, TypeOK
  <2>3. /\ token[x] \in Pairs /\ lock[<<"refresh", token[x]>>] = x
        /\ refresh[token[x]] # "none"
    BY <2>1 DEF LogoutHolds
  <2>4. <<"refresh", token[x]>> \in Rows
    BY <2>3 DEF Rows
  <2>5. lock'[<<"refresh", token[x]>>] = x
    BY <2>2, <2>3, <2>4
  <2> QED
    BY <1>0, <2>1, <2>2, <2>3, <2>5, LogoutFrame
<1>8. ASSUME NEW x \in Txs, NEW answer \in Ended, Finish(x, answer), RowsStay,
             answer = "returned" /\ token[x] # NoPair /\ extra[x] = NoPair
                 => refresh'[token[x]] = "revoked"
      PROVE  LogoutHolds' /\ LogoutSticks'
  <2>1. /\ at'[x] = answer /\ UNCHANGED <<token, extra>>
        /\ \A y \in Txs : y # x => at'[y] = at[y]
    BY <1>8 DEF Finish, Goto, TypeOK
  <2>2. \A row \in Rows, y \in Txs : y # x /\ lock[row] = y => lock'[row] = y
    BY <1>8 DEF Finish, Released
  <2>3. at'[x] \notin {"drop_refresh", "drop_access"}
    BY <2>1 DEF Ended
  <2> QED
    BY <1>8, <2>1, <2>2, <2>3, LogoutFrame
<1>9. "failed" \in Ended /\ "reused" \in Ended /\ "returned" \in Ended
  BY DEF Ended
<1>10. ASSUME NEW x \in Txs,
              SelectExpired(x) \/ RotateUnsupplied(x) \/ DeadlockAbort(x) \/ Fail(x)
       PROVE  LogoutHolds' /\ LogoutSticks'
  <2>1. Finish(x, "failed") /\ UNCHANGED refresh
    BY <1>10 DEF SelectExpired, RotateUnsupplied, DeadlockAbort, Fail, Rollback, tables
  <2> QED
    BY <1>0, <1>8, <1>9, <2>1
<1>11. ASSUME NEW x \in Txs, DropAccessMissing(x) PROVE LogoutHolds' /\ LogoutSticks'
  <2>1. Finish(x, "returned") /\ UNCHANGED refresh /\ extra[x] # NoPair
    BY <1>11 DEF DropAccessMissing, Rollback, tables
  <2> QED
    BY <1>0, <1>8, <1>9, <2>1
<1>12. ASSUME NEW x \in Txs, WipeCommit(x) \/ FailAfterCommit(x)
       PROVE  LogoutHolds' /\ LogoutSticks'
  <2>1. PICK answer \in {"failed", "reused"} : Commit(x, answer)
    BY <1>12 DEF WipeCommit, FailAfterCommit
  <2>2. Finish(x, answer) /\ RowsStay
    BY <1>9, <2>1, CommitRowsStay DEF Commit
  <2> QED
    BY <1>8, <1>9, <2>1, <2>2
<1>13. ASSUME NEW x \in Txs, Commit(x, "returned"), token[x] = NoPair
       PROVE  LogoutHolds' /\ LogoutSticks'
  <2>1. Finish(x, "returned") /\ RowsStay
    BY <1>9, <1>13, CommitRowsStay DEF Commit
  <2> QED
    BY <1>8, <1>9, <1>13, <2>1
<1>14. ASSUME NEW x \in Txs, Commit(x, "returned"), token[x] \in Pairs,
              lock[<<"refresh", token[x]>>] = x, refresh[token[x]] # "none"
       PROVE  LogoutHolds' /\ LogoutSticks'
  <2>1. Finish(x, "returned") /\ RowsStay
    BY <1>9, <1>14, CommitRowsStay DEF Commit
  <2>2. refresh'[token[x]] = "revoked"
    BY <1>9, <1>14, CommitRow
  <2> QED
    BY <1>8, <1>9, <2>1, <2>2
<1>15. ASSUME NEW x \in Txs, LoginCommit(x) PROVE LogoutHolds' /\ LogoutSticks'
  <2>1. Commit(x, "returned") /\ token[x] = NoPair
    BY <1>15 DEF LoginCommit, RotationInv
  <2> QED
    BY <1>13, <2>1
<1>16. ASSUME NEW x \in Txs, RotateCommit(x) PROVE LogoutHolds' /\ LogoutSticks'
  <2>1. /\ Commit(x, "returned") /\ token[x] \in Pairs
        /\ lock[<<"refresh", token[x]>>] = x /\ refresh[token[x]] # "none"
    BY <1>16 DEF RotateCommit, RotationInv
  <2> QED
    BY <1>14, <2>1
<1>17. ASSUME NEW x \in Txs, LogoutCommit(x) PROVE LogoutHolds' /\ LogoutSticks'
  <2>1. /\ Commit(x, "returned") /\ token[x] \in Pairs
        /\ lock[<<"refresh", token[x]>>] = x /\ refresh[token[x]] # "none"
    BY <1>17 DEF LogoutCommit, LogoutHolds
  <2> QED
    BY <1>14, <2>1
<1>18. ASSUME UNCHANGED <<refresh, txVars>> PROVE LogoutHolds' /\ LogoutSticks'
  BY <1>18 DEF LogoutHolds, LogoutSticks, txVars
<1>19. ASSUME NEW p \in Pairs, Expire(p) PROVE UNCHANGED <<refresh, txVars>>
  BY <1>19 DEF Expire
<1>20. UNCHANGED rotationVars => UNCHANGED <<refresh, txVars>>
  BY DEF rotationVars, tables
<1> QED
  BY <1>1, <1>2, <1>3, <1>4, <1>5, <1>6, <1>7, <1>10, <1>11, <1>12, <1>15, <1>16, <1>17,
     <1>18, <1>19, <1>20 DEF Next, Proceed

\* The strengthening holds in every state.
LEMMA LogoutInvariant == Spec => [](RotationInv /\ LogoutHolds /\ LogoutSticks)
<1>1. Init => LogoutHolds /\ LogoutSticks
  BY DEF Init, LogoutHolds, LogoutSticks
<1> QED
  BY <1>1, LogoutStep, RotationStart, RotationStep, RotationTypeCorrect, PTL DEF Spec

\* A refresh or logout answered normally has revoked the presented token, under
\* every interleaving and failure, unless logout found no row for the access
\* token: no later login, refresh or commit brings the token back.
THEOREM LogoutSafe == Spec => []LogoutSticks
BY LogoutInvariant, PTL

-----------------------------------------------------------------------------
(* Row locks *)

\* A transaction that has not begun to lock, or has ended, holds no row; one that
\* rotates or has just found a reuse holds the row of the presented token only.
LocksInv ==
    \A x \in Txs, row \in Rows : lock[row] = x =>
        /\ at[x] \in {"rotate", "commit", "wipe", "wipe_access", "wipe_refresh", "drop_access"}
        /\ at[x] \in {"rotate", "commit", "wipe"} => row = <<"refresh", token[x]>>

\* Every path to an answer releases the rows.
LEMMA LocksStep == TypeOK /\ LocksInv /\ [Next]_rotationVars => LocksInv'
<1> SUFFICES ASSUME TypeOK, LocksInv, [Next]_rotationVars PROVE LocksInv'
  OBVIOUS
<1> USE RotationAssumption
<1>2. ASSUME NEW x \in Txs, NEW answer \in Ended, Finish(x, answer) PROVE LocksInv'
  <2>1. \A y \in Txs : y # x => at'[y] = at[y] /\ token'[y] = token[y]
    BY <1>2, FinishFrame
  <2>2. \A row \in Rows : lock'[row] # x /\ (lock'[row] = lock[row] \/ lock'[row] = NoTx)
    BY <1>2 DEF Finish, Released
  <2> QED
    BY <2>1, <2>2 DEF LocksInv
<1>3. ASSUME NEW x \in Txs, NEW u \in Users, Login(x, u) PROVE LocksInv'
  BY <1>3 DEF Login, Goto, LocksInv, TypeOK
<1>4. ASSUME NEW x \in Txs, NEW p \in Pairs, Refresh(x, p) PROVE LocksInv'
  BY <1>4 DEF Refresh, Goto, LocksInv, TypeOK
<1>5. ASSUME NEW x \in Txs, NEW p \in Pairs, NEW a \in Pairs \cup {NoPair}, Logout(x, p, a)
      PROVE  LocksInv'
  BY <1>5 DEF Logout, Goto, LocksInv, TypeOK
<1>6. ASSUME NEW x \in Txs, Select(x) PROVE LocksInv'
  <2>1. at[x] = "select" /\ at'[x] \in {"wipe", "rotate"}
    BY <1>6 DEF Select, Goto, TypeOK
  <2>2. \A row \in Rows : lock'[row] = IF row = <<"refresh", token[x]>> THEN x ELSE lock[row]
    BY <1>6 DEF Select, ForUpdate, Acquire, TypeOK
  <2>3. token' = token /\ \A y \in Txs : y # x => at'[y] = at[y]
    BY <1>6 DEF Select, Goto, TypeOK
  <2> QED
    BY <2>1, <2>2, <2>3 DEF LocksInv
<1>7. ASSUME NEW x \in Txs, Rotate(x) PROVE LocksInv'
  <2>1. at[x] = "rotate" /\ at'[x] = "commit"
    BY <1>7 DEF Rotate, Goto, TypeOK
  <2>2. \A row \in Rows : lock'[row] = IF row = <<"refresh", token[x]>> THEN x ELSE lock[row]
    BY <1>7 DEF Rotate, Acquire, TypeOK
  <2>3. token' = token /\ \A y \in Txs : y # x => at'[y] = at[y]
    BY <1>7 DEF Rotate, Goto, TypeOK
  <2> QED
    BY <2>1, <2>2, <2>3 DEF LocksInv
<1>8. ASSUME NEW x \in Txs, WipeAccess(x) \/ WipeRefresh(x) PROVE LocksInv'
  BY <1>8 DEF WipeAccess, WipeRefresh, Goto, LocksInv, TypeOK
<1>9. ASSUME NEW x \in Txs, NEW row \in Rows, UpdateRow(x, row) PROVE LocksInv'
  BY <1>9 DEF UpdateRow, Acquire, LocksInv, TypeOK
<1>10. ASSUME NEW x \in Txs, DropRefresh(x) PROVE LocksInv'
  <2>1. at[x] = "drop_refresh" /\ at'[x] = "drop_access"
    BY <1>10 DEF DropRefresh, Goto, TypeOK
  <2>2. \A row \in Rows : lock'[row] = x \/ lock'[row] = lock[row]
    BY <1>10 DEF DropRefresh, Acquire, TypeOK
  <2>3. token' = token /\ \A y \in Txs : y # x => at'[y] = at[y]
    BY <1>10 DEF DropRefresh, Goto, TypeOK
  <2> QED
    BY <2>1, <2>2, <2>3 DEF LocksInv
<1>11. ASSUME NEW x \in Txs, DropAccess(x) PROVE LocksInv'
  BY <1>11 DEF DropAccess, Acquire, LocksInv, TypeOK
<1>12. ASSUME NEW x \in Txs, \/ SelectExpired(x) \/ RotateUnsupplied(x) \/ DropAccessMissing(x)
                             \/ DeadlockAbort(x) \/ Fail(x) \/ LoginCommit(x) \/ RotateCommit(x)
                             \/ WipeCommit(x) \/ LogoutCommit(x) \/ FailAfterCommit(x)
       PROVE  LocksInv'
  <2>1. \E answer \in Ended : Finish(x, answer)
    BY <1>12 DEF SelectExpired, RotateUnsupplied, DropAccessMissing, DeadlockAbort, Fail, Rollback,
                 LoginCommit, RotateCommit, WipeCommit, LogoutCommit, FailAfterCommit, Commit, Ended
  <2> QED
    BY <1>2, <2>1
<1>13. CASE (\E p \in Pairs : Expire(p)) \/ UNCHANGED rotationVars
  BY <1>13 DEF Expire, LocksInv
<1> QED
  BY <1>3, <1>4, <1>5, <1>6, <1>7, <1>8, <1>9, <1>10, <1>11, <1>12, <1>13 DEF Next, Proceed

\* Only running transactions hold rows.
LEMMA LocksSafe == Spec => []LocksInv
<1>1. Init => LocksInv
  BY RotationAssumption DEF Init, LocksInv
<1> QED
  BY <1>1, LocksStep, RotationTypeCorrect, PTL DEF Spec

\* If everybody who runs is blocked, they hold the rows that they wait for among
\* themselves, which is a deadlock the database finds.
THEOREM NobodyStuckSafe == Spec => []NobodyIsStuck
<1>1. TypeOK /\ RotationInv /\ LogoutHolds /\ LocksInv => NobodyIsStuck
  <2> SUFFICES ASSUME TypeOK, RotationInv, LogoutHolds, LocksInv, NEW x \in Txs, Blocked(x),
                      \A y \in Txs : Running(y) => Blocked(y)
               PROVE  Deadlocked(x)
    BY DEF NobodyIsStuck
  <2> DEFINE cycle == {y \in Txs : Blocked(y)}
  <2>1. ASSUME NEW y \in Txs PROVE Wants(y) \subseteq Rows
    <3>1. extra[y] \in Pairs \cup {NoPair} /\ todo[y] \subseteq Rows
      BY DEF TypeOK
    <3>2. CASE at[y] \in {"select", "rotate", "drop_refresh"}
      <4>1. Wants(y) = {<<"refresh", token[y]>>}
        BY <3>2 DEF Wants
      <4>2. at[y] \in {"select", "rotate"} => token[y] \in Pairs
        BY DEF RotationInv
      <4>3. at[y] = "drop_refresh" => token[y] \in Pairs
        BY DEF LogoutHolds
      <4> QED
        BY <3>2, <4>1, <4>2, <4>3 DEF Rows
    <3>3. CASE at[y] \notin {"select", "rotate", "drop_refresh"}
      <4>1. \/ Wants(y) = todo[y] \/ Wants(y) = {}
            \/ extra[y] # NoPair /\ Wants(y) = {<<"access", extra[y]>>}
        BY <3>3 DEF Wants
      <4> QED
        BY <3>1, <4>1 DEF Rows
    <3> QED
      BY <3>2, <3>3
  <2>2. ASSUME NEW y \in cycle, NEW row \in Wants(y) PROVE lock[row] \in cycle \ {y}
    <3>1. row \in Rows /\ lock[row] \in Txs /\ lock[row] # y
      BY <2>1 DEF Blocked, TypeOK
    <3>2. Running(lock[row])
      BY <3>1 DEF LocksInv, Running, Ended
    <3> QED
      BY <3>1, <3>2
  <2>3. \A y \in cycle : Wants(y) # {}
    BY DEF Blocked
  <2>4. x \in cycle /\ cycle \in SUBSET Txs
    OBVIOUS
  <2> HIDE DEF cycle
  <2> QED
    BY <2>2, <2>3, <2>4 DEF Deadlocked
<1> QED
  BY <1>1, LocksSafe, RotationTypeCorrect, LogoutInvariant, PTL

-----------------------------------------------------------------------------
(* Rotation implements SessionFamily *)

\* The live token of a family is the one element of Alive, if there is one.
LEMMA OnlyOne ==
    ASSUME NEW S, NEW p \in S, \A q \in S : q = p
    PROVE  (IF S = {} THEN NoPair ELSE CHOOSE q \in S : TRUE) = p
<1>1. (CHOOSE q \in S : TRUE) \in S
  OBVIOUS
<1> QED
  BY <1>1

\* A commit without a new pair ends the families whose live token it has locked.
LEMMA RevokeStep ==
    ASSUME TypeOK, FamilySingleLive, NEW x \in Txs, NEW answer \in Ended, Commit(x, answer),
           new[x] = NoPair
    PROVE  \E fs \in SUBSET Pairs : Families!Revoke(fs)
<1> USE RotationAssumption
<1> DEFINE fs == {f \in Pairs : \E p \in Alive(f) : lock[<<"refresh", p>>] = x}
<1>1. ASSUME NEW q \in Pairs
      PROVE  /\ refresh'[q] = "live" <=> refresh[q] = "live" /\ lock[<<"refresh", q>>] # x
             /\ refresh'[q] # "none" <=> refresh[q] # "none"
             /\ family'[q] = family[q]
  <2>1. q # new[x]
    OBVIOUS
  <2>2. refresh[q] \in {"none", "live", "revoked"}
    BY DEF TypeOK
  <2> QED
    BY <2>1, <2>2, CommitRow
<1>2. ASSUME NEW f \in Pairs PROVE LiveOf(f)' = IF f \in fs THEN NoPair ELSE LiveOf(f)
  <2>1. CASE f \in fs
    <3>1. PICK p \in Alive(f) : lock[<<"refresh", p>>] = x
      BY <2>1
    <3>2. \A q \in Alive(f) : q = p
      BY DEF Alive, FamilySingleLive
    <3>3. ASSUME NEW q \in Pairs, refresh'[q] = "live", family'[q] = f PROVE FALSE
      <4>1. q \in Alive(f) /\ lock[<<"refresh", q>>] # x
        BY <1>1, <3>3 DEF Alive
      <4> QED
        BY <3>1, <3>2, <4>1
    <3>4. Alive(f)' = {}
      BY <3>3 DEF Alive
    <3> QED
      BY <2>1, <3>4 DEF LiveOf
  <2>2. CASE f \notin fs
    <3>1. Alive(f)' = Alive(f)
      BY <1>1, <2>2 DEF Alive
    <3> QED
      BY <2>2, <3>1 DEF LiveOf
  <2> QED
    BY <2>1, <2>2
<1>3. {p \in Pairs : refresh'[p] # "none"} = {p \in Pairs : refresh[p] # "none"}
  BY <1>1
<1>4. fs \in SUBSET Pairs
  OBVIOUS
<1> HIDE DEF fs
<1>5. Families!Revoke(fs)
  BY <1>2, <1>3 DEF Families!Revoke
<1> QED
  BY <1>4, <1>5

\* The commit of a login starts a family.
LEMMA StartStep ==
    ASSUME TypeOK, RotationInv, LocksInv, NEW x \in Txs, NEW answer \in Ended,
           Commit(x, answer), at[x] = "insert", new[x] # NoPair
    PROVE  \E p \in Pairs : Families!Start(p)
<1> USE RotationAssumption
<1>0. PICK p \in Pairs : p = new[x]
  BY DEF TypeOK
<1>1. refresh[p] = "none" /\ family[p] = p /\ token[x] = NoPair
  BY <1>0 DEF RotationInv
<1>2. ASSUME NEW q \in Pairs
      PROVE  /\ refresh'[q] = IF q = p THEN "live" ELSE refresh[q]
             /\ family'[q] = family[q]
  <2>1. <<"refresh", q>> \in Rows
    BY DEF Rows
  <2>2. lock[<<"refresh", q>>] # x
    BY <2>1 DEF LocksInv
  <2> QED
    BY <1>0, <1>1, <2>2, CommitRow
<1>3. ASSUME NEW q \in Pairs, refresh[q] # "none" PROVE family[q] # p
  BY <1>1, <1>3 DEF RotationInv
<1>4. ASSUME NEW f \in Pairs PROVE LiveOf(f)' = IF f = p THEN p ELSE LiveOf(f)
  <2>1. CASE f = p
    <3>1. Alive(f)' = {p}
      BY <1>1, <1>2, <1>3, <2>1 DEF Alive
    <3> QED
      BY <2>1, <3>1, OnlyOne DEF LiveOf
  <2>2. CASE f # p
    <3>1. Alive(f)' = Alive(f)
      BY <1>1, <1>2, <2>2 DEF Alive
    <3> QED
      BY <2>2, <3>1 DEF LiveOf
  <2> QED
    BY <2>1, <2>2
<1>5. /\ p \notin {q \in Pairs : refresh[q] # "none"}
      /\ {q \in Pairs : refresh'[q] # "none"} = {q \in Pairs : refresh[q] # "none"} \cup {p}
  BY <1>1, <1>2
<1>6. Families!Start(p)
  BY <1>1, <1>4, <1>5 DEF Families!Start
<1> QED
  BY <1>6

\* The commit of a rotation exchanges the presented token, the live one of its
\* family, for the inserted one.
LEMMA ExchangeStep ==
    ASSUME TypeOK, RotationInv, FamilySingleLive, LocksInv, NEW x \in Txs,
           NEW answer \in Ended, Commit(x, answer), at[x] = "commit", new[x] # NoPair
    PROVE  \E f, p \in Pairs : Families!Exchange(f, p)
<1> USE RotationAssumption
<1>0. PICK t \in Pairs, f \in Pairs, p \in Pairs : t = token[x] /\ f = family[t] /\ p = new[x]
  <2>0. new[x] \in Pairs
    BY DEF TypeOK
  <2>1. token[x] \in Pairs
    BY CommitSources
  <2>2. family[token[x]] \in Pairs
    BY <2>1 DEF TypeOK
  <2> QED
    BY <2>0, <2>1, <2>2
<1>1. refresh[p] = "none" /\ refresh[t] = "live" /\ lock[<<"refresh", t>>] = x
  BY <1>0 DEF RotationInv
<1>2. ASSUME NEW q \in Pairs
      PROVE  /\ refresh'[q] = IF q = p THEN "live" ELSE IF q = t THEN "revoked" ELSE refresh[q]
             /\ family'[q] = IF q = p THEN f ELSE family[q]
  <2>1. <<"refresh", q>> \in Rows
    BY DEF Rows
  <2>2. q # t => lock[<<"refresh", q>>] # x
    <3> SUFFICES ASSUME lock[<<"refresh", q>>] = x PROVE q = t
      OBVIOUS
    <3>1. <<"refresh", q>> = <<"refresh", t>>
      BY <1>0, <2>1 DEF LocksInv
    <3> QED
      BY <3>1
  <2> QED
    BY <1>0, <1>1, <2>2, CommitRow
<1>3. \A q \in Pairs : refresh[q] = "live" /\ family[q] = f => q = t
  BY <1>0, <1>1 DEF FamilySingleLive
<1>4. ASSUME NEW g \in Pairs PROVE LiveOf(g)' = IF g = f THEN p ELSE LiveOf(g)
  <2>1. CASE g = f
    <3>1. Alive(g)' = {p}
      BY <1>1, <1>2, <1>3, <2>1 DEF Alive
    <3> QED
      BY <2>1, <3>1, OnlyOne DEF LiveOf
  <2>2. CASE g # f
    <3>1. Alive(g)' = Alive(g)
      BY <1>0, <1>1, <1>2, <2>2 DEF Alive
    <3> QED
      BY <2>2, <3>1 DEF LiveOf
  <2> QED
    BY <2>1, <2>2
<1>5. /\ p \notin {q \in Pairs : refresh[q] # "none"}
      /\ {q \in Pairs : refresh'[q] # "none"} = {q \in Pairs : refresh[q] # "none"} \cup {p}
  BY <1>1, <1>2
<1>6. LiveOf(f) # NoPair
  <2>1. t \in Alive(f) /\ Alive(f) \subseteq Pairs
    BY <1>0, <1>1 DEF Alive
  <2>2. (CHOOSE q \in Alive(f) : TRUE) \in Pairs
    BY <2>1
  <2> QED
    BY <2>1, <2>2 DEF LiveOf
<1>7. Families!Exchange(f, p)
  BY <1>1, <1>4, <1>5, <1>6 DEF Families!Exchange
<1> QED
  BY <1>7

\* A step that commits nothing changes neither refresh_tokens nor a family.
LEMMA FamilyStutter ==
    ASSUME UNCHANGED <<refresh, family>>
    PROVE  UNCHANGED <<[f \in Pairs |-> LiveOf(f)], {p \in Pairs : refresh[p] # "none"}>>
BY DEF LiveOf, Alive

\* Every step is a step of SessionFamily or changes nothing there.
LEMMA FamilyStep ==
    ASSUME TypeOK, RotationInv, FamilySingleLive, LocksInv, [Next]_rotationVars
    PROVE  [Families!Next]_<<[f \in Pairs |-> LiveOf(f)], {p \in Pairs : refresh[p] # "none"}>>
<1> USE RotationAssumption
<1>1. ASSUME NEW x \in Txs, NEW answer \in Ended, Commit(x, answer)
      PROVE  Families!Next
  <2>1. CASE new[x] = NoPair
    BY <1>1, <2>1, RevokeStep DEF Families!Next
  <2>2. CASE new[x] # NoPair /\ at[x] = "insert"
    BY <1>1, <2>2, StartStep DEF Families!Next
  <2>3. CASE new[x] # NoPair /\ at[x] = "commit"
    BY <1>1, <2>3, ExchangeStep DEF Families!Next
  <2> QED
    BY <2>1, <2>2, <2>3 DEF RotationInv
<1>2. ASSUME NEW x \in Txs, \/ LoginCommit(x) \/ RotateCommit(x) \/ WipeCommit(x)
                            \/ LogoutCommit(x) \/ FailAfterCommit(x)
      PROVE  \E answer \in Ended : Commit(x, answer)
  BY <1>2 DEF LoginCommit, RotateCommit, WipeCommit, LogoutCommit, FailAfterCommit, Ended
<1>3. ASSUME NEW x \in Txs,
             \/ \E u \in Users : Login(x, u)
             \/ \E p \in Pairs : Refresh(x, p)
             \/ \E p \in Pairs, a \in Pairs \cup {NoPair} : Logout(x, p, a)
             \/ Select(x) \/ Rotate(x) \/ WipeAccess(x) \/ WipeRefresh(x)
             \/ \E row \in Rows : UpdateRow(x, row)
             \/ DropRefresh(x) \/ DropAccess(x)
      PROVE  UNCHANGED <<refresh, family>>
  BY <1>3 DEF Login, Refresh, Logout, Select, Rotate, WipeAccess, WipeRefresh, UpdateRow,
              DropRefresh, DropAccess, tables
<1>4. ASSUME NEW x \in Txs, \/ SelectExpired(x) \/ RotateUnsupplied(x) \/ DropAccessMissing(x)
                            \/ DeadlockAbort(x) \/ Fail(x)
      PROVE  UNCHANGED <<refresh, family>>
  BY <1>4 DEF SelectExpired, RotateUnsupplied, DropAccessMissing, DeadlockAbort, Fail, Rollback,
              tables
<1>5. (\E p \in Pairs : Expire(p)) \/ UNCHANGED rotationVars => UNCHANGED <<refresh, family>>
  BY DEF Expire, rotationVars, tables
<1>6. Families!Next \/ UNCHANGED <<refresh, family>>
  BY <1>1, <1>2, <1>3, <1>4, <1>5 DEF Next, Proceed
<1> QED
  BY <1>6, FamilyStutter

\* Rotation implements SessionFamily under the mapping of LiveOf: every commit
\* starts a family, exchanges its live token for a new one, or ends families for
\* good, and no other step shows.
THEOREM FamiliesImplemented == Spec => ImplementsSessionFamily
<1>1. Init => Families!Init
  <2> SUFFICES ASSUME Init PROVE Families!Init
    OBVIOUS
  <2> USE RotationAssumption
  <2>1. ASSUME NEW f \in Pairs PROVE LiveOf(f) = IF f \in Established THEN f ELSE NoPair
    <3>1. Alive(f) = IF f \in Established THEN {f} ELSE {}
      BY DEF Init, Alive
    <3> QED
      BY <3>1, OnlyOne DEF LiveOf
  <2>2. {p \in Pairs : refresh[p] # "none"} = Established
    BY DEF Init
  <2> QED
    BY <2>1, <2>2 DEF Families!Init
<1> QED
  BY <1>1, FamilyStep, RotationTypeCorrect, LogoutInvariant, SingleLiveSafe, LocksSafe, PTL
     DEF Spec, ImplementsSessionFamily, Families!Spec
=============================================================================
