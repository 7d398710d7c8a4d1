-------------------------- MODULE Lifespan_proofs --------------------------
(* Theorems about Lifespan, for any number of workers.                     *)
EXTENDS Lifespan, SequenceTheorems, TLAPS

-----------------------------------------------------------------------------
(* The schema *)

\* The statements, as a set.
Stmt == {Tables[i] : i \in 1..8} \cup {Indexes[i] : i \in 1..12}

\* Eight tables, then twelve indexes.
LEMMA SchemaParts ==
    /\ LastStatement = 20
    /\ \A i \in 1..8 : Statements[i] = Tables[i]
    /\ \A i \in 9..20 : Statements[i] = Indexes[i - 8]
<1>1. Len(Tables) = 8 /\ Len(Indexes) = 12
  BY DEF Tables, Indexes
<1>2. Tables \in Seq(Stmt)
  <2>1. Tables = [i \in 1..8 |-> Tables[i]]
    BY DEF Tables
  <2> QED BY <2>1, IsASeq DEF Stmt
<1>3. Indexes \in Seq(Stmt)
  <2>1. Indexes = [i \in 1..12 |-> Indexes[i]]
    BY DEF Indexes
  <2> QED BY <2>1, IsASeq DEF Stmt
<1>4. /\ Len(Tables \o Indexes) = Len(Tables) + Len(Indexes)
      /\ \A i \in 1..Len(Tables) + Len(Indexes) :
            (Tables \o Indexes)[i] = IF i <= Len(Tables) THEN Tables[i]
                                     ELSE Indexes[i - Len(Tables)]
  BY <1>2, <1>3, ConcatProperties
<1>5. Statements = Tables \o Indexes
  BY DEF Statements, Schema
<1>6. LastStatement = 20
  BY <1>1, <1>4, <1>5 DEF LastStatement
<1>7. ASSUME NEW i \in 1..8 PROVE Statements[i] = Tables[i]
  <2>1. i \in 1..Len(Tables) + Len(Indexes) /\ i <= Len(Tables)
    BY <1>1
  <2> QED
    BY <1>4, <1>5, <2>1
<1>8. ASSUME NEW i \in 9..20 PROVE Statements[i] = Indexes[i - 8]
  <2>1. i \in 1..Len(Tables) + Len(Indexes) /\ ~ (i <= Len(Tables)) /\ i - Len(Tables) = i - 8
    BY <1>1
  <2> QED
    BY <1>4, <1>5, <2>1
<1> QED
  BY <1>6, <1>7, <1>8

\* No statement refers to a table that an earlier one does not create.
LEMMA SchemaOrdered ==
    ASSUME NEW i \in 1..LastStatement, NEW t \in On(i)
    PROVE  \E j \in 1..(i - 1) : Name(j) = t
<1>1. /\ Name(1) = "users" /\ Name(2) = "friendships" /\ Name(3) = "access_tokens"
      /\ Name(4) = "refresh_tokens" /\ Name(5) = "groups" /\ Name(6) = "memberships"
      /\ Name(7) = "direct_messages" /\ Name(8) = "group_messages"
  BY SchemaParts DEF Name, Tables
<1>2. CASE i \in 1..8
  <2>1. Statements[i] = Tables[i]
    BY <1>2, SchemaParts
  <2>2. On(i) = Tables[i][2]
    BY <2>1 DEF On
  <2>3. t \in {"users", "groups"} /\ i > 1 /\ (t = "groups" => i > 5)
    BY <1>2, <2>2 DEF Tables
  <2> QED
    BY <1>1, <2>3
<1>3. CASE i \in 9..20
  <2>1. On(i) = Indexes[i - 8][2]
    BY <1>3, SchemaParts DEF On
  <2>2. t \in {"friendships", "access_tokens", "refresh_tokens", "groups", "memberships",
               "direct_messages", "group_messages"}
    BY <1>3, <2>1 DEF Indexes
  <2> QED
    BY <1>1, <1>3, <2>2
<1> QED
  BY <1>2, <1>3, SchemaParts

-----------------------------------------------------------------------------
(* The invariant *)

\* Workers are at a point of lifespan and count their statements.
Types ==
    /\ at \in [Workers -> Points]
    /\ pc \in [Workers -> Nat]

\* A worker has a statement behind it only if its object is committed, and
\* nothing is ever dropped.
Behind(w) ==
    /\ at[w] \in {"down", "connect", "lock"} => pc[w] = 1
    /\ at[w] \in InSchema => /\ pc[w] \in 1..LastStatement
                             /\ \A j \in 1..(pc[w] - 1) : Name(j) \in catalog
    /\ at[w] \in {"redis"} \cup Up => \A j \in 1..LastStatement : Name(j) \in catalog

\* The inductive invariant.
Inv == Types /\ \A w \in Workers : Behind(w)

\* A step of w leaves the other workers where they are.
LEMMA BehindFrame ==
    ASSUME Inv, NEW w \in Workers, Types', catalog \subseteq catalog', Behind(w)',
           \A v \in Workers : v # w => at'[v] = at[v] /\ pc'[v] = pc[v]
    PROVE  Inv'
<1>1. ASSUME NEW v \in Workers, v # w PROVE Behind(v)'
  <2>1. Behind(v) /\ at'[v] = at[v] /\ pc'[v] = pc[v]
    BY <1>1 DEF Inv
  <2> QED
    BY <2>1 DEF Behind
<1> QED
  BY <1>1 DEF Inv

\* A step of w that moves neither its statement nor the catalog.
LEMMA GotoInv ==
    ASSUME Inv, NEW w \in Workers, NEW p \in Points, Goto(w, p), UNCHANGED <<catalog, pc>>,
           p \in {"connect", "lock"} => pc[w] = 1,
           p \in InSchema => /\ pc[w] \in 1..LastStatement
                             /\ \A j \in 1..(pc[w] - 1) : Name(j) \in catalog,
           p \in Up => \A j \in 1..LastStatement : Name(j) \in catalog,
           p \notin {"down", "redis"}
    PROVE  Inv'
<1>1. Types' /\ at'[w] = p /\ \A v \in Workers : v # w => at'[v] = at[v]
  BY DEF Inv, Types, Goto
<1>2. Behind(w)'
  BY <1>1 DEF Behind
<1> QED
  BY <1>1, <1>2, BehindFrame

\* The process of w ends.
LEMMA ExitInv ==
    ASSUME Inv, NEW w \in Workers, Exit(w), catalog \subseteq catalog'
    PROVE  Inv'
<1>1. /\ Types' /\ at'[w] = "down" /\ pc'[w] = 1
      /\ \A v \in Workers : v # w => at'[v] = at[v] /\ pc'[v] = pc[v]
  BY DEF Inv, Types, Goto, Exit, Points
<1>2. Behind(w)'
  BY <1>1 DEF Behind, InSchema, Up
<1> QED
  BY <1>1, <1>2, BehindFrame

\* A statement has ended and its object is there.
LEMMA AdvanceInv ==
    ASSUME Inv, NEW w \in Workers, at[w] \in InSchema, Advance(w),
           catalog \subseteq catalog', Name(pc[w]) \in catalog'
    PROVE  Inv'
<1>0. /\ pc[w] \in 1..LastStatement /\ LastStatement \in Nat
      /\ \A j \in 1..(pc[w] - 1) : Name(j) \in catalog
  BY SchemaParts DEF Inv, Behind
<1>1. /\ pc'[w] = pc[w] + 1
      /\ at'[w] = IF pc[w] < LastStatement THEN "schema" ELSE "redis"
      /\ \A v \in Workers : v # w => at'[v] = at[v] /\ pc'[v] = pc[v]
  BY DEF Inv, Types, Advance, Goto
<1>2. Types'
  <2>1. pc[w] + 1 \in Nat
    BY <1>0
  <2>2. pc' \in [Workers -> Nat]
    BY <2>1 DEF Inv, Types, Advance
  <2>3. at' \in [Workers -> Points]
    BY DEF Inv, Types, Advance, Goto, Points, InSchema
  <2> QED
    BY <2>2, <2>3 DEF Types
<1>3. \A j \in 1..pc[w] : Name(j) \in catalog'
  <2>1. ASSUME NEW j \in 1..pc[w] PROVE j = pc[w] \/ j \in 1..(pc[w] - 1)
    BY <1>0
  <2> QED
    BY <1>0, <2>1
<1>4. Behind(w)'
  <2>1. CASE pc[w] < LastStatement
    <3>1. at'[w] = "schema" /\ pc'[w] \in 1..LastStatement /\ pc'[w] - 1 = pc[w]
      BY <1>0, <1>1, <2>1
    <3> QED
      BY <1>3, <3>1 DEF Behind, InSchema, Up
  <2>2. CASE ~ (pc[w] < LastStatement)
    <3>1. at'[w] = "redis" /\ pc[w] = LastStatement
      BY <1>0, <1>1, <2>2
    <3> QED
      BY <1>3, <3>1 DEF Behind, InSchema, Up
  <2> QED
    BY <2>1, <2>2
<1> QED
  BY <1>1, <1>2, <1>4, BehindFrame

\* Every step keeps the invariant.
LEMMA LifespanStep ==
    ASSUME Inv, [Next]_lifespanVars PROVE Inv'
<1>0. LastStatement \in Nat /\ 1 \in 1..LastStatement
  BY SchemaParts
<1>1. ASSUME NEW w \in Workers,
             \/ ConnectFails(w) \/ CreateFails(w) \/ StatementFails(w)
             \/ PingFails(w) \/ Crash(w) \/ CommitUnacknowledged(w)
      PROVE  Inv'
  <2>1. Exit(w) /\ catalog \subseteq catalog'
    BY <1>1 DEF ConnectFails, CreateFails, StatementFails, PingFails, Crash,
                CommitUnacknowledged
  <2> QED
    BY <2>1, ExitInv
<1>2. ASSUME NEW w \in Workers, Restart(w) PROVE Inv'
  <2>1. Goto(w, "connect") /\ UNCHANGED <<catalog, pc>> /\ pc[w] = 1
    BY <1>2 DEF Restart, Inv, Behind
  <2> QED
    BY <2>1, GotoInv DEF Points, InSchema, Up
<1>3. ASSUME NEW w \in Workers, Connect(w) PROVE Inv'
  <2>1. Goto(w, "lock") /\ UNCHANGED <<catalog, pc>> /\ pc[w] = 1
    BY <1>3 DEF Connect, Inv, Behind
  <2> QED
    BY <2>1, GotoInv DEF Points, InSchema, Up
<1>4. ASSUME NEW w \in Workers, AdvisoryLock(w) PROVE Inv'
  <2>1. Goto(w, "schema") /\ UNCHANGED <<catalog, pc>> /\ pc[w] = 1
    BY <1>4 DEF AdvisoryLock, Inv, Behind
  <2>2. pc[w] \in 1..LastStatement /\ \A j \in 1..(pc[w] - 1) : Name(j) \in catalog
    BY <1>0, <2>1
  <2> QED
    BY <2>1, <2>2, GotoInv DEF Points, InSchema, Up
<1>5. ASSUME NEW w \in Workers, SkipExisting(w) PROVE Inv'
  <2>1. /\ at[w] \in InSchema /\ Advance(w) /\ catalog \subseteq catalog'
        /\ Name(pc[w]) \in catalog'
    BY <1>5 DEF SkipExisting, Exists, InSchema
  <2> QED
    BY <2>1, AdvanceInv
<1>6. ASSUME NEW w \in Workers, CommitEntry(w) PROVE Inv'
  <2>1. /\ at[w] \in InSchema /\ Advance(w) /\ catalog \subseteq catalog'
        /\ Name(pc[w]) \in catalog'
    BY <1>6 DEF CommitEntry, InSchema
  <2> QED
    BY <2>1, AdvanceInv
<1>7. ASSUME NEW w \in Workers, LookFirst(w) \/ InsertEntry(w) PROVE Inv'
  <2>1. PICK p \in {"absent", "created"} : Goto(w, p)
    BY <1>7 DEF LookFirst, InsertEntry
  <2>2. UNCHANGED <<catalog, pc>> /\ at[w] \in InSchema
    BY <1>7 DEF LookFirst, InsertEntry, InSchema
  <2>3. pc[w] \in 1..LastStatement /\ \A j \in 1..(pc[w] - 1) : Name(j) \in catalog
    BY <2>2 DEF Inv, Behind
  <2> QED
    BY <2>1, <2>2, <2>3, GotoInv DEF Points, InSchema, Up
<1>8. ASSUME NEW w \in Workers, ConnectRedis(w) \/ Shutdown(w) PROVE Inv'
  <2>1. PICK p \in {"serving", "cancelling"} : Goto(w, p)
    BY <1>8 DEF ConnectRedis, Shutdown
  <2>2. UNCHANGED <<catalog, pc>> /\ at[w] \in {"redis"} \cup Up
    BY <1>8 DEF ConnectRedis, Shutdown, Up
  <2>3. \A j \in 1..LastStatement : Name(j) \in catalog
    BY <2>2 DEF Inv, Behind
  <2> QED
    BY <2>1, <2>2, <2>3, GotoInv DEF Points, InSchema, Up
<1>9. ASSUME NEW w \in Workers, Stop(w) PROVE Inv'
  <2>1. Goto(w, "stopped") /\ UNCHANGED <<catalog, pc>>
    BY <1>9 DEF Stop
  <2> QED
    BY <2>1, GotoInv DEF Points, InSchema, Up
<1>10. ASSUME UNCHANGED <<catalog, at, pc>> PROVE Inv'
  BY <1>10 DEF Inv, Types, Behind
<1>11. ASSUME NEW w \in Workers, ConnectRefused(w) \/ Listen(w)
       PROVE  UNCHANGED <<catalog, at, pc>>
  BY <1>11 DEF ConnectRefused, Listen, Subscribe, ConnectionLost, Unsubscribe,
               UnsubscribeFails, Move
<1>12. ASSUME Outage \/ PostgresRecovers \/ RedisRecovers \/ UNCHANGED lifespanVars
       PROVE  UNCHANGED <<catalog, at, pc>>
  BY <1>12 DEF Outage, PostgresRecovers, RedisRecovers, lifespanVars
<1> QED
  BY <1>1, <1>2, <1>3, <1>4, <1>5, <1>6, <1>7, <1>8, <1>9, <1>10, <1>11, <1>12
     DEF Next, Proceed

\* Every worker begins before its first statement.
LEMMA LifespanStart == Init => Inv
BY DEF Init, Inv, Types, Behind, Points, InSchema, Up

\* However many workers start together, and whichever of them fail, a worker
\* serves only with the whole schema: the loop of ensure_tables_exist and
\* ensure_indexes_exist leaves no statement out and ends on every error.
THEOREM ServingSafe == Spec => []ServingIsComplete
<1>1. Inv => ServingIsComplete
  BY DEF Inv, Behind, ServingIsComplete, LastStatement, Statements, Name
<1> QED
  BY <1>1, LifespanStart, LifespanStep, PTL DEF Spec

\* No CREATE statement of any worker ever misses a table it refers to.
THEOREM ReferencesSafe == Spec => []ReferencesExist
<1>1. Inv => ReferencesExist
  <2> SUFFICES ASSUME Inv, NEW w \in Workers, at[w] \in {"absent", "created"},
                      NEW t \in On(pc[w])
               PROVE  t \in catalog
    BY DEF ReferencesExist
  <2>1. /\ pc[w] \in 1..LastStatement
        /\ \A j \in 1..(pc[w] - 1) : Name(j) \in catalog
    BY DEF Inv, Behind, InSchema
  <2> QED
    BY <2>1, SchemaOrdered
<1> QED
  BY <1>1, LifespanStart, LifespanStep, PTL DEF Spec
=============================================================================
