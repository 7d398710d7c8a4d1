--------------------------- MODULE History_proofs ---------------------------
(***************************************************************************)
(* Proofs about History, for every conversation, every limit and every     *)
(* bound on the clock.                                                     *)
(*                                                                         *)
(* Induction over finite sets is done with the library's theorem that      *)
(* strict inclusion is well-founded on them: a set of counterexamples has  *)
(* a smallest member.                                                      *)
(***************************************************************************)
EXTENDS History, FiniteSetTheorems, TLAPS

-----------------------------------------------------------------------------
(* Finite sets with times *)

\* A finite, nonempty set has a member with the least value.
LEMMA FiniteLeast ==
    ASSUME NEW S, IsFiniteSet(S), S # {}, NEW f, \A s \in S : f[s] \in Int
    PROVE  \E x \in S : \A y \in S : f[x] <= f[y]
<1> DEFINE Least(T, x) == x \in T /\ \A y \in T : f[x] <= f[y]
           Bad == {T \in FiniteSubsetsOf(S) : T # {} /\ ~ \E x \in T : Least(T, x)}
<1> SUFFICES ASSUME Bad # {} PROVE FALSE
  <2>1. S \in FiniteSubsetsOf(S)
    BY DEF FiniteSubsetsOf
  <2> QED
    BY <2>1
<1>1. Bad \subseteq FiniteSubsetsOf(S)
  OBVIOUS
<1>2. PICK T \in Bad : \A U \in Bad : <<U, T>> \notin StrictSubsetOrdering(S)
  <2>1. IsWellFoundedOn(StrictSubsetOrdering(S), FiniteSubsetsOf(S))
    BY FS_StrictSubsetOrderingWellFounded
  <2> HIDE DEF Bad
  <2> QED
    BY <1>1, <2>1, WFMin
<1>3. T \subseteq S /\ IsFiniteSet(T) /\ T # {} /\ ~ \E x \in T : Least(T, x)
  BY DEF FiniteSubsetsOf
<1>4. PICK x \in T : TRUE
  BY <1>3
<1> DEFINE U == T \ {x}
<1>5. U \in FiniteSubsetsOf(S) /\ <<U, T>> \in StrictSubsetOrdering(S)
  <2>1. IsFiniteSet(U)
    BY <1>3, FS_RemoveElement
  <2>2. U \in SUBSET S /\ T \in SUBSET S /\ U \subseteq T /\ U # T
    BY <1>3, <1>4
  <2> QED
    BY <2>1, <2>2 DEF FiniteSubsetsOf, StrictSubsetOrdering
<1>6. U = {} \/ \E y \in U : Least(U, y)
  <2>1. U \notin Bad
    BY <1>2, <1>5
  <2> QED
    BY <1>5, <2>1
<1>7. CASE U = {}
  <2>1. T = {x}
    BY <1>4, <1>7
  <2>2. f[x] \in Int
    BY <1>3, <1>4
  <2> QED
    BY <1>3, <2>1, <2>2
<1>8. CASE \E y \in U : Least(U, y)
  <2>1. PICK y \in U : Least(U, y)
    BY <1>8
  <2>2. \A z \in T : f[z] \in Int
    BY <1>3
  <2>3. Least(T, IF f[x] <= f[y] THEN x ELSE y)
    BY <1>4, <2>1, <2>2
  <2> QED
    BY <1>3, <2>3
<1> QED
  BY <1>6, <1>7, <1>8

\* T takes no member of S while it leaves a later one out.
Top(f, T, S) == T \subseteq S /\ \A x \in T, y \in S \ T : f[x] >= f[y]

Least2(i, j) == IF i < j THEN i ELSE j

\* A set with that property can be extended to any size up to that of S.
LEMMA TopExtends ==
    ASSUME NEW S, IsFiniteSet(S), NEW f, \A s \in S : f[s] \in Int,
           NEW D, Top(f, D, S), NEW n \in Nat, Cardinality(D) <= n, n <= Cardinality(S)
    PROVE  \E T : D \subseteq T /\ Top(f, T, S) /\ Cardinality(T) = n
<1> DEFINE Good(T) == D \subseteq T /\ Top(f, T, S) /\ Cardinality(T) <= n
           Rest == {R \in FiniteSubsetsOf(S) : Good(S \ R)}
<1>1. Rest # {}
  <2>1. S \ D \in FiniteSubsetsOf(S)
    BY FS_Difference DEF FiniteSubsetsOf
  <2>2. S \ (S \ D) = D
    BY DEF Top
  <2>3. Good(D)
    OBVIOUS
  <2> QED
    BY <2>1, <2>2, <2>3
<1>2. PICK R \in Rest : \A Q \in Rest : <<Q, R>> \notin StrictSubsetOrdering(S)
  <2>1. IsWellFoundedOn(StrictSubsetOrdering(S), FiniteSubsetsOf(S))
    BY FS_StrictSubsetOrderingWellFounded
  <2>2. Rest \subseteq FiniteSubsetsOf(S)
    OBVIOUS
  <2> HIDE DEF Rest
  <2> QED
    BY <1>1, <2>1, <2>2, WFMin
<1> DEFINE T == S \ R
<1>3. /\ R \subseteq S /\ IsFiniteSet(R)
      /\ D \subseteq T /\ Top(f, T, S) /\ Cardinality(T) <= n
  BY DEF FiniteSubsetsOf
<1>4. IsFiniteSet(T) /\ Cardinality(T) \in Nat
  BY FS_Difference, FS_CardinalityType
<1>5. ~ (Cardinality(T) < n)
  <2> SUFFICES ASSUME Cardinality(T) < n PROVE FALSE
    OBVIOUS
  <2>1. R # {}
    <3> SUFFICES ASSUME R = {} PROVE FALSE
      OBVIOUS
    <3>1. T = S
      OBVIOUS
    <3>2. Cardinality(T) = Cardinality(S)
      BY <3>1
    <3> HIDE DEF T
    <3> QED
      BY <1>4, <3>2
  <2>2. PICK z \in R : \A y \in R : f[y] <= f[z]
    <3> DEFINE g == [s \in R |-> 0 - f[s]]
    <3>1. \A s \in R : f[s] \in Int /\ g[s] \in Int /\ g[s] = 0 - f[s]
      BY <1>3
    <3> HIDE DEF g
    <3>2. PICK z \in R : \A y \in R : g[z] <= g[y]
      BY <1>3, <2>1, <3>1, FiniteLeast
    <3>3. \A y \in R : f[y] <= f[z]
      BY <3>1, <3>2
    <3> QED
      BY <3>3
  <2> DEFINE Q == R \ {z}
  <2>3. S \ Q = T \cup {z} /\ z \notin T
    BY <1>3, <2>2
  <2>4. Q \in FiniteSubsetsOf(S)
    BY <1>3, FS_RemoveElement DEF FiniteSubsetsOf
  <2>5. <<Q, R>> \in StrictSubsetOrdering(S)
    BY <1>3, <2>2 DEF StrictSubsetOrdering
  <2>6. Top(f, T \cup {z}, S)
    <3> SUFFICES ASSUME NEW x \in T \cup {z}, NEW y \in S, y \notin T \cup {z}
                 PROVE  f[x] >= f[y]
      BY <1>3, <2>2 DEF Top
    <3>1. y \in R
      OBVIOUS
    <3>2. f[x] \in Int /\ f[y] \in Int
      BY <1>3, <2>2
    <3>3. CASE x = z
      BY <2>2, <3>1, <3>2, <3>3
    <3>4. CASE x \in T
      BY <1>3, <3>4 DEF Top
    <3> QED
      BY <3>3, <3>4
  <2>7. Cardinality(T \cup {z}) <= n
    <3>1. Cardinality(T \cup {z}) = Cardinality(T) + 1
      BY <1>4, <2>3, FS_AddElement
    <3> HIDE DEF T
    <3> QED
      BY <1>4, <3>1
  <2>8. Q \in Rest
    BY <1>3, <2>3, <2>4, <2>6, <2>7
  <2> QED
    BY <1>2, <2>5, <2>8
<1> HIDE DEF T
<1>6. Cardinality(T) = n
  BY <1>3, <1>4, <1>5
<1> QED
  BY <1>3, <1>6

\* Two limited branches: their union is as large as the limit needs it to be.
LEMMA MergedSize ==
    ASSUME NEW A, NEW B, IsFiniteSet(A), IsFiniteSet(B), A \cap B = {}, NEW f, NEW n \in Nat,
           NEW X, Top(f, X, A), Cardinality(X) = Least2(Cardinality(A), n),
           NEW Y, Top(f, Y, B), Cardinality(Y) = Least2(Cardinality(B), n)
    PROVE  /\ IsFiniteSet(X \cup Y) /\ Cardinality(X \cup Y) \in Nat
           /\ Least2(Cardinality(X \cup Y), n) = Least2(Cardinality(A \cup B), n)
<1>0. X \subseteq A /\ Y \subseteq B /\ X \cap Y = {}
  BY DEF Top
<1>1. IsFiniteSet(X) /\ IsFiniteSet(Y)
  BY <1>0, FS_Subset
<1>2. /\ Cardinality(A) \in Nat /\ Cardinality(B) \in Nat
      /\ Cardinality(X) \in Nat /\ Cardinality(Y) \in Nat
  BY <1>1, FS_CardinalityType
<1>3. /\ Cardinality(A \cup B) = Cardinality(A) + Cardinality(B)
      /\ Cardinality(X \cup Y) = Cardinality(X) + Cardinality(Y)
      /\ IsFiniteSet(X \cup Y)
  <2>1. Cardinality(A \cap B) = 0 /\ Cardinality(X \cap Y) = 0
    BY <1>0, FS_EmptySet
  <2>2. Cardinality(A \cup B) = Cardinality(A) + Cardinality(B) - Cardinality(A \cap B)
    BY FS_Union
  <2>3. /\ Cardinality(X \cup Y) = Cardinality(X) + Cardinality(Y) - Cardinality(X \cap Y)
        /\ IsFiniteSet(X \cup Y)
    BY <1>1, FS_Union
  <2> QED
    BY <1>2, <2>1, <2>2, <2>3
<1> QED
  BY <1>0, <1>2, <1>3 DEF Least2

\* What a full branch leaves out is not later than anything in T, since T cannot
\* hold the whole branch and a message of the other one.
LEMMA LeftOut ==
    ASSUME NEW U, IsFiniteSet(U), NEW f, \A s \in U : f[s] \in Int, NEW n \in Nat,
           NEW C, IsFiniteSet(C), C \subseteq U, NEW Z, Top(f, Z, C),
           Cardinality(Z) = Least2(Cardinality(C), n),
           NEW V, Z \subseteq V, V \subseteq U, NEW T, Top(f, T, V), Cardinality(T) <= n,
           NEW x \in T, NEW y \in C, y \notin Z
    PROVE  f[x] >= f[y]
<1>1. IsFiniteSet(Z) /\ Z \subseteq C
  BY FS_Subset DEF Top
<1>2. Cardinality(Z) = n
  <2>1. Cardinality(Z) # Cardinality(C)
    BY <1>1, FS_Subset
  <2> QED
    BY <2>1 DEF Least2
<1>3. T \subseteq V /\ IsFiniteSet(T) /\ Cardinality(T) \in Nat
  <2>1. T \subseteq U /\ T \subseteq V
    BY DEF Top
  <2> QED
    BY <2>1, FS_Subset, FS_CardinalityType
<1>4. CASE x \in Z
  BY <1>4 DEF Top
<1>5. CASE x \notin Z
  <2>1. PICK z \in Z : z \notin T
    <3> SUFFICES ASSUME Z \subseteq T PROVE FALSE
      OBVIOUS
    <3>1. Cardinality(Z) <= Cardinality(T) /\ (Cardinality(T) = Cardinality(Z) => T = Z)
      BY <1>3, FS_Subset
    <3>2. Cardinality(T) = Cardinality(Z)
      BY <1>2, <1>3, <3>1
    <3> QED
      BY <1>5, <3>1, <3>2
  <2>2. f[x] >= f[z]
    BY <2>1 DEF Top
  <2>3. f[z] >= f[y]
    BY <2>1 DEF Top
  <2>4. f[x] \in Int /\ f[y] \in Int /\ f[z] \in Int
    BY <1>1, <1>3, <2>1
  <2> QED
    BY <2>2, <2>3, <2>4
<1> QED
  BY <1>4, <1>5

\* The limit over the union of two limited branches: the result is a top part of
\* the whole.
LEMMA MergedIsTop ==
    ASSUME NEW A, NEW B, IsFiniteSet(A), IsFiniteSet(B), A \cap B = {}, NEW n \in Nat,
           NEW f, \A s \in A \cup B : f[s] \in Int,
           NEW X, Top(f, X, A), Cardinality(X) = Least2(Cardinality(A), n),
           NEW Y, Top(f, Y, B), Cardinality(Y) = Least2(Cardinality(B), n),
           NEW T, Top(f, T, X \cup Y), Cardinality(T) = Least2(Cardinality(X \cup Y), n)
    PROVE  Top(f, T, A \cup B)
<1>1. X \subseteq A /\ Y \subseteq B /\ T \subseteq A \cup B
  BY DEF Top
<1>2. IsFiniteSet(A \cup B)
  BY FS_Union
<1>3. Cardinality(T) <= n
  <2>1. IsFiniteSet(X \cup Y)
    BY <1>1, <1>2, FS_Subset
  <2>2. Cardinality(X \cup Y) \in Nat
    BY <2>1, FS_CardinalityType
  <2> QED
    BY <2>2 DEF Least2
<1>4. ASSUME NEW x \in T, NEW y \in (A \cup B) \ T PROVE f[x] >= f[y]
  <2>1. CASE y \in X \cup Y
    BY <1>4, <2>1 DEF Top
  <2>2. CASE y \in A /\ y \notin X
    BY <1>1, <1>2, <1>3, <2>2, LeftOut
  <2>3. CASE y \in B /\ y \notin Y
    BY <1>1, <1>2, <1>3, <2>3, LeftOut
  <2> QED
    BY <1>4, <2>1, <2>2, <2>3
<1> QED
  BY <1>1, <1>4 DEF Top

-----------------------------------------------------------------------------
(* The queries *)

\* Types, and that there are finitely many messages, each with its time.  That is
\* a fact about the INSERTs, not an assumption on the conversation.
TypeInv ==
    /\ clock \in 1 .. MaxTime
    /\ at \in [Messages -> 0 .. MaxTime]
    /\ stored \subseteq Messages /\ IsFiniteSet(stored)
    /\ \A m \in stored : at[m] # 0
    /\ stage \in {"idle", "walking", "done", "refused"}
    /\ before \in 0 .. MaxTime
    /\ got \subseteq stored /\ owed \subseteq stored

\* Newest in the terms of the lemmas above.
LEMMA NewestIsTop ==
    ASSUME NEW S, NEW n \in Nat, NEW T
    PROVE  T \in Newest(S, n) <=> Top(at, T, S) /\ Cardinality(T) = Least2(Cardinality(S), n)
BY DEF Newest, kSubset, Top, Least2

\* The messages before a cursor.
LEMMA OlderFacts ==
    ASSUME TypeInv, NEW c
    PROVE  /\ IsFiniteSet(OlderThan(Mine, c)) /\ IsFiniteSet(OlderThan(Messages \ Mine, c))
           /\ IsFiniteSet(OlderThan(Messages, c))
           /\ OlderThan(Mine, c) \cap OlderThan(Messages \ Mine, c) = {}
           /\ OlderThan(Mine, c) \cup OlderThan(Messages \ Mine, c) = OlderThan(Messages, c)
           /\ \A m \in OlderThan(Messages, c) : at[m] \in Int
<1>1. /\ OlderThan(Mine, c) \subseteq stored /\ OlderThan(Messages \ Mine, c) \subseteq stored
      /\ OlderThan(Messages, c) \subseteq stored
  BY DEF OlderThan
<1>2. IsFiniteSet(stored)
  BY DEF TypeInv
<1>3. /\ IsFiniteSet(OlderThan(Mine, c)) /\ IsFiniteSet(OlderThan(Messages \ Mine, c))
      /\ IsFiniteSet(OlderThan(Messages, c))
  BY <1>1, <1>2, FS_Subset
<1>4. /\ OlderThan(Mine, c) \cap OlderThan(Messages \ Mine, c) = {}
      /\ OlderThan(Mine, c) \cup OlderThan(Messages \ Mine, c) = OlderThan(Messages, c)
  BY HistoryAssumption DEF OlderThan
<1>5. \A m \in OlderThan(Messages, c) : at[m] \in Int
  BY DEF OlderThan, TypeInv
<1> QED
  BY <1>3, <1>4, <1>5

\* The union of the two limited branches, limited again, has the results of one
\* query over the conversation, and no others.
LEMMA PagesAreNewest ==
    ASSUME TypeInv, NEW c
    PROVE  Pages(c) = Newest(OlderThan(Messages, c), Limit)
<1> DEFINE A == OlderThan(Mine, c)
           B == OlderThan(Messages \ Mine, c)
<1>0. Limit \in Nat /\ BranchLimit = Limit
  BY HistoryAssumption DEF BranchLimit
<1>1. /\ IsFiniteSet(A) /\ IsFiniteSet(B) /\ A \cap B = {}
      /\ A \cup B = OlderThan(Messages, c) /\ \A m \in A \cup B : at[m] \in Int
  BY OlderFacts
<1>2. \A T : T \in Pages(c) <=> \E X, Y : /\ X \in Newest(A, Limit) /\ Y \in Newest(B, Limit)
                                          /\ T \in Newest(X \cup Y, Limit)
  <2> DEFINE Second(X) == UNION {Newest(X \cup Y, Limit) : Y \in Newest(B, Limit)}
  <2>1. ASSUME NEW X, NEW T
        PROVE  T \in Second(X) <=> \E Y \in Newest(B, Limit) : T \in Newest(X \cup Y, Limit)
    OBVIOUS
  <2>2. Pages(c) = UNION {Second(X) : X \in Newest(A, Limit)}
    BY DEF Pages, BranchLimit
  <2> HIDE DEF A, B, Second
  <2>3. \A T : T \in Pages(c) <=> \E X \in Newest(A, Limit) : T \in Second(X)
    BY <2>2
  <2> QED
    BY <2>1, <2>3, Zenon
<1> HIDE DEF A, B
<1>3. ASSUME NEW X, NEW Y, NEW T, X \in Newest(A, Limit), Y \in Newest(B, Limit),
             T \in Newest(X \cup Y, Limit)
      PROVE  T \in Newest(A \cup B, Limit)
  <2>1. /\ Top(at, X, A) /\ Cardinality(X) = Least2(Cardinality(A), Limit)
        /\ Top(at, Y, B) /\ Cardinality(Y) = Least2(Cardinality(B), Limit)
        /\ Top(at, T, X \cup Y) /\ Cardinality(T) = Least2(Cardinality(X \cup Y), Limit)
    BY <1>0, <1>3, NewestIsTop
  <2>2. Least2(Cardinality(X \cup Y), Limit) = Least2(Cardinality(A \cup B), Limit)
    BY <1>0, <1>1, <2>1, MergedSize
  <2>3. Top(at, T, A \cup B)
    BY <1>0, <1>1, <2>1, MergedIsTop
  <2> QED
    BY <1>0, <2>1, <2>2, <2>3, NewestIsTop
<1>4. ASSUME NEW T, T \in Newest(A \cup B, Limit)
      PROVE  \E X, Y : /\ X \in Newest(A, Limit) /\ Y \in Newest(B, Limit)
                       /\ T \in Newest(X \cup Y, Limit)
  <2>1. Top(at, T, A \cup B) /\ Cardinality(T) = Least2(Cardinality(A \cup B), Limit)
    BY <1>0, <1>4, NewestIsTop
  <2>2. IsFiniteSet(A \cup B) /\ T \subseteq A \cup B
    BY <1>1, <2>1, FS_Union DEF Top
  <2>3. IsFiniteSet(T) /\ Cardinality(T) \in Nat /\ Cardinality(T) <= Limit
    <3>1. Cardinality(A \cup B) \in Nat
      BY <2>2, FS_CardinalityType
    <3>2. IsFiniteSet(T)
      BY <2>2, FS_Subset
    <3> QED
      BY <1>0, <2>1, <3>1, <3>2, FS_CardinalityType DEF Least2
  \* The part of T in one branch extends to a result of that branch.
  <2>4. ASSUME NEW C, IsFiniteSet(C), C \subseteq A \cup B
        PROVE  \E X : /\ T \cap C \subseteq X /\ Top(at, X, C)
                      /\ Cardinality(X) = Least2(Cardinality(C), Limit)
    <3>1. /\ IsFiniteSet(T \cap C)
          /\ Cardinality(T \cap C) <= Cardinality(T) /\ Cardinality(T \cap C) <= Cardinality(C)
          /\ Cardinality(T \cap C) \in Nat /\ Cardinality(C) \in Nat
      BY <2>3, <2>4, FS_Intersection, FS_CardinalityType
    <3>2. Top(at, T \cap C, C)
      BY <2>1, <2>4 DEF Top
    <3>3. /\ Least2(Cardinality(C), Limit) \in Nat
          /\ Cardinality(T \cap C) <= Least2(Cardinality(C), Limit)
          /\ Least2(Cardinality(C), Limit) <= Cardinality(C)
      BY <1>0, <2>3, <3>1 DEF Least2
    <3>4. \A m \in C : at[m] \in Int
      BY <1>1, <2>4
    <3> QED
      BY <2>4, <3>2, <3>3, <3>4, TopExtends
  <2>5. PICK X : /\ T \cap A \subseteq X /\ Top(at, X, A)
                 /\ Cardinality(X) = Least2(Cardinality(A), Limit)
    BY <1>1, <2>4
  <2>6. PICK Y : /\ T \cap B \subseteq Y /\ Top(at, Y, B)
                 /\ Cardinality(Y) = Least2(Cardinality(B), Limit)
    BY <1>1, <2>4
  <2>7. T \subseteq X \cup Y
    BY <2>2, <2>5, <2>6
  <2>8. Least2(Cardinality(X \cup Y), Limit) = Least2(Cardinality(A \cup B), Limit)
    BY <1>0, <1>1, <2>5, <2>6, MergedSize
  <2>8a. Top(at, T, X \cup Y)
    BY <2>1, <2>5, <2>6, <2>7 DEF Top
  <2>9. X \in Newest(A, Limit) /\ Y \in Newest(B, Limit) /\ T \in Newest(X \cup Y, Limit)
    BY <1>0, <2>1, <2>5, <2>6, <2>8, <2>8a, NewestIsTop
  <2> QED
    BY <2>9
<1>5. \A T : T \in Pages(c) <=> T \in Newest(A \cup B, Limit)
  BY <1>2, <1>3, <1>4
<1> QED
  BY <1>1, <1>5

\* What a reader may rely on in a page.
LEMMA PageFacts ==
    ASSUME TypeInv, NEW T \in Pages(before)
    PROVE  /\ T \subseteq stored /\ IsFiniteSet(T)
           /\ \A m \in T : at[m] < before
           /\ \A m \in stored \ T, x \in T : at[m] < before => at[m] <= at[x]
           /\ Cardinality(T) < Limit => \A m \in stored : at[m] < before => m \in T
<1> DEFINE S == OlderThan(Messages, before)
<1>0. Limit \in Nat
  BY HistoryAssumption
<1>1. Top(at, T, S) /\ Cardinality(T) = Least2(Cardinality(S), Limit)
  BY <1>0, PagesAreNewest, NewestIsTop
<1>2. IsFiniteSet(S) /\ Cardinality(S) \in Nat
  BY OlderFacts, FS_CardinalityType
<1>3. T \subseteq S
  BY <1>1 DEF Top
<1>4. IsFiniteSet(T) /\ (Cardinality(S) = Cardinality(T) => S = T)
  BY <1>2, <1>3, FS_Subset
<1>5. \A m : m \in S <=> m \in stored /\ at[m] < before
  BY DEF OlderThan, TypeInv
<1>6. \A m \in stored : at[m] \in Int
  BY DEF TypeInv
<1>7. Cardinality(T) < Limit => T = S
  BY <1>0, <1>1, <1>2, <1>4 DEF Least2
<1> HIDE DEF S
<1>8. \A m \in stored \ T, x \in T : at[m] < before => at[m] <= at[x]
  BY <1>1, <1>3, <1>5, <1>6 DEF Top
<1> QED
  BY <1>3, <1>4, <1>5, <1>7, <1>8

-----------------------------------------------------------------------------
(* The walk *)

\* What has been read lies at or after the cursor, what is owed lies before it or
\* at the end of a page, and pages end at the time of a message that was read.
WalkInv ==
    /\ stage = "idle" => got = {} /\ cuts = {}
    /\ stage = "walking" => /\ \A m \in got : at[m] >= before
                            /\ \A m \in owed \ got : at[m] < before \/ at[m] \in cuts
    /\ stage = "done" => \A m \in owed \ got : at[m] \in cuts
    /\ \A t \in cuts : \E m \in got : at[m] = t

\* The oldest time of a full page.
LEMMA FullPage ==
    ASSUME TypeInv, NEW T \in Pages(before), ~(Cardinality(T) < Limit)
    PROVE  /\ Min({at[m] : m \in T}) \in 1 .. MaxTime
           /\ Min({at[m] : m \in T}) < before
           /\ \E m \in T : Min({at[n] : n \in T}) = at[m]
           /\ \A m \in T : Min({at[n] : n \in T}) <= at[m]
<1>1. T \subseteq stored /\ IsFiniteSet(T) /\ \A m \in T : at[m] < before
  BY PageFacts
<1>2. T # {}
  <2>1. T = {} => Cardinality(T) = 0
    BY FS_EmptySet
  <2> QED
    BY <2>1, HistoryAssumption
<1>3. \A m \in T : at[m] \in 1 .. MaxTime
  BY <1>1, HistoryAssumption DEF TypeInv
<1>4. PICK m \in T : \A n \in T : at[m] <= at[n]
  BY <1>1, <1>2, <1>3, FiniteLeast
<1>5. Min({at[n] : n \in T}) = at[m]
  <2> DEFINE S == {at[n] : n \in T}
  <2>1. at[m] \in S /\ \A y \in S : at[m] <= y
    BY <1>4
  <2>2. S \subseteq Int
    BY <1>3
  <2>3. PICK x \in S : x = Min(S) /\ \A y \in S : x <= y
    BY <2>1 DEF Min
  <2>4. x <= at[m] /\ at[m] <= x /\ x \in Int /\ at[m] \in Int
    BY <2>1, <2>2, <2>3
  <2> QED
    BY <2>3, <2>4
<1> QED
  BY <1>1, <1>3, <1>4, <1>5

\* The writers leave the walk alone: the time of a stored message never changes,
\* and neither does what has been read or is owed.
LEMMA WriterFrame ==
    ASSUME TypeInv, WalkInv, UNCHANGED reader, \A m \in stored : at'[m] = at[m]
    PROVE  WalkInv'
<1>1. \A m \in got \cup owed : at'[m] = at[m]
  BY DEF TypeInv
<1> QED
  BY <1>1 DEF WalkInv, reader

\* A request for a page keeps both invariants.
LEMMA ReadPageInv ==
    ASSUME TypeInv, WalkInv, ReadPage
    PROVE  TypeInv' /\ WalkInv'
<1> USE HistoryAssumption
<1>1. /\ stage = "walking" /\ page' \in Pages(before) /\ got' = got \cup page'
      /\ UNCHANGED <<clock, at, stored, owed>>
  BY DEF ReadPage, writer
<1>2. PICK T \in Pages(before) : T = page'
  BY <1>1
<1>3. /\ T \subseteq stored /\ IsFiniteSet(T)
      /\ \A m \in T : at[m] < before
      /\ \A m \in stored \ T, x \in T : at[m] < before => at[m] <= at[x]
      /\ Cardinality(T) < Limit => \A m \in stored : at[m] < before => m \in T
  BY PageFacts
<1>4. CASE Cardinality(T) < Limit
  <2>1. stage' = "done" /\ UNCHANGED <<before, cuts>>
    BY <1>2, <1>4 DEF ReadPage
  <2>2. TypeInv'
    BY <1>1, <1>2, <1>3, <2>1 DEF TypeInv
  <2>3. \A m \in owed' \ got' : at'[m] \in cuts'
    BY <1>1, <1>2, <1>3, <1>4, <2>1 DEF TypeInv, WalkInv
  <2>4. \A t \in cuts' : \E m \in got' : at'[m] = t
    BY <1>1, <2>1 DEF WalkInv
  <2> QED
    BY <2>1, <2>2, <2>3, <2>4 DEF WalkInv
<1>5. CASE ~(Cardinality(T) < Limit)
  <2>1. before' = Min({at[m] : m \in T}) /\ cuts' = cuts \cup {before'} /\ stage' = "walking"
    BY <1>1, <1>2, <1>5 DEF ReadPage
  <2>2. /\ before' \in 1 .. MaxTime /\ before' < before
        /\ \E m \in T : before' = at[m]
        /\ \A m \in T : before' <= at[m]
    BY <1>5, <2>1, FullPage
  <2>3. TypeInv'
    BY <1>1, <1>2, <1>3, <2>1, <2>2 DEF TypeInv
  <2>4. \A m \in stored : at[m] \in Int
    BY DEF TypeInv
  <2>5. before \in Int /\ before' \in Int
    BY <2>2 DEF TypeInv
  <2>6. ASSUME NEW m \in got' PROVE at'[m] >= before'
    <3>1. CASE m \in T
      BY <1>1, <1>3, <2>2, <2>4, <2>5, <3>1
    <3>2. CASE m \in got
      <4>1. m \in stored /\ at[m] >= before
        BY <1>1, <3>2 DEF TypeInv, WalkInv
      <4> QED
        BY <1>1, <2>2, <2>4, <2>5, <4>1
    <3> QED
      BY <1>1, <1>2, <2>6, <3>1, <3>2
  <2>7. ASSUME NEW m \in owed' \ got' PROVE at'[m] < before' \/ at'[m] \in cuts'
    <3>1. m \in owed \ got /\ m \in stored \ T
      BY <1>1, <1>2, <2>7 DEF TypeInv
    <3>2. at[m] < before \/ at[m] \in cuts
      BY <1>1, <3>1 DEF WalkInv
    <3>3. at[m] < before => at[m] <= before'
      BY <1>3, <2>2, <3>1
    <3> QED
      BY <1>1, <2>1, <2>4, <2>5, <3>1, <3>2, <3>3
  <2>8. ASSUME NEW t \in cuts' PROVE \E m \in got' : at'[m] = t
    BY <1>1, <1>2, <2>1, <2>2 DEF WalkInv
  <2> QED
    BY <2>1, <2>3, <2>6, <2>7, <2>8 DEF WalkInv
<1> QED
  BY <1>4, <1>5

\* Every step keeps both invariants.
LEMMA HistoryStep == TypeInv /\ WalkInv /\ [Next]_vars => TypeInv' /\ WalkInv'
<1> SUFFICES ASSUME TypeInv, WalkInv, [Next]_vars PROVE TypeInv' /\ WalkInv'
  OBVIOUS
<1> USE HistoryAssumption
<1>1. ASSUME NEW m \in Messages, Create(m) PROVE TypeInv' /\ WalkInv'
  <2>1. UNCHANGED <<clock, stored, reader>> /\ at' = [at EXCEPT ![m] = clock] /\ m \notin stored
    BY <1>1 DEF Create, TypeInv
  <2>2. \A x \in stored : at'[x] = at[x]
    BY <2>1 DEF TypeInv
  <2>3. TypeInv'
    BY <2>1, <2>2 DEF TypeInv, reader
  <2> QED
    BY <2>1, <2>2, <2>3, WriterFrame
<1>2. ASSUME NEW m \in Messages, Store(m) PROVE TypeInv' /\ WalkInv'
  <2>1. UNCHANGED <<clock, at, reader>> /\ stored' = stored \cup {m} /\ at[m] # 0
    BY <1>2 DEF Store
  <2>2. IsFiniteSet(stored')
    BY <2>1, FS_AddElement DEF TypeInv
  <2>3. TypeInv'
    BY <2>1, <2>2 DEF TypeInv, reader
  <2> QED
    BY <2>1, <2>3, WriterFrame
<1>3. CASE Tick
  <2>1. UNCHANGED <<at, stored, reader>> /\ clock' \in 1 .. MaxTime
    BY <1>3 DEF Tick, TypeInv
  <2>2. TypeInv'
    BY <2>1 DEF TypeInv, reader
  <2> QED
    BY <2>1, <2>2, WriterFrame
<1>4. CASE StartWalk
  <2>1. TypeInv'
    BY <1>4 DEF StartWalk, TypeInv, writer
  <2>2. WalkInv'
    BY <1>4 DEF StartWalk, TypeInv, WalkInv, writer
  <2> QED
    BY <2>1, <2>2
<1>5. CASE ReadPage
  BY <1>5, ReadPageInv
<1>6. CASE ReadRefused
  BY <1>6 DEF ReadRefused, TypeInv, WalkInv, writer
<1>7. CASE UNCHANGED vars
  BY <1>7 DEF vars, writer, reader, TypeInv, WalkInv
<1> QED
  BY <1>1, <1>2, <1>3, <1>4, <1>5, <1>6, <1>7 DEF Next

\* Both hold in every state.
LEMMA HistoryInvariant == Spec => [](TypeInv /\ WalkInv)
<1>1. Init => TypeInv /\ WalkInv
  BY HistoryAssumption, FS_EmptySet DEF Init, TypeInv, WalkInv
<1> QED
  BY <1>1, HistoryStep, PTL DEF Spec

\* DM_CONVERSATION_HISTORY returns the newest messages of the conversation before
\* the cursor: limiting each direction first loses nothing and adds nothing.
THEOREM NewestSafe == Spec => []PageIsNewest
<1>1. TypeInv => PageIsNewest
  BY PagesAreNewest DEF PageIsNewest
<1> QED
  BY <1>1, HistoryInvariant, PTL

\* A finished walk misses at most messages with the time at which a page ended,
\* whatever is stored while it goes on.
THEOREM TiesSafe == Spec => []OnlyTiesAreMissed
<1>1. WalkInv => OnlyTiesAreMissed
  BY DEF WalkInv, OnlyTiesAreMissed
<1> QED
  BY <1>1, HistoryInvariant, PTL

\* When no two stored messages have the same time, it misses none.
THEOREM CompleteSafe == Spec => []CompleteWithoutTies
<1>1. TypeInv /\ WalkInv => CompleteWithoutTies
  <2> SUFFICES ASSUME TypeInv, WalkInv, stage = "done",
                      \A m, n \in stored : at[m] = at[n] => m = n,
                      NEW m \in owed, m \notin got
               PROVE  FALSE
    BY DEF CompleteWithoutTies, WalkIsComplete
  <2>1. PICK n \in got : at[n] = at[m]
    BY DEF WalkInv
  <2>2. n \in stored /\ m \in stored
    BY DEF TypeInv
  <2> QED
    BY <2>1, <2>2
<1> QED
  BY <1>1, HistoryInvariant, PTL

\* No message is returned twice: what was read lies at or after the cursor.
THEOREM NoRepeatsSafe == Spec => NoRepeats
<1>1. TypeInv /\ WalkInv => [ReadPage => page' \cap got = {}]_vars
  <2> SUFFICES ASSUME TypeInv, WalkInv, ReadPage PROVE page' \cap got = {}
    OBVIOUS
  <2>1. PICK T \in Pages(before) : T = page'
    BY DEF ReadPage
  <2>2. \A m \in T : at[m] < before
    BY PageFacts
  <2>3. \A m \in got : at[m] >= before /\ at[m] \in Int /\ before \in Int
    BY DEF ReadPage, WalkInv, TypeInv
  <2> QED
    BY <2>1, <2>2, <2>3
<1> QED
  BY <1>1, HistoryInvariant, PTL DEF Spec, NoRepeats

\* Every full page moves the cursor back: with the fairness of the requests, a
\* walk takes at most as many pages as there are times before it.
THEOREM CursorProgress == Spec => CursorMovesBack
<1>1. TypeInv /\ [Next]_vars => [ReadPage => before' < before \/ stage' = "done"]_vars
  <2> SUFFICES ASSUME TypeInv, ReadPage PROVE before' < before \/ stage' = "done"
    OBVIOUS
  <2>1. PICK T \in Pages(before) : T = page'
    BY DEF ReadPage
  <2>2. CASE Cardinality(T) < Limit
    BY <2>1, <2>2 DEF ReadPage
  <2>3. CASE ~(Cardinality(T) < Limit)
    <3>1. before' = Min({at[m] : m \in T})
      BY <2>1, <2>3 DEF ReadPage
    <3> QED
      BY <2>3, <3>1, FullPage
  <2> QED
    BY <2>2, <2>3
<1> QED
  BY <1>1, HistoryInvariant, PTL DEF Spec, CursorMovesBack
=============================================================================
