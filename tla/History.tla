------------------------------ MODULE History -------------------------------
(***************************************************************************)
(* Message histories: get_dm_history and get_group_history of              *)
(* MessagingService (src/services/messaging.py) and their queries in       *)
(* src/database/sql.py.  A client walks a conversation from the newest     *)
(* message to the oldest: it asks for Limit messages that are older than   *)
(* the oldest one it has, until a page comes back short.                   *)
(*                                                                         *)
(* created_at is taken by the worker when it builds the message, before    *)
(* the INSERT commits.  Messages may have equal times, and a message can   *)
(* become visible after one that is younger.  The clocks of the workers    *)
(* are taken to agree.                                                     *)
(***************************************************************************)
EXTENDS Integers, FiniteSets, FiniteSetsExt

CONSTANTS
    Messages,   \* the messages of one conversation
    Mine,       \* those that the reader sent
    Limit,      \* the limit parameter of the request
    MaxTime     \* bound on the clock

ASSUME HistoryAssumption ==
    /\ Mine \subseteq Messages
    /\ Limit \in Nat \ {0}
    /\ MaxTime \in Nat \ {0}

VARIABLES
    clock,      \* the current time
    at,         \* created_at of each message, 0 while there is none
    stored,     \* the messages whose INSERT has committed
    stage,      \* of the walk: "idle", "walking", "done" or "refused"
    before,     \* the before parameter of the next page
    page,       \* the last page
    got,        \* the messages of all pages
    cuts,       \* history: the times at which a page has ended
    owed        \* history: the messages stored when the walk began

writer == <<clock, at, stored>>
reader == <<stage, before, page, got, cuts, owed>>
vars   == <<writer, reader>>

Init ==
    /\ clock = 1
    /\ at = [m \in Messages |-> 0]
    /\ stored = {}
    /\ stage = "idle"
    /\ before = 0
    /\ page = {}
    /\ got = {}
    /\ cuts = {}
    /\ owed = {}

----------------------------------------------------------------------------
(* The queries.  ORDER BY created_at DESC leaves the order of equal times  *)
(* open, so that a query with a LIMIT has a set of possible results.       *)

\* ORDER BY created_at DESC LIMIT n over S, as in GROUP_MESSAGES_TIMELINE.
Newest(S, n) ==
    LET size == IF Cardinality(S) < n THEN Cardinality(S) ELSE n
    IN  {T \in kSubset(size, S) : \A x \in T, y \in S \ T : at[x] >= at[y]}

\* Fault: the message at the cursor itself is included.
UntilCursor(S, c) == {m \in S \cap stored : at[m] <= c}

\* WHERE created_at < before.
OlderThan(S, c) == {m \in S \cap stored : at[m] < c}

\* Fault: the two branches share the limit between them.
HalfLimit == (Limit + 1) \div 2

BranchLimit == Limit

\* DM_CONVERSATION_HISTORY: one limited branch per direction, and the limit
\* again over their union.
Pages(c) ==
    UNION {UNION {Newest(X \cup Y, Limit) : Y \in Newest(OlderThan(Messages \ Mine, c), BranchLimit)} :
               X \in Newest(OlderThan(Mine, c), BranchLimit)}

----------------------------------------------------------------------------
(* The writers.                                                            *)

\* A worker builds the message, with created_at = current_ts().
Create(m) ==
    /\ at[m] = 0
    /\ at' = [at EXCEPT ![m] = clock]
    /\ UNCHANGED <<clock, stored, reader>>

\* Its INSERT commits.
Store(m) ==
    /\ at[m] # 0
    /\ m \notin stored
    /\ stored' = stored \cup {m}
    /\ UNCHANGED <<clock, at, reader>>

Tick ==
    /\ clock < MaxTime
    /\ clock' = clock + 1
    /\ UNCHANGED <<at, stored, reader>>

----------------------------------------------------------------------------
(* The reader.                                                             *)

\* The first request has no before parameter: cutoff is datetime.now.  A commit
\* takes longer than a tick of the clock, so that no stored message has the
\* time of now.
StartWalk ==
    /\ stage = "idle"
    /\ \A m \in stored : at[m] < clock
    /\ stage' = "walking"
    /\ before' = clock
    /\ owed' = stored
    /\ UNCHANGED <<writer, page, got, cuts>>

\* One request.  The client goes on from the oldest created_at of the page.
ReadPage ==
    /\ stage = "walking"
    /\ page' \in Pages(before)
    /\ got' = got \cup page'
    /\ IF Cardinality(page') < Limit
       THEN stage' = "done" /\ UNCHANGED <<before, cuts>>
       ELSE /\ before' = Min({at[m] : m \in page'})
            /\ cuts' = cuts \cup {before'}
            /\ UNCHANGED stage
    /\ UNCHANGED <<writer, owed>>

\* The friendship or membership has ended: the request is refused.
ReadRefused ==
    /\ stage = "walking"
    /\ stage' = "refused"
    /\ UNCHANGED <<writer, before, page, got, cuts, owed>>

----------------------------------------------------------------------------

Next ==
    \/ \E m \in Messages : Create(m) \/ Store(m)
    \/ Tick
    \/ StartWalk
    \/ ReadPage
    \/ ReadRefused

\* The client keeps asking and the server answers.
Fairness == WF_vars(ReadPage)

Spec == Init /\ [][Next]_vars /\ Fairness

----------------------------------------------------------------------------
(* Properties.                                                             *)

\* The two limited branches of DM_CONVERSATION_HISTORY lose nothing: its
\* results are the newest messages of the whole conversation before c.
PageIsNewest ==
    \A c \in 1 .. MaxTime : Pages(c) = Newest(OlderThan(Messages, c), Limit)

\* No page holds a message that an earlier page of the walk had, also when
\* messages are stored while the walk goes on.
NoRepeats == [][ReadPage => page' \cap got = {}]_vars

\* A finished walk has returned every message that was stored when it began,
\* except those that have the time at which a page ended.
OnlyTiesAreMissed == stage = "done" => \A m \in owed \ got : at[m] \in cuts

\* Every full page moves the cursor back, so that a walk makes progress however
\* many messages are stored meanwhile.
CursorMovesBack == [][ReadPage => before' < before \/ stage' = "done"]_vars

\* A walk comes to an end although messages keep arriving.
WalkEnds == stage = "walking" ~> stage \in {"done", "refused"}

\* What the pagination tests say: the remaining records are fetched with the
\* cursor, so that a finished walk has every message it began with.
WalkIsComplete == stage = "done" => owed \subseteq got

\* It is true in the situation of those tests, which never store two messages of
\* one time.
CompleteWithoutTies ==
    (\A m, n \in stored : at[m] = at[n] => m = n) => WalkIsComplete

=============================================================================
