--------------------------- MODULE SessionFamily ---------------------------
(***************************************************************************)
(* What refresh-token rotation promises, without transactions: every login *)
(* starts a family with one live refresh token, which is exchanged for a   *)
(* token never used before, or revoked for good.                           *)
(***************************************************************************)
CONSTANTS Pairs, NoPair, Established

VARIABLES live,     \* the live refresh token of each family
          issued    \* the tokens issued so far

Init ==
    /\ live = [f \in Pairs |-> IF f \in Established THEN f ELSE NoPair]
    /\ issued = Established

\* A family is named after the pair it starts with.
Start(f) ==
    /\ f \notin issued
    /\ issued' = issued \cup {f}
    /\ live' = [live EXCEPT ![f] = f]

Exchange(f, p) ==
    /\ live[f] # NoPair
    /\ p \notin issued
    /\ issued' = issued \cup {p}
    /\ live' = [live EXCEPT ![f] = p]

Revoke(fs) ==
    /\ live' = [f \in Pairs |-> IF f \in fs THEN NoPair ELSE live[f]]
    /\ UNCHANGED issued

Next ==
    \/ \E f \in Pairs : Start(f)
    \/ \E f, p \in Pairs : Exchange(f, p)
    \/ \E fs \in SUBSET Pairs : Revoke(fs)

Spec == Init /\ [][Next]_<<live, issued>>
=============================================================================
