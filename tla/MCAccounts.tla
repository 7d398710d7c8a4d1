----------------------------- MODULE MCAccounts -----------------------------
(* An account with an outdated hash, and two that may take over its name. *)
EXTENDS Accounts

CONSTANTS u1, u2, u3, n1

OneName == [u \in Users |-> n1]
=============================================================================
