---------------------------- MODULE MCTokenCache ----------------------------
(* A small instance of TokenCache.                                         *)
EXTENDS TokenCache, TLC

CONSTANTS w1, u1, t1, t2

OneUser == (t1 :> u1) @@ (t2 :> u1)

Request(w, t, allow, n) ==
    [worker |-> w, token |-> t, allow_deactivated |-> allow, id |-> n]

\* An ordinary request for each of two tokens, and one of the reactivation
\* endpoint, on one worker whose cache holds one entry.
RequestsMixed ==
    {Request(w1, t1, FALSE, 1), Request(w1, t2, FALSE, 2), Request(w1, t1, TRUE, 3)}
=============================================================================
