--------------------------- MODULE MCInvalidation ---------------------------
(* Small instances of Invalidation.                                        *)
EXTENDS Invalidation, TLC

CONSTANTS w1, u1, t1

OneToken == t1 :> u1

\* One request for a token, on one worker.
OneLookup == {[worker |-> w1, token |-> t1, allow_deactivated |-> FALSE, id |-> 1]}
=============================================================================
