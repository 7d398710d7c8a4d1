------------------------- MODULE MCWebSocketManager -------------------------
(* A small cluster for WebSocketManager.                                   *)
EXTENDS WebSocketManager, TLC

CONSTANTS w1, w2, u1, g1, s1, s2, s3

\* One account with two sockets on worker w1 and one on worker w2.
HomeShared  == (s1 :> w1) @@ (s2 :> w1) @@ (s3 :> w2)
OwnerShared == (s1 :> u1) @@ (s2 :> u1) @@ (s3 :> u1)
=============================================================================
