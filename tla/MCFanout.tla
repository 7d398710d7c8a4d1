------------------------------ MODULE MCFanout ------------------------------
(* A small cluster for Fanout: u1 creates g1, u2 is the member.            *)
EXTENDS Fanout, TLC

CONSTANTS w1, u1, u2, g1, m1, s1

HomeOne    == (s1 :> w1)
OwnerOne   == (s1 :> u2)
CreatorOne == (g1 :> u1)
TargetOne  == (m1 :> g1)
SentByCreator == (m1 :> u1)
SentByMember  == (m1 :> u2)
=============================================================================
