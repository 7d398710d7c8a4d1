----------------------------- MODULE MCRotation -----------------------------
(* Small instances of Rotation.                                            *)
EXTENDS Rotation, TLC

CONSTANTS u1, p1, p2, p3, x1, x2, x3

OneUser == [p \in Pairs |-> u1]

\* Transactions are interchangeable, and so are the pairs not issued yet.
Symmetric == Permutations(Txs) \cup Permutations(Pairs \ Established)
=============================================================================
