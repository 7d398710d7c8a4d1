------------------------------ MODULE MCSocial ------------------------------
(* Small instances of Social.                                              *)
EXTENDS Social, TLC

\* Accounts are interchangeable, and so are calls.
Symmetry == Permutations(Users) \cup Permutations(Requests)
=============================================================================
