----------------------------- MODULE MCHistory ------------------------------
(* A conversation of four messages, two in each direction.                 *)
EXTENDS History, TLC

CONSTANTS m1, m2, m3, m4

=============================================================================
