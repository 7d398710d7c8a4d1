----------------------------- MODULE MCLifespan -----------------------------
(* Two workers that start together on an empty database.                   *)
EXTENDS Lifespan
=============================================================================
