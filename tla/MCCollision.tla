---------------------------- MODULE MCCollision -----------------------------
(* Small instances of the collision detector. *)
EXTENDS Collision
=============================================================================
