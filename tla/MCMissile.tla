------------------------------ MODULE MCMissile -----------------------------
(* Small instances of the test aircraft. *)
EXTENDS Missile
=============================================================================
