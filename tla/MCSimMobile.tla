---------------------------- MODULE MCSimMobile -----------------------------
(* Small instances of the sim mobile. *)
EXTENDS SimMobile
=============================================================================
