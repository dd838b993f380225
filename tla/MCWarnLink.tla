----------------------------- MODULE MCWarnLink -----------------------------
(* A SIM and one other aircraft; the times keep the order of 3, 5, 10, 15 s. *)
EXTENDS WarnLink
=============================================================================
