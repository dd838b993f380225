---------------------------- MODULE MCBleCentral ----------------------------
(* Small instances of the BLE central. *)
EXTENDS BleCentral
=============================================================================
