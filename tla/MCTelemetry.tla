---------------------------- MODULE MCTelemetry ----------------------------
(* A small instance of the telemetry path. *)
EXTENDS Telemetry
=============================================================================
