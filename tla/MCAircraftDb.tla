---------------------------- MODULE MCAircraftDb ----------------------------
(***************************************************************************)
(* Model checking AircraftDb: two callers and the reaper, two slots, three *)
(* aircraft, and the database as an implementation of AircraftStore.       *)
(***************************************************************************)
EXTENDS AircraftDb, TLC

Symmetry == Permutations(Icao) \cup Permutations(Caller)
=============================================================================
