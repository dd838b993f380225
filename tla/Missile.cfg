CONSTANTS
  TtlMs = 3
  StaleMs = 2
  Commands = {"launch", "cancel", "inject"}
SPECIFICATION FairSpec
INVARIANTS
  WorkerScheduled
PROPERTIES
  FlightEnds
  PairFades
