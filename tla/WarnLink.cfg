CONSTANTS
  Icao = {1, 2}
  Sim = 1
  Ghost = 9
  Missile = 3
  Diversion = {"LEFT"}
  MAX_TRACKED = 1
  RESEND_MS = 1
  CRASH_LOCK_MS = 5
  Verdict = {"ADVISORY", "WARNING", "CRASH"}
  Operator = {}
  AlertTime = 3
  TextTime = 1
  FreezeTime = 4
  Lag = {0}
  Altitude = {0, 100}
SPECIFICATION LinkSpec
INVARIANT
  AlertUnbroken
PROPERTIES
  FrozenUnalerted
  AlertEnds
  DangerHeard
