CONSTANTS
  Icao = {1, 2, 3}
  Sim = 1
  Ghost = 9
  Missile = 3
  Diversion = {"LEFT"}
  MAX_TRACKED = 2
  RESEND_MS = 1
  CRASH_LOCK_MS = 2
  Verdict = {"ADVISORY", "WARNING", "CRASH"}
  Operator = {}
SPECIFICATION Spec
PROPERTIES
  CrashLockHolds
