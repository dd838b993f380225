CONSTANTS
  Icao = {1, 2, 3}
  Sim = 1
  Ghost = 9
  Missile = 3
  Diversion = {"LEFT", "CLIMB"}
  MAX_TRACKED = 2
  RESEND_MS = 0
  CRASH_LOCK_MS = 1
  Verdict = {"WARNING"}
  Operator = {}
SPECIFICATION Spec
INVARIANTS
  DiversionSteady
