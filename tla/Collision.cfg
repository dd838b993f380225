CONSTANTS
  Icao = {1, 2, 3}
  Sim = 1
  Ghost = 2
  Missile = 3
  Diversion = {"LEFT"}
  MAX_TRACKED = 2
  RESEND_MS = 0
  CRASH_LOCK_MS = 1
  Verdict = {"WARNING", "CRASH"}
  Operator = {"ghost", "crash", "diversion"}
SPECIFICATION Spec
INVARIANTS
  OneTrackPerPair
  HostView
  GhostDriven
