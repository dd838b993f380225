CONSTANTS
  Icao = {i1, i2, i3}
  Caller = {c1, c2}
  Reaper = reaper
  NoThread = none
  NoIcao = noIcao
  MAX_ENTRIES = 2
  STALE_MS = 1
  REAPER_TICK_MS = 1
  PRED_MIN_UPDATES = 2
  MaxNow = 3
  MaxCalls = 4
SPECIFICATION Spec
SYMMETRY Symmetry
INVARIANTS
  PoolMatchesList
  OneEntryPerAircraft
  NoFreedNode
  StatsBalance
  StaleBound
  PredictionEarned
PROPERTIES
  FreshKept
  ImplementsStore
