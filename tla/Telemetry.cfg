CONSTANTS
  BRIDGE_QUEUE_DEPTH = 1
  Verdict = {"ok", "rej_icao"}
  MaxFrames = 2
  Icao = {"sim", "adsb", "other"}
  Unprintable = {"adsb"}
  AIRCRAFT_DB_MAX_ENTRIES = 2
  Sim = "sim"
SPECIFICATION TelemetrySpec
INVARIANTS
  FramesAccounted
  FedInOrder
  LinesWhole
PROPERTIES
  PictureForward
  ReportReachesHost
