CONSTANTS
  Peer = {p1}
  SCAN_MAX_RESULTS = 1
  Fails = {"scan"}
  Shell = {}
SPECIFICATION FairSpec
PROPERTIES
  WatchdogRecovers
CHECK_DEADLOCK FALSE
