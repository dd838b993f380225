CONSTANTS
  Peer = {p1, p2}
  SCAN_MAX_RESULTS = 1
  Fails = {"scan", "connect", "discover"}
  Shell = {"scan", "disconnect", "send"}
SPECIFICATION FairSpec
INVARIANTS
  FlagsFollowLink
  HandlesCurrent
PROPERTIES
  LinkReturns
  WarnReady
