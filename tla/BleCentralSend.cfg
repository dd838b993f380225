CONSTANTS
  Peer = {p1}
  SCAN_MAX_RESULTS = 1
  Fails = {}
  Shell = {"send"}
SPECIFICATION Spec
INVARIANTS
  WriteLive
