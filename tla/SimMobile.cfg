CONSTANTS
  AlertTime = 2
  TextTime = 1
  FreezeTime = 3
  Lag = {0, 1}
  Altitude = {0, 100}
SPECIFICATION FairSpec
INVARIANTS
  FreezeOutlasted
PROPERTIES
  WarningWillEnd
  PanelWillClear
  CrashEnds
  AlertsEnd
