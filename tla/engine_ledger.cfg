SPECIFICATION FairSpec
CONSTANTS
  f1 = f1
  f2 = f2
  None = None
  Files <- MCFiles
  Targets <- MCTargets
  SettingsChoices <- TwoSettings
  UndoWindow = 1
  MaxRecent = 50
  FlushFloor = 1
  FlushCeiling = 2
  HeartbeatGap = 1
  Horizon = 3
  MaxSegments = 2
  MaxDecisions = 1
PROPERTIES ImplementsLedger SilenceEnds
CHECK_DEADLOCK FALSE
