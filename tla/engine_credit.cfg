SPECIFICATION Spec
CONSTANTS
  f1 = f1
  f2 = f2
  None = None
  Files <- MCFiles
  Targets <- MCTargets
  SettingsChoices <- TwoSettings
  UndoWindow = 1
  MaxRecent = 50
  FlushFloor = 1
  FlushCeiling = 2
  HeartbeatGap = 1
  Horizon = 5
  MaxSegments = 2
  MaxDecisions = 2
SYMMETRY Symmetry
VIEW Attribution
INVARIANTS NoOverlap RefocusContinuesVisit GapsOutsideCredit AttributedWithinElapsed
CHECK_DEADLOCK FALSE
