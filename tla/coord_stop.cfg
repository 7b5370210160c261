SPECIFICATION FairCoordSpec
CONSTANTS
  f1 = f1
  f2 = f2
  None = None
  Files <- MCFiles
  Targets <- MCTargets
  SettingsChoices <- ShortIdle
  Inputs = {"leaf", "focus", "activity", "edit", "blur", "idle", "heartbeat", "pause", "stale-resume", "settings", "recovery"}
  Failures = {"append", "identity", "crash"}
  MaxQueue = 2
  UndoWindow = 1
  MaxRecent = 50
  FlushFloor = 1
  FlushCeiling = 2
  HeartbeatGap = 1
  Horizon = 2
  MaxSegments = 1
  MaxDecisions = 1
PROPERTY StopDrains
CHECK_DEADLOCK FALSE

