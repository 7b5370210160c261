SPECIFICATION CoordSpec
CONSTANTS
  f1 = f1
  f2 = f2
  None = None
  Files <- MCFiles
  Targets <- MCTargets
  SettingsChoices <- ShortIdle
  Inputs = {"leaf", "edit", "idle", "recovery", "heartbeat"}
  Failures = {"crash", "checkpoint", "identity"}
  MaxQueue = 2
  UndoWindow = 1
  MaxRecent = 50
  FlushFloor = 1
  FlushCeiling = 2
  HeartbeatGap = 1
  Horizon = 3
  MaxSegments = 2
  MaxDecisions = 2
INVARIANTS CheckpointCurrent StoredNoOverlap
PROPERTIES EvidenceBeforeCheckpoint DecisionBeforeCheckpoint
CHECK_DEADLOCK FALSE
VIEW Durability
