SPECIFICATION Spec
CONSTANTS
  None = None
  Minute = 2
  Day = 12
  ProbeLimit = 14
  Silence = 3
  Idle = 5
  Zones <- SpringZones
  Starts <- MCStarts
  Steps <- NoSteps
  MaxEdits = 3
  Horizon = 11
INVARIANT SegmentsKeepTime
CHECK_DEADLOCK FALSE
