SPECIFICATION Spec
CONSTANTS
  None = None
  Minute = 2
  Day = 12
  ProbeLimit = 14
  Silence = 3
  Idle = 5
  Zones <- KeptZones
  Starts <- MCStarts
  Steps <- MCSteps
  MaxEdits = 3
  Horizon = 11
INVARIANTS SegmentsKeepTime SegmentsFollowCalendar EditingIsCoverage LiveIsWhatCloseStores
CHECK_DEADLOCK FALSE
