SPECIFICATION Spec
CONSTANTS
  r1 = r1
  r2 = r2
  f1 = f1
  f2 = f2
  Records = {r1, r2}
  LastDay = 2
  DayOf <- TwoOfADay
  FileOf <- TwoFiles
  Silent = {}
  Faults = {"append", "save", "read", "remove", "crash"}
  RetentionDays = 1
  Jobs = {"retention", "rebuild", "deletion"}
INVARIANTS NothingLost QueueFree CompletedMeansGone
PROPERTY EvidenceLeaves
CHECK_DEADLOCK FALSE
