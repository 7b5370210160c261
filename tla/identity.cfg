SPECIFICATION QuerySpec
CONSTANTS
  None = None
  o1 = o1
  o2 = o2
  i1 = i1
  i2 = i2
  Objects = {o1, o2}
  Paths <- MCPaths
  Folders <- MCFolders
  Ids = {i1, i2}
  MaxQueue = 1
  Dates = {1, 3}
  MaxRecords = 2
  MaxChart = 1
SYMMETRY Symmetry
INVARIANTS IndexConsistent IdentityFollowsFile ChartsAddUp DrillDownKeepsTime LiveIsLaterQuery
PROPERTY DamagedFileKept
CHECK_DEADLOCK FALSE
