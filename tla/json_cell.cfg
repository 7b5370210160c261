SPECIFICATION Spec
CONSTANTS
  Values = {v1, v2, v3}
  None = None
  Torn = Torn
  MaxFaults = 1
PROPERTIES ImplementsCell LoadFindsSaved
