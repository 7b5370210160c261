SPECIFICATION Spec
CONSTANTS
  None = None
  Leaves = {l1, l2}
  Files = {f1, f2}
  MaxChars = 2
  MaxGeneration = 3
INVARIANTS NoDoubleCount AllCounted CreditStaysInLeaf
CHECK_DEADLOCK FALSE
