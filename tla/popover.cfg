CONSTANTS
    Actions <- MCActions
    LeftByDefault <- MCLeft
    RawLayouts <- MCRaw
    Views = {v1}
    Files = {f1, f2}
    MaxPopovers = 2
    MaxGeneration = 2
    MaxMoves = 1
    MaxSaves = 1
    None = None
SPECIFICATION Spec
SYMMETRY Swaps
CHECK_DEADLOCK FALSE
INVARIANTS
    OpenIsOwned
    LeavingCloses
    SavingShowsDraft
    ControlsKept
