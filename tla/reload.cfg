SPECIFICATION ViewSpec
CONSTANTS
    k1 = k1
    k2 = k2
    a = a
    None = None
    Keys <- TwoKeys
    Values = {a}
    Blocks <- SomeBlocks
    Callers = {c1}
    MaxLen = 2
    MaxMoves = 4
    MaxFails = 1
INVARIANTS
    ViewTypeOK
    IncrementalIsWhole
    ClosedQuiet
PROPERTIES
    CallersAnswered
    FollowsView
CHECK_DEADLOCK FALSE
