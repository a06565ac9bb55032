SPECIFICATION Spec
CONSTANTS
    Ids = {c1, c2, c3}
    Names = {n1, n2}
    NoName = NoName
    MaxMessages = 1
INVARIANT
    NobodyPanics
CHECK_DEADLOCK FALSE
