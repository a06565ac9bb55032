SPECIFICATION Spec
CONSTANTS
    Ids = {c1, c2, c3}
    Names = {n1, n2}
    NoName = NoName
    MaxMessages = 1
INVARIANT
    OnlyTheSocketEndsRun
CHECK_DEADLOCK FALSE
