SPECIFICATION Spec
CONSTANTS
    Ends = {"server"}
    MaxBytes <- ThreeAndNone
    MinPayload = 1
    MaxPayload = 2
    Lossy = TRUE
    Restarted = FALSE
PROPERTY
    GapIsAcked
CHECK_DEADLOCK FALSE
