SPECIFICATION Spec
CONSTANTS
    Ends = {"client", "server"}
    Apps = {"client", "server"}
    MaxBytes <- TwoAndNone
    MinPayload = 1
    MaxPayload = 2
    Lossy = FALSE
INVARIANT
    ReadersAreReleased
CHECK_DEADLOCK FALSE
