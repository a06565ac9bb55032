SPECIFICATION Spec
CONSTANTS
    Ends = {"server"}
    MaxBytes <- TwoAndTwo
    MinPayload = 1
    MaxPayload = 2
    Lossy = FALSE
    Restarted = FALSE
INVARIANTS
    ReceivesReliably
    SendsReliably
CHECK_DEADLOCK FALSE
