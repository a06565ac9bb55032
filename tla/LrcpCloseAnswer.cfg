SPECIFICATION FairSpec
CONSTANTS
    Ends = {"server"}
    MaxBytes <- NoneAndNone
    MinPayload = 1
    MaxPayload = 2
    Lossy = TRUE
    Restarted = FALSE
PROPERTY
    CloseIsAnswered
CHECK_DEADLOCK FALSE
