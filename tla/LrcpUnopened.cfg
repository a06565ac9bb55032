SPECIFICATION Spec
CONSTANTS
    Ends = {"server"}
    MaxBytes <- OneEach
    MinPayload = 1
    MaxPayload = 2
    Lossy = FALSE
    Restarted = TRUE
PROPERTY
    OpenedByConnect
CHECK_DEADLOCK FALSE
