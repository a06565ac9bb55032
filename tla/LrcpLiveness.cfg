SPECIFICATION LiveSpec
CONSTANTS
    Ends = {"client", "server"}
    Apps = {"client"}
    MaxBytes <- OneAndNone
    MinPayload = 1
    MaxPayload = 1
    Lossy = TRUE
PROPERTIES
    FlushReturns
    ShutdownReturns
CHECK_DEADLOCK FALSE
