SPECIFICATION Spec
CONSTANTS
    Ends = {"client", "server"}
    Apps = {"client", "server"}
    MaxBytes <- TwoAndNone
    MinPayload = 1
    MaxPayload = 2
    Lossy = FALSE
INVARIANTS
    DeliveredInOrder
    FlushedIsDelivered
    ClosingIsRequested
    WritersAreReleased
PROPERTIES
    ImplementsStream
CHECK_DEADLOCK FALSE
