SPECIFICATION Spec
CONSTANTS
    Ends = {"server"}
    MaxBytes <- NoneAndThree
    MinPayload = 1
    MaxPayload = 2
    Lossy = FALSE
    Restarted = FALSE
INVARIANT
    OnlyMisbehaviourCloses
CHECK_DEADLOCK FALSE
