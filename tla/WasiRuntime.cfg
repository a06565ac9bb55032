SPECIFICATION Spec
CONSTANTS
    Tasks = {1, 2, 3}
    MaxOps = 2
    MaxLeft = 1
INVARIANTS
    KeysHaveWakers
    OneWriter
    SleepsForAReason
PROPERTIES
    Ends
CHECK_DEADLOCK FALSE
