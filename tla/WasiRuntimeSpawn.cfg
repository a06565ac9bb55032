SPECIFICATION Spec
CONSTANTS
    Tasks = {1, 2}
    MaxOps = 2
    MaxLeft = 1
INVARIANTS
    OnlyTheIdleSleep
CHECK_DEADLOCK FALSE
