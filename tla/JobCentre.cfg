SPECIFICATION Spec
CONSTANTS
    Workers = {w1, w2}
    Queues = {q1, q2}
    Priorities = {0, 1}
    MaxJobs = 2
SYMMETRY Symmetry
INVARIANTS
    WaitsOrRuns
PROPERTIES
    HighestPriorityFirst
    ImplementsBoard
CHECK_DEADLOCK FALSE
