SPECIFICATION Spec
CONSTANTS
    Workers = {w1, w2}
    Queues = {q1}
    Priorities = {0}
    MaxJobs = 1
INVARIANTS
    DeletedIsGone
CHECK_DEADLOCK FALSE
