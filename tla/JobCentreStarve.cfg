SPECIFICATION LiveSpec
CONSTANTS
    Workers = {w1, w2}
    Queues = {q1}
    Priorities = {0}
    MaxJobs = 1
PROPERTIES
    WaitersAreServed
CHECK_DEADLOCK FALSE
