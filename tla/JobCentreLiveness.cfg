SPECIFICATION LiveSpec
CONSTANTS
    Workers = {w1, w2}
    Queues = {q1}
    Priorities = {0}
    MaxJobs = 2
PROPERTIES
    NextNotificationServes
    LeaverGivesBack
CHECK_DEADLOCK FALSE
