SPECIFICATION Spec
CONSTANTS
    Visitors = {v1}
    Sites = {s1}
    rat = rat
    dog = dog
    Species = {rat, dog}
    Reports <- MCReports
    Counts = {0, 1}
    MaxRetry = 1
    Capacity = 1
    MaxVisits = 3
    MaxLosses = 1
INVARIANTS
    Settles
    OneAtATime
    KnownPoliciesExist
PROPERTIES
    ComesToRest
CHECK_DEADLOCK FALSE
