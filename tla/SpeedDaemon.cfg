SPECIFICATION Spec
CONSTANTS
    Clients = {k1, k2, k3}
    Cars = {car}
    Roads = {1}
    Miles = {0, 1}
    Limits = {60, 61}
    Timestamps = {86360, 86390, 86430}
    Askers = {k1}
    NoClient = NoClient
    MaxObservations = 3
    MaxQueue = 1
INVARIANTS
    OneTicketADay
    SpeederIsTicketed
    OnlySpeedersAreTicketed
    WaitsForADispatcher
PROPERTIES
    StoredTicketIsSent
CHECK_DEADLOCK FALSE
