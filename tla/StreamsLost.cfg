SPECIFICATION StreamsSpec
CONSTANTS
    Size = 2
    MaxLost = 1
    Exchanges <- MCExchanges
INVARIANT
    NothingIsLost
CHECK_DEADLOCK FALSE
