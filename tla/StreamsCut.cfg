SPECIFICATION StreamsSpec
CONSTANTS
    Size = 2
    MaxLost = 1
    Exchanges <- MCExchanges
INVARIANT
    SpecIsFollowed
CHECK_DEADLOCK FALSE
