SPECIFICATION StreamsSpec
CONSTANTS
    Size = 2
    MaxLost = 1
    Exchanges <- MCExchanges
INVARIANTS
    StreamsTypeOK
    ItemsInOrder
    EndsAtTheEnd
    BytesAreKept
PROPERTY
    HandlerEnds
CHECK_DEADLOCK FALSE
