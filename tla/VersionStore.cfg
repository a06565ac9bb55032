SPECIFICATION Spec
CONSTANTS
    Clients = {c1, c2}
    Names = {"a", "b"}
    Paths <- MCPaths
    Data = {"x", "y"}
    MaxPuts = 2
INVARIANTS
    NoRevisionTwice
PROPERTIES
    IsABoard
    IsAnswered
