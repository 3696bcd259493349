SPECIFICATION FairSpec
CONSTANTS
    Conn = {c1}
    MaxChunks = 2
    Limit = 5
    MaxEvents = 3
INVARIANTS
    TypeOK
    InOrder
    NoTruncation
PROPERTIES
    RequestsArrive
    EndsRelayed
CHECK_DEADLOCK FALSE
