SPECIFICATION Spec
CONSTANTS
    Conn = {c1, c2}
    MaxChunks = 1
    Limit = 8
    MaxEvents = 2
SYMMETRY Connections
INVARIANT
    CurlReaches
CHECK_DEADLOCK FALSE
