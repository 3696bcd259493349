SPECIFICATION FairSpec
CONSTANTS
    Request <- Requests
    Hand = "hand"
    Tab = {"Gateways", "Routes"}
    Touches <- Touched
    After <- Rest
    NoRequest = "none"
    NoTab = "none"
    MaxFaults = 2
INVARIANT
    TypeOK
PROPERTIES
    KeepsPromise
    EveryRequestEnds
CHECK_DEADLOCK FALSE
