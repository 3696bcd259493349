SPECIFICATION FairSpec
CONSTANTS
    Gateway = {"g1", "g2"}
    Route = {"r1", "r2", "r3"}
    Service = {"web"}
    Every = ""
    Host <- Hosts
    Cell <- Cells
    Blank = ""
    Pattern <- Patterns
    Refused = {"too-long.x"}
    Path <- Paths
    RouteRow <- Rows
    Stock = Stock
    Start <- Sheets
    MaxEvents = 2
INVARIANTS
    TypeOK
    Routed
    StatusTells
    RecordedIsServed
PROPERTIES
    Reconciles
