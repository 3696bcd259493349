SPECIFICATION PassSpec
CONSTANTS
    n1 = n1
    n2 = n2
    Node = {n1, n2}
    NoNode = NoNode
    HostPort <- MCPorts
    PortLo = 1
    PortHi = 2
    AnyHost = AnyHost
    Proto = {"tcp"}
    Inputs <- MCInputs
INVARIANTS
    PassTypeOK
    CapacityRespected
    HostPortsExclusive
    PortsAsRequested
    PlacementLegal
    RunningPodsWin
    RescheduleIsStable
PROPERTY
    PlacesLegally
CHECK_DEADLOCK FALSE
