SPECIFICATION Spec
CONSTANTS
    n1 = n1
    n2 = n2
    Node = {n1, n2}
    NoNode = NoNode
    HostPort <- MCPorts
    PortLo = 1
    PortHi = 2
    AnyHost = AnyHost
    Proto = {"tcp"}
    Cpu <- MCCpu
    Mem <- MCMem
    Initial <- TwoDeps
    Manifests <- MCManifests
    Replicas = {0, 2}
    Taints <- MCTaints
    Labels <- MCLabels
    Limit <- OneLostHeartbeat
PROPERTY
    GarbageIsUndesired
