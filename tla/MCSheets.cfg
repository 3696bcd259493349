SPECIFICATION FairSpec
CONSTANTS
    Name = {a, b}
    Node = {n1, n2}
    NoNode = NoNode
    Operator = {o1, o2}
    MaxOps = 2
    MaxFailures = 1
INVARIANTS
    TypeOK
    AppliedStays
PROPERTIES
    RunningPodsStay
    PodsFollow
