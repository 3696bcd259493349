SPECIFICATION FairSpec
CONSTANTS
    A = A
    B = B
    web = web
    db = db
    Member = {A, B}
    Owned = {B}
    Deploy = {web, db}
    Cpu <- MCCpu
    Capacity <- MCCapacity
    Local <- MCLocal
    Before <- MCBefore
    Sizes = {2}
    Window = 4
    MaxStretches = 2
    MaxTroubles = 1
INVARIANTS
    TypeOK
    NoOvercommit
PROPERTY
    SplitReached
