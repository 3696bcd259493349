SPECIFICATION FairSpec
CONSTANTS
    Side = {"local", "peer"}
    Name = {"web", "api"}
    Initial <- OneHome
    MaxReplicas = 2
    Waiting = {TRUE, FALSE}
    Watching = {TRUE}
    Syncing = FALSE
    Verbs = {}
    MaxOps = 0
    MaxMigrations = 2
    Faults = {"death", "lost", "crash"}
    MaxFaults = 1
INVARIANTS
    TypeOK
    
    NeverHomeless
PROPERTY
    Settles
