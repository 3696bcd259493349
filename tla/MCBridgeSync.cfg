SPECIFICATION FairSpec
CONSTANTS
    Side = {"local", "peer"}
    Name = {"web", "api"}
    Initial <- TwoHomes
    MaxReplicas = 1
    Waiting = {TRUE}
    Watching = {FALSE}
    Syncing = TRUE
    Verbs = {"apply", "rename", "push", "stretch"}
    MaxOps = 1
    MaxMigrations = 1
    Faults = {"crash"}
    MaxFaults = 1
PROPERTIES
    Federates
    SyncRests
