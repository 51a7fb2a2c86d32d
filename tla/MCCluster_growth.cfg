CONSTANTS
    a = a
    b = b
    c = c
    Nodes = {a, b}
    NoNode = NoNode
    Host <- OwnHosts
    ConfPrimary = a
    ConfReplicas = {}
    Automatic = TRUE
    LagLimited = TRUE
    Lifetime = TRUE
    Commands <- AnyCommandB
    MaxCommands = 1
    MaxFaults = 1
    MaxCrashes = 1
SPECIFICATION FairSpec
INVARIANTS
    TypeOK
PROPERTIES
    RecordedPrimaryIsWritable
    EligibleByItsLag
    
    DeadNodeIsMarkedDown
    DaemonFollowsFile
    ReplicasFollowPrimary
