CONSTANTS
    a = a
    b = b
    c = c
    Nodes = {a, b}
    NoNode = NoNode
    Host <- OwnHosts
    ConfPrimary = a
    ConfReplicas = {b}
    Automatic = TRUE
    LagLimited = TRUE
    Lifetime = TRUE
    Commands <- NoCommand
    MaxCommands = 0
    MaxFaults = 1
    MaxCrashes = 0
SPECIFICATION FairSpec
PROPERTIES
    OldPrimaryRejoins
