CONSTANTS
    a = a
    b = b
    c = c
    Nodes = {a, b}
    NoNode = NoNode
    Host <- OwnHosts
    ConfPrimary = a
    ConfReplicas = {b}
    Automatic = FALSE
    LagLimited = TRUE
    Lifetime = TRUE
    Commands <- PromoteB
    MaxCommands = 1
    MaxFaults = 0
    MaxCrashes = 0
SPECIFICATION FairSpec
PROPERTIES
    PromotionTakesEffect
