CONSTANTS
    q1 = q1
    q2 = q2
    d1 = d1
    d2 = d2
    None = None
    Clients = {c1, c2}
    Queries <- MCQueries
    Digests = {d1, d2}
    Digest <- MCDigest
    RuleSets <- MCRuleSets
    FirstRules <- Queueing
    MaxDigests = 1
    MaxReloads = 1
    MaxClients = 2
    MaxOpen = 1
    Drain = TRUE
SPECIFICATION FairSpec
INVARIANTS
    TypeOK
    SlotsBounded
    DrainRespected
PROPERTIES
    StopEnds
