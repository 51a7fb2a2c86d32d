CONSTANTS
    Workers = {w1, w2}
    Conns = {c1, c2, c3}
    NoConn = NoConn
    MaxOpen = 2
    MaxIdle = 1
    MinIdle = 1
    IdleTimeout = TRUE
    MaxLifetime = TRUE
    PingElapses = FALSE
    BreakerFailures = 0
    MaxFaults = 1
SPECIFICATION Spec
SYMMETRY Symmetry
INVARIANTS
    TypeOK
    TokenAccounting
    ExclusiveOwnership
    NoLostConnection
    CapRespected
    ScanReachesAll
PROPERTIES
    ImplementsAllocator
