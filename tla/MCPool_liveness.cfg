CONSTANTS
    Workers = {w1, w2}
    Conns = {c1}
    NoConn = NoConn
    MaxOpen = 1
    MaxIdle = 1
    MinIdle = 0
    IdleTimeout = FALSE
    MaxLifetime = TRUE
    PingElapses = TRUE
    BreakerFailures = 1
    MaxFaults = 1
SPECIFICATION FairSpec
INVARIANTS
    BreakerProbed
PROPERTIES
    BreakerRecovers
    AcquireEnds
