CONSTANTS
    Sessions = {s1, s2}
    Conns = {c1, c2}
    Replicas = {}
    Primary = p
    None = None
    Statements = {"begin", "commit", "temp table", "prepare", "calc rows", "found rows"}
    Databases = {d1}
    Refused = {}
    Mux = TRUE
    MaxTrackedSets = 2
    Sticky = FALSE
    ResetUnsupported = FALSE
    MaxLosses = 1
SPECIFICATION Spec
SYMMETRY Symmetry
INVARIANTS
    TypeOK
    ParkedConnectionsAreClean
    TransactionStays
