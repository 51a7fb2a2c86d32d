CONSTANTS
    Sessions = {s1, s2}
    Conns = {c1, c2}
    Replicas = {r1}
    Primary = p
    None = None
    Statements = {"calc rows", "found rows"}
    Databases = {d1}
    Refused = {}
    Mux = TRUE
    MaxTrackedSets = 2
    Sticky = TRUE
    ResetUnsupported = FALSE
    MaxLosses = 0
SPECIFICATION Spec
SYMMETRY Symmetry
INVARIANTS
    CompanionSeesItsListing
