CONSTANTS
    Sessions = {s1, s2}
    Conns = {c1, c2}
    Replicas = {r1}
    Primary = p
    None = None
    Statements = {"select", "write", "names utf8", "init db"}
    Databases = {d1, d2}
    Refused = {}
    Mux = TRUE
    MaxTrackedSets = 1
    Sticky = TRUE
    ResetUnsupported = FALSE
    MaxLosses = 0
SPECIFICATION Spec
SYMMETRY Symmetry
INVARIANTS
    WritesOnPrimary
    ReadsOwnWrites
    OwnVariables
    OwnDatabase
