CONSTANTS
    Sessions = {s1, s2}
    None = None
    Statements = {"transient read", "listing", "found rows", "prepared select", "write options", "begin", "commit"}
    Confs <- MCConfs
    FirstConf <- Wide
    AutoPrefix = TRUE
    Warmup = FALSE
    AutoloadedTransients = FALSE
    Size <- MCSize
    MaxTrackedTxWrites = 1
    MaxVersion = 1
    MaxReloads = 1
SPECIFICATION Spec
SYMMETRY Symmetry
INVARIANTS
    TypeOK
    IndexesAgree
    SingleFlight
    StaleOnlyIfOvertaken
PROPERTIES
    BudgetEnforced
