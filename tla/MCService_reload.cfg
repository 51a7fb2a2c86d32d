CONSTANTS
    Processes = {p1, p2}
    Operators = {o1}
    Hot = {"on", "off"}
    FirstHot = "on"
    RuleDocs <- MCRuleDocs
    FirstRules <- Plain
    OverlappingStarts = FALSE
    MaxEdits = 2
    None = None
SPECIFICATION FairSpec
INVARIANTS
    TypeOK
    ReloadIsWhole
    PidFileNamesServer
PROPERTIES
    ReloadTakesEffect
