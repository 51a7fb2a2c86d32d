CONSTANTS
    Sessions = {s1, s2}
    None = None
    Statements = {"alloptions", "set option"}
    Confs <- MCConfs
    FirstConf <- Wide
    AutoPrefix = FALSE
    Warmup = TRUE
    AutoloadedTransients = FALSE
    Size <- MCSize
    MaxTrackedTxWrites = 1
    MaxVersion = 1
    MaxReloads = 1
SPECIFICATION FairSpec
PROPERTIES
    WaitersReleased
    WarmUpHappens
