CONSTANTS
    None = None
    Nodes = {n1, n2, bare}
    Addressed = {n1, n2}
    Confs <- MCConfs
    Sources <- MCSources
    Providers <- MCProviders
    MaxEdits = 2
    MaxTroubles = 1
SPECIFICATION MCSpec
CHECK_DEADLOCK FALSE
INVARIANTS  NeverRefused
PROPERTIES  Settles
