SPECIFICATION FairSpec
CONSTANTS
    c1 = c1
    c2 = c2
    d1 = d1
    d2 = d2
    k1 = k1
    none = none
    Requests = {c1, c2}
    Decoys = {}
    Keys = {k1}
    NoRequest = none
    NoKey = none
    ContainOnDecoy = FALSE
    Interactive = TRUE
    DecisionTimeout = 1
    Patience = 2
    EarlyEnds = {}
    MaxAttempts = 1
    MaxFaults = 0
PROPERTY
    TeardownEnds
CHECK_DEADLOCK FALSE
