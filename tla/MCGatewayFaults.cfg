SPECIFICATION FairSpec
CONSTANTS
    c1 = c1
    c2 = c2
    d1 = d1
    d2 = d2
    k1 = k1
    none = none
    Requests = {c1}
    Decoys = {d1, d2}
    Keys = {k1}
    NoRequest = none
    NoKey = none
    ContainOnDecoy = TRUE
    Interactive = TRUE
    DecisionTimeout = 2
    Patience = 3
    EarlyEnds = {"cancelled"}
    MaxAttempts = 2
    MaxFaults = 1
INVARIANTS
    BoundaryTypeOK
    EvidenceComplete
PROPERTY
    ConnectionsEnd
CHECK_DEADLOCK FALSE
