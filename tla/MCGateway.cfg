SPECIFICATION Spec
CONSTANTS
    c1 = c1
    c2 = c2
    d1 = d1
    d2 = d2
    k1 = k1
    none = none
    Requests = {c1, c2}
    Decoys = {d1}
    Keys = {k1}
    NoRequest = none
    NoKey = none
    ContainOnDecoy = TRUE
    Interactive = TRUE
    DecisionTimeout = 2
    Patience = 3
    EarlyEnds = {"deadline"}
    MaxAttempts = 1
    MaxFaults = 0
SYMMETRY Connections
INVARIANTS
    FenceHolds
    ApprovedByUser
    EvidenceAgrees
CHECK_DEADLOCK FALSE
