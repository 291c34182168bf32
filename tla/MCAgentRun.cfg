SPECIFICATION FairSpec
CONSTANTS
    ExitCodes = {0, 1, 137}
    Killed = 137
    MaxFaults = 2
INVARIANTS
    AgentTypeOK
    NoErrorMeansFinished
    OOMIsObserved
    KilledAfterTerm
    AgentInvariant
PROPERTY RunReturns
CHECK_DEADLOCK FALSE
