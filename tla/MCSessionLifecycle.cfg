SPECIFICATION Spec
CONSTANTS
    g1 = g1
    g2 = g2
    d1 = d1
    d2 = d2
    t1 = t1
    none = none
    free = free
    Procs = {g1, g2}
    Free = free
    NoSession = none
    Sessions = {1, 2}
    Stamps = {t1}
    NoStamp = none
    ExitCodes = {0, 1}
    NoExit = none
    EventTypes <- RunEvents
    Decoys = {d1}
    Kinds <- SidecarAndGateway
    ContainOnDecoy = TRUE
    MaxEvents = 5
    MaxCrashes = 1
    MaxFaults = 2
SYMMETRY Invocations
INVARIANTS
    TypeOK
    LifecycleInvariant
    ClosedOnce
    OneLiveAgent
    OneInterrupted
    LiveAgentJournaled
    RecoveryDone
    ContainmentNotLost
    CompletedMeansClean
PROPERTY
    ImplementsLedger
