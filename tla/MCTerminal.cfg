SPECIFICATION FairSpec
CONSTANTS
    r1 = r1
    r2 = r2
    none = none
    Calls = {r1, r2}
    NoCall = none
    LineLimit = 1
    MaxTyped = 2
INVARIANTS
    TerminalTypeOK
    GrantedOnOwnLine
    BytesInOrder
PROPERTIES
    DecidesReturn
    LoopEnds
CHECK_DEADLOCK FALSE
