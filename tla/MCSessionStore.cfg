SPECIFICATION StoreSpec
CONSTANTS
    s1 = s1
    s2 = s2
    t1 = t1
    t2 = t2
    d1 = d1
    none = none
    Sessions = {s1}
    Stamps = {t1, t2}
    NoStamp = none
    ExitCodes = {0, 1}
    NoExit = none
    EventTypes = {"PROCESS_START"}
    Decoys = {d1}
    MaxEvents = 1
INVARIANT StoreTypeOK
PROPERTY HistoryOnlyGrows
