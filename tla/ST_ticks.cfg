SPECIFICATION FairSpec
CONSTANTS
    LastTick = 3
    FirstInstant = 2
    Closed = {2}
    Retain = 1
    OverlapSkip = TRUE
    RestartOn = {"SUCCESS"}
    Controllers = {c1, c2}
    None = None
    Endings = {"SUCCESS"}
    MaxRestarts = 1
    MaxOperations = 1
    MaxFaults = 1
INVARIANTS TypeOK OnlyClosedDaysOvertake NoPileUp
PROPERTIES TicksAreRecorded RestartsHappen
CHECK_DEADLOCK FALSE
