SPECIFICATION FairSpec
CONSTANTS
    Tasks = {1, 2, 3}
    Edges <- BranchEdges
    RunCondition <- BranchCondition
    RunCount <- BranchCount
    CrossTasks = {2}
    Retries <- BranchRetries
    TriggerTasks = {3}
    RetryAny = {}
    Cluster = FALSE
    Slots = 2
    WholeRun = WholeRun
    HoldScopes = {2, WholeRun}
    MaxHolds = 1
    MaxCrashes = 1
INVARIANTS TypeOK LoopFindsUnsatisfiable SkipsAreFinal
PROPERTIES KeepsPromise RunEnds
CHECK_DEADLOCK FALSE
