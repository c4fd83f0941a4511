SPECIFICATION Spec
CONSTANTS
    Tasks = {1, 2}
    Edges <- NoEdges
    RunCondition <- PairCondition
    RunCount <- PairZero
    CrossTasks = {}
    Retries <- PairZero
    TriggerTasks = {}
    RetryAny = {}
    Cluster = TRUE
    Slots = 2
    WholeRun = WholeRun
    HoldScopes = {2}
    MaxHolds = 1
    MaxCrashes = 0
INVARIANT AttemptsWithinBudget
CHECK_DEADLOCK FALSE
