SPECIFICATION Spec
CONSTANTS
    Runs = {r1}
    ExclusiveRuns = {r1}
    Tasks = {t1}
    Supervisors = {s1}
    NoOwner = NoOwner
    WholeRun = WholeRun
    ControlScopes = {}
    Cluster = FALSE
    MaxAttempts = 1
    MaxRevision = 1
CHECK_DEADLOCK FALSE
INVARIANTS EndedRunsAreQuiet
