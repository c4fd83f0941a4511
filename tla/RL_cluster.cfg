SPECIFICATION FairSpec
CONSTANTS
    Runs = {r1}
    ExclusiveRuns = {r1}
    Tasks = {t1, t2}
    Supervisors = {s1}
    NoOwner = NoOwner
    WholeRun = WholeRun
    ControlScopes = {WholeRun}
    Cluster = TRUE
    MaxAttempts = 1
    MaxRevision = 1
CHECK_DEADLOCK FALSE
INVARIANTS StoppedScopeIsQuiet
PROPERTIES RunsEndIdle CrashedRunIsAdoptable
