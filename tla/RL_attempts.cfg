SPECIFICATION Spec
CONSTANTS
    Runs = {r1}
    ExclusiveRuns = {r1}
    Tasks = {t1}
    Supervisors = {s1}
    NoOwner = NoOwner
    WholeRun = WholeRun
    ControlScopes = {t1, WholeRun}
    Cluster = FALSE
    MaxAttempts = 2
    MaxRevision = 2
SYMMETRY Symmetry
CHECK_DEADLOCK FALSE
INVARIANTS TypeOK SummaryFollowsAttempt LedgerIsOrdered StoppedScopeIsQuiet
PROPERTIES RunsEndIdle EndedAttemptsAreFrozen OwnerYieldsOnlyIdleRuns ReworkGetsNewRevision
