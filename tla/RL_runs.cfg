SPECIFICATION Spec
CONSTANTS
    Runs = {r1, r2}
    ExclusiveRuns = {r1, r2}
    Tasks = {t1}
    Supervisors = {s1, s2}
    NoOwner = NoOwner
    WholeRun = WholeRun
    ControlScopes = {}
    Cluster = FALSE
    MaxAttempts = 0
    MaxRevision = 1
SYMMETRY Symmetry
CHECK_DEADLOCK FALSE
INVARIANTS OneExclusiveRun
PROPERTIES OnlyTheOwnerEndsARun
