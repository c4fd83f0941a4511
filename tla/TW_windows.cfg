SPECIFICATION Spec
CONSTANTS
    Sources = {s1}
    Attempts = {1, 2}
    Runs = {r1, r2}
    NoRun = NoRun
    Start = 0
    LastClock = 2
    Batches = 1
    Reads = 2
    Setbacks = 1
    Resets = 1
CHECK_DEADLOCK FALSE
INVARIANTS TypeOK NothingIsPassedOver WindowsAreClosed
PROPERTIES MovesOverItsWindow
SYMMETRY SameRuns
