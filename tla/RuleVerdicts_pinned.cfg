SPECIFICATION Spec
CONSTANTS
    e1 = e1
    e2 = e2
    Evals = {e1}
    Kinds <- OnePass
    Verdicts = {"pass", "fail"}
    OnDisk = FALSE
    Pinned = TRUE
    Ops = {}
    Faults = {}
    MaxTime = 1
    MaxEdits = 0
PROPERTIES
    RevertedStaysOpen
CHECK_DEADLOCK FALSE
