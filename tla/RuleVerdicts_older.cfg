SPECIFICATION Spec
CONSTANTS
    e1 = e1
    e2 = e2
    Evals = {e1, e2}
    Kinds <- PassAndSubscriber
    Verdicts = {"pass", "fail", "skip"}
    OnDisk = FALSE
    Pinned = FALSE
    Ops = {"edit"}
    Faults = {}
    MaxTime = 1
    MaxEdits = 1
PROPERTIES
    NewerStands
CHECK_DEADLOCK FALSE
