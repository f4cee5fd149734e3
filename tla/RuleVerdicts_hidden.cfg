SPECIFICATION Spec
CONSTANTS
    e1 = e1
    e2 = e2
    Evals = {e1, e2}
    Kinds <- PassAndFix
    Verdicts = {"pass", "fail"}
    OnDisk = FALSE
    Pinned = FALSE
    Ops = {"dismiss", "edit"}
    Faults = {}
    MaxTime = 1
    MaxEdits = 1
INVARIANTS
    HiddenStaysHidden
CHECK_DEADLOCK FALSE
