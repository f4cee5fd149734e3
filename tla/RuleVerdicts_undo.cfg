SPECIFICATION Spec
CONSTANTS
    e1 = e1
    e2 = e2
    Evals = {e1}
    Kinds <- OnePassOrFix
    Verdicts = {"pass", "fail"}
    OnDisk = TRUE
    Pinned = FALSE
    Ops = {"undo"}
    Faults = {}
    MaxTime = 1
    MaxEdits = 0
INVARIANTS
    PassHasNoActive
CHECK_DEADLOCK FALSE
