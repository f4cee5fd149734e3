SPECIFICATION Spec
CONSTANTS
    e1 = e1
    e2 = e2
    Evals = {e1, e2}
    Kinds <- PassAndSubscriber
    Verdicts = {"pass", "fail"}
    OnDisk = FALSE
    Pinned = FALSE
    Ops = {"toggle"}
    Faults = {}
    MaxTime = 1
    MaxEdits = 1
INVARIANTS
    DisabledHasNoActive
CHECK_DEADLOCK FALSE
