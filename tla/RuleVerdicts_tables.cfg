SPECIFICATION Spec
CONSTANTS
    e1 = e1
    e2 = e2
    Evals = {e1, e2}
    Kinds <- PassAndSubscriber
    Verdicts = {"pass", "fail", "skip"}
    OnDisk = TRUE
    Pinned = FALSE
    Ops = {"edit", "dismiss", "resolve", "clear"}
    Faults = {"db", "engine", "crash"}
    MaxTime = 2
    MaxEdits = 1
INVARIANTS
    TypeOK
    PassHasNoActive
    OpenHasFail
    HiddenStaysHidden
CHECK_DEADLOCK FALSE
