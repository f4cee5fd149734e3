SPECIFICATION FairSpec
CONSTANTS
    e1 = e1
    e2 = e2
    Evals = {e1, e2}
    Kinds <- PassAndSubscriber
    Verdicts = {"pass", "fail"}
    OnDisk = FALSE
    Pinned = FALSE
    Ops = {"edit", "toggle"}
    Faults = {}
    MaxTime = 1
    MaxEdits = 2
INVARIANTS
    PassHasNoActive
PROPERTIES
    EventuallyAgrees
CHECK_DEADLOCK FALSE
