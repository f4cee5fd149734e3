SPECIFICATION Spec
CONSTANTS
    e1 = e1
    e2 = e2
    Evals = {e1, e2}
    Kinds <- ScopedPassesAndFix
    Verdicts = {"pass", "fail"}
    OnDisk = TRUE
    Pinned = FALSE
    Ops = {"undo", "edit", "dismiss", "clear"}
    Faults = {}
    MaxTime = 1
    MaxEdits = 1
PROPERTIES
    ChoiceKept
    NewerStands
CHECK_DEADLOCK FALSE
