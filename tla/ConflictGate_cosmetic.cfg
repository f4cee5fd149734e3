SPECIFICATION Spec
CONSTANTS
    NumConns = 1
    Callers = {}
    Toggles = {t1}
    Nobody = Nobody
    Overlaps <- NoOverlap
    Faults = {"db"}
    Admin = {"editKept"}
    MaxToggles = 3
    MaxEdits = 1
INVARIANTS
    SnapshotAlwaysOriginal
CHECK_DEADLOCK FALSE
