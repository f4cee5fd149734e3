SPECIFICATION Spec
CONSTANTS
    NumConns = 1
    Callers = {g1}
    Toggles = {t1}
    Nobody = Nobody
    Overlaps <- NoOverlap
    Faults = {}
    Admin = {}
    MaxToggles = 2
    MaxEdits = 0
INVARIANTS
    OwnConfigAlwaysKept
CHECK_DEADLOCK FALSE
