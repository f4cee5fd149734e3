SPECIFICATION Spec
CONSTANTS
    NumConns = 1
    Callers = {g1}
    Toggles = {t1, t2}
    Nobody = Nobody
    Overlaps <- NoOverlap
    Faults = {"peer", "db"}
    Admin = {"drift", "edit", "editKept", "delete"}
    MaxToggles = 3
    MaxEdits = 2
INVARIANTS
    SnapshotIsOriginal
    OwnConfigKept
    LedgerKnowsUnmanaged
SYMMETRY Symmetry
CHECK_DEADLOCK FALSE
