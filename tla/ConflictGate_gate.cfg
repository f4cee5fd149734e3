SPECIFICATION Spec
CONSTANTS
    NumConns = 2
    Callers = {g1}
    Toggles = {t1}
    Nobody = Nobody
    Overlaps <- AllOverlap
    Faults = {"peer", "db"}
    Admin = {"drift", "edit", "editKept", "enable", "delete", "onboard"}
    MaxToggles = 1
    MaxEdits = 1
PROPERTIES
    AdmitsOnlyKnown
CHECK_DEADLOCK FALSE
