SPECIFICATION Spec
CONSTANTS
    NumSlots = 2
    Art = {a1, a2}
    NoFile = NoFile
    PeerBytes = PeerBytes
    Pushes = {p1}
    Peers = {e1}
    Kinds = {"save", "delete", "deleteAll", "revert", "reorder"}
    MaxTime = 0
    MaxDamage = 2
    PushWindow = 2
    Retention = 2
    IOMayFail = TRUE
SYMMETRY Symmetry
PROPERTIES
    RepairComplete
CHECK_DEADLOCK FALSE
