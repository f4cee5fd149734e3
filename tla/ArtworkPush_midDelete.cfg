SPECIFICATION Spec
CONSTANTS
    NumSlots = 1
    Art = {a1}
    NoFile = NoFile
    PeerBytes = PeerBytes
    Pushes = {p1}
    Peers = {e1}
    Kinds = {"deleteAll"}
    MaxTime = 1
    MaxDamage = 0
    PushWindow = 2
    Retention = 2
    IOMayFail = FALSE
INVARIANTS
    DeleteAlwaysHonoured
CHECK_DEADLOCK FALSE
