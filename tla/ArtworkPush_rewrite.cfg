SPECIFICATION Spec
CONSTANTS
    NumSlots = 2
    Art = {a1, a2}
    NoFile = NoFile
    PeerBytes = PeerBytes
    Pushes = {p1}
    Peers = {e1}
    Kinds = {"delete"}
    MaxTime = 1
    MaxDamage = 0
    PushWindow = 2
    Retention = 2
    IOMayFail = FALSE
INVARIANTS
    RewriteHonoursDelete
CHECK_DEADLOCK FALSE
