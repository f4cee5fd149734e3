SPECIFICATION FairSpec
CONSTANTS
    NumSlots = 2
    Art = {a1, a2}
    NoFile = NoFile
    PeerBytes = PeerBytes
    Pushes = {p1}
    Peers = {e1}
    Kinds = {"save", "delete", "deleteAll"}
    MaxTime = 1
    MaxDamage = 2
    PushWindow = 2
    Retention = 2
    IOMayFail = TRUE
INVARIANTS
    TypeOK
    RestoreHonoursDelete
    SettleSaveSurvives
PROPERTIES
    PeerDeleteIsRepaired
CHECK_DEADLOCK FALSE
