SPECIFICATION FairSpec
CONSTANTS
    NumSlots = 2
    Savers = {p1, p2}
    Formats = {"jpg", "png"}
    Images = {a, b}
    NoImage = NoImage
    Nobody = Nobody
    MaxDeletes = 1
    Faults = {"backup", "clean", "write", "restore"}
PROPERTIES
    FailedSaveRestores
    EverySaveReturns
CHECK_DEADLOCK FALSE
