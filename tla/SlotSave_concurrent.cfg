SPECIFICATION Spec
CONSTANTS
    NumSlots = 2
    Savers = {p1, p2}
    Formats = {"jpg", "png"}
    Images = {a, b, c, d}
    NoImage = NoImage
    Nobody = Nobody
    MaxDeletes = 0
    Faults = {"write"}
SYMMETRY Symmetry
INVARIANTS
    TypeOK
    SlotsAreExclusive
    NothingDestroyed
PROPERTIES
    SavesAreAtomic
CHECK_DEADLOCK FALSE
