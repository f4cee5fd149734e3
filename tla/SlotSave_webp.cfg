SPECIFICATION Spec
CONSTANTS
    NumSlots = 1
    Savers = {p1}
    Formats = {"jpg", "webp"}
    Images = {a, b}
    NoImage = NoImage
    Nobody = Nobody
    MaxDeletes = 0
    Faults = {"write"}
SYMMETRY Symmetry
INVARIANTS
    NothingDestroyed
CHECK_DEADLOCK FALSE
