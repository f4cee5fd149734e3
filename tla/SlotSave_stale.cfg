SPECIFICATION Spec
CONSTANTS
    NumSlots = 1
    Savers = {p1}
    Formats = {"jpg"}
    Images = {a, b, c}
    NoImage = NoImage
    Nobody = Nobody
    MaxDeletes = 1
    Faults = {"write"}
SYMMETRY Symmetry
INVARIANTS
    RestoresOnlyItsOriginal
CHECK_DEADLOCK FALSE
