SPECIFICATION Spec
CONSTANTS
    Fields = {f, g}
    Values = {u, v}
    Passes = {r1}
    Writers = {}
    Operators = {o1}
    MaxClock = 1
    MaxChanges = 1
    BusSize = 1
    Faults = {}
PROPERTIES
    WritesOnlyItsField
CHECK_DEADLOCK FALSE
