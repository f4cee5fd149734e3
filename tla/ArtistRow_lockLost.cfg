SPECIFICATION Spec
CONSTANTS
    Fields = {f}
    Values = {u, v}
    Passes = {r1}
    Writers = {}
    Operators = {o1}
    MaxClock = 1
    MaxChanges = 1
    BusSize = 1
    Faults = {}
PROPERTIES
    LocksChangeOnRequest
CHECK_DEADLOCK FALSE
