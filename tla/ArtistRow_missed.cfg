SPECIFICATION Spec
CONSTANTS
    Fields = {f}
    Values = {u, v}
    Passes = {r1}
    Writers = {}
    Operators = {o1}
    MaxClock = 2
    MaxChanges = 1
    BusSize = 1
    Faults = {}
INVARIANTS
    CleanMeansSeen
CHECK_DEADLOCK FALSE
