SPECIFICATION FairSpec
CONSTANTS
    Fields = {f}
    Values = {u, v}
    Passes = {r1}
    Writers = {w1}
    Operators = {w1}
    MaxClock = 2
    MaxChanges = 3
    BusSize = 1
    Faults = {"engine", "read", "stamp", "mark"}
INVARIANTS
    LateChangesStayDirty
PROPERTIES
    NoProposalUnderLock
    LocksKept
    PassesClear
    EvaluationCatchesUp
CHECK_DEADLOCK FALSE
