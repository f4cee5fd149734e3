SPECIFICATION Spec
CONSTANTS
    c1 = c1
    c2 = c2
    q1 = q1
    q2 = q2
    k1 = k1
    Copies = {c1}
    Pairs = {q1, q2}
    Conns = {k1}
    PairOf <- OneCopy
    ConnOf <- OneForBoth
    Changes = {}
    Faults = {}
    MaxTurns = 0
    Stops = TRUE
INVARIANTS
    NothingAfterDrain
CHECK_DEADLOCK FALSE
