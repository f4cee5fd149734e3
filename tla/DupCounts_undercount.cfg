SPECIFICATION Spec
CONSTANTS
    c1 = c1
    c2 = c2
    q1 = q1
    q2 = q2
    k1 = k1
    Copies = {c1, c2}
    Pairs = {q1, q2}
    Conns = {k1}
    PairOf <- OneCopyEach
    ConnOf <- OneForBoth
    Changes = {}
    Faults = {"lookup"}
    MaxTurns = 0
    Stops = FALSE
INVARIANTS
    CountsEverything
CHECK_DEADLOCK FALSE
