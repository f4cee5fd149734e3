SPECIFICATION FairSpec
CONSTANTS
    c1 = c1
    c2 = c2
    q1 = q1
    q2 = q2
    k1 = k1
    Copies = {c1}
    Pairs = {q1, q2}
    Conns = {k1}
    PairOf <- OneCopy
    ConnOf <- OneForBoth
    Changes = {c1}
    Faults = {"scan", "partial", "absent", "lookup", "delete"}
    MaxTurns = 1
    Stops = TRUE
INVARIANTS
    TypeOK
    NoPrunedRows
    CountsNeverLow
    DrainIsComplete
PROPERTIES
    CountsCatchUp
CHECK_DEADLOCK FALSE
