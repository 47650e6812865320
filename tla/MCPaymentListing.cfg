SPECIFICATION FairSpec
CONSTANTS
    m1 = m1
    m2 = m2
    last = last
    Merchants = {m1, m2}
    Payments = {p1, p2, p3, last}
    Owner <- MCOwner
    Walks = {w1}
    Limits = {0, 1, 2}
    Filters = {None, "processing"}
    MaxTime = 1
    None = None
INVARIANTS
    TypeOK
    NoRepeats
    OnlyTiesAreMissed
PROPERTY EveryWalkEnds
CHECK_DEADLOCK FALSE
