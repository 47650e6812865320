SPECIFICATION FairSpec
CONSTANTS
    m1 = m1
    m2 = m2
    ab = ab
    a_b = a_b
    other = other
    Merchants = {m1}
    Orders = {ab, a_b, other}
    Undashed <- MCUndashed
    Requests = {r1, r2}
    Calls = {c1, c2}
    Workers = {w1}
    Amounts = {2}
    Opening <- MCOpening
    ProviderIds = {id1, id2}
    None = None
PROPERTY NoTransactionHangs
CHECK_DEADLOCK FALSE
