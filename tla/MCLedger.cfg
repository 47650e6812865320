SPECIFICATION Spec
CONSTANTS
    m1 = m1
    m2 = m2
    Merchants = {m1, m2}
    Payments = {p1, p2, p3, p4}
    Invoices = {i1, i2, i3}
    Amounts = {1, 2}
    Opening <- MCOpening
    None = None
SYMMETRY MCSymmetry
INVARIANTS
    TypeOK
    Solvent
CHECK_DEADLOCK FALSE
