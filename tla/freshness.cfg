SPECIFICATION Spec
CONSTANTS
    p1 = p1
    p2 = p2
    w1 = w1
    w2 = w2
    Payouts = {p1, p2}
    Workers = {w1, w2}
    OldestLimit = 0
    StaleLimit = 1
    For = 1
    None = None
SYMMETRY Symmetry
INVARIANTS TypeOK PagedInTime ReplayAgrees
