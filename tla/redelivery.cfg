SPECIFICATION Spec
CONSTANTS
    k1 = k1  k2 = k2  r1 = r1  r2 = r2
    w1 = w1  w2 = w2  p1 = p1  p2 = p2  s1 = s1  s2 = s2  e1 = e1
    t1 = t1  t2 = t2
    None = None
    Settlements = {s1}
    Payouts = {p1}
    Workers = {w1, w2}
    Slots = {1}
    Keys = {k1, k2}
    Refs = {r1, r2}
    Errors = {e1}
    MaxAttempts = 3
    PromoteBatch = 2
    Faults = {"bank", "db", "redis", "lease", "kill", "refuse", "operator"}
    MaxFaults = 3
SYMMETRY Symmetry
INVARIANTS TypeOK MerchantPaidOnce RecordMatchesBank NoJobLost
PROPERTY RowsOnlyMoveForward
