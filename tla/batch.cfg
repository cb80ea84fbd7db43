SPECIFICATION Spec
CONSTANTS
    k1 = k1  k2 = k2  r1 = r1  r2 = r2
    w1 = w1  w2 = w2  p1 = p1  p2 = p2  s1 = s1  s2 = s2  e1 = e1
    t1 = t1  t2 = t2
    None = None
    Settlements = {s1, s2}
    Payouts = {p1, p2}
    Workers = {w1, w2}
    Slots = {t1, t2}
    Keys = {k1, k2}
    Refs = {r1, r2}
    Errors = {e1}
    MaxAttempts = 2
    PromoteBatch = 2
    Faults = {"api", "bank", "refuse", "db", "redis", "kill", "lease", "restart"}
    MaxFaults = 1
SYMMETRY Symmetry
INVARIANTS MerchantPaidOnce MoneyCarriesRowKey NoJobLost
PROPERTY KeepsPromise
