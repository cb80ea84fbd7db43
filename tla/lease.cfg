SPECIFICATION Spec
CONSTANTS
    Lease = 6
    Period = 1
    Call = 2
    Pass = 4
    Misses = 1
    LastFetch = 2
    Drain = 9
    Work = 11
INVARIANTS TypeOK LapsesOnlyWhenSlow  AbandonedWorkHasNoLease
