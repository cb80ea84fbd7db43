SPECIFICATION Spec
CONSTANTS
    Lease = 6
    Period = 1
    Call = 1
    Pass = 1
    Misses = 0
    LastFetch = 1
    Drain = 9
    Work = 8
PROPERTY NotRobbedWhileDraining
