SPECIFICATION Spec
CONSTANTS
    s1 = s1
    s2 = s2
    first = first
    second = second
    report = report
    create = create
    list = list
    livez = livez
    Settlements = {s1, s2}
    Kind <- MCKind
    Target <- MCTarget
    Requests <- MCRequests
    Threads = 3
    PoolSize = 2
    PoolTimeout = 1
    ConnectTimeout = 1
    LockTimeout = 1
    StatementTimeout = 1
    ReportTimeout = 2
    ReportCost = 2
    CommitTime = 1
    PushTimeout = 1
    Graceful = 5
    MaxFaults = 1
    MaxRequests = 4
    None = None
SYMMETRY Racers
INVARIANTS TypeOK AnswersAreTrue OnePayout RetryIsSafe ThreadsComeBack ShortRequestsEnd
