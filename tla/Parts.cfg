\* Any three of the eight kinds of job on the configuration, over two ticks,
\* with a crash; the defaults of the redial schedule with the frozen tier nearer.
CONSTANTS
    Thread <- MCThread
    Job <- MCJob
    RacyWindow = 1
    MaxClock = 2
    MaxJobs = 3
    MaxCrash = 1
    U16Width = 100
    U32Width = 1000
    U64Width = 1000000
    Numbers = {0, 1, 2, 101, 20000}
    MaxChanged = 1
    Reader = {r1, r2}
    Command = {c1}
    Interval = 2
    NoSnapshot = NoSnapshot
    MaxVersion = 3
    MaxTicks = 5
    BACKOFF_INITIAL = 1
    BACKOFF_MAX = 30
    ColdThreshold = 10
    ColdMax = 600
    FrozenThreshold = 24
    FrozenMax = 86400
    MinUptime = 5
    JitterPct = 20
    MaxFailures = 36
    Threshold = 2
    Window = 4
    MaxTime = 12
    MaxCount = 6
    Conn = {c1, c2}
    CAPACITY = 2
    REFILL_PER_SEC = 1
    STRIKE_LIMIT = 3
    GLOBAL_CAPACITY = 3
    GLOBAL_REFILL_PER_SEC = 1
    GLOBAL_STRIKE_LIMIT = 3
    MaxSeconds = 3
    MaxReconnects = 1
    Peer = {p1, p2, p3}
    Self = self
    WalkBudget = 3
    AttemptBound = 2
    MaxPaths = 3
    Member = {m1, m2}
    NoAnswer = NoAnswer
    GRANT_PUBLISH_ATTEMPTS = 2
    MaxEdits = 1
    MaxGrants = 3
SPECIFICATION PartsSpec

INVARIANTS CacheSound SavesHold ReadBack  RateLimited WalkEnds FlagNeedsKey
PROPERTIES DialPace LogPace ReportHonest 
CHECK_DEADLOCK FALSE
