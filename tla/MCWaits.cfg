SPECIFICATION Spec
CONSTANTS
    None = None
    r = r
    j = j
    Callers = {r, j}
    Lib <- MCLib
    About <- MCAbout
    Limit = 2
    Budget = 2
    Window = 5
    FastFor = 2
    SlowFor = 5
    Fast = 2
    Slow = 2
    Slowest = 5
    Interval = 1
    Latency = 1
    Headers = {0, 2, None}
    Timeouts <- MCTimeouts
    Texts = {"queued", "acked"}
    Unrest = 2
    Horizon = 15
INVARIANTS
    TypeOK
    HeardInTime
    TimeoutKept
    ResultIsTrue
PROPERTIES
    NotBeforeTold
CHECK_DEADLOCK FALSE
