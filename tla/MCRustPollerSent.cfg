SPECIFICATION Spec
CONSTANTS
    a = a
    b = b
    None = None
    Ids <- Pages
    Budget = 2
    Window = 4
    FastFor = 2
    SlowFor = 4
    Fast = 1
    Slow = 2
    Slowest = 3
    Interval = 1
    Latency = 2
    RetryAfters = {0, 2}
    Timeouts <- Patient
    Cancellable = FALSE
    Unrest = 3
    Horizon = 20
CHECK_DEADLOCK FALSE
INVARIANTS
    SentInWindow
