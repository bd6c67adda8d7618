SPECIFICATION Spec
CONSTANTS
    a = a
    b = b
    None = None
    Ids <- Pages
    Budget = 2
    Window = 4
    FastFor = 2
    SlowFor = 4
    Fast = 1
    Slow = 2
    Slowest = 3
    Interval = 1
    Latency = 2
    RetryAfters = {1, 2}
    Unrest = 3
    Horizon = 20
CHECK_DEADLOCK FALSE
INVARIANTS
    WaitSettles
