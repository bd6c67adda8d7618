SPECIFICATION FairSpec
CONSTANTS
    a = a
    b = b
    x = x
    y = y
    None = None
    Ids <- Lone
    Calls <- Two
    Budget = 2
    Window = 4
    FastFor = 2
    SlowFor = 4
    Fast = 1
    Slow = 2
    Slowest = 3
    Interval = 1
    Latency = 1
    RetryAfters = {2}
    Timeouts = {1}
    Start = 3
    Unrest = 5
    Horizon = 20
CHECK_DEADLOCK FALSE
PROPERTIES
    TimeoutEndsRun
