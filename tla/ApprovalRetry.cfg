CONSTANTS
    w1 = w1
    w2 = w2
    c1 = c1
    c2 = c2
    Workers <- TwoWorkers
    Callers <- OneCaller
    MaxRetry = 2
    MaxAttempts = 4
    MaxRetries = 1
    MaxCrashes = 0
    MaxStalls = 0
    MaxFaults = 0
    MaxExpiries = 0
CHECK_DEADLOCK FALSE
SPECIFICATION FairSpec
PROPERTY RetriedGetsSettled
