CONSTANTS
    w1 = w1
    w2 = w2
    c1 = c1
    c2 = c2
    Workers <- TwoWorkers
    Callers <- OneCaller
    MaxRetry = 2
    MaxAttempts = 2
    MaxRetries = 1
    MaxCrashes = 1
    MaxStalls = 1
    MaxFaults = 1
    MaxExpiries = 1
CONSTRAINT TwoTroubles
CHECK_DEADLOCK FALSE
SYMMETRY WorkerSymmetry
SPECIFICATION Spec
INVARIANTS ExecutionTypeOK EffectOncePerAttempt OutcomesAreTrue
PROPERTIES LatestIsReported SettledOperationsStay
