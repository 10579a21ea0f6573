CONSTANTS
    j1 = j1
    j2 = j2
    r1 = r1
    r2 = r2
    Jobs <- OneJob
    Runners <- TwoRunners
    MaxRetry = 2
    BatchSize = 1
    MaxCrashes = 1
    MaxStalls = 1
    MaxDbFaults = 1
    MaxResets = 1
    MaxPurges = 1
CHECK_DEADLOCK FALSE
SPECIFICATION FairSpec
INVARIANTS TypeOK AttemptsLeft ClaimBudget
PROPERTIES SettledIsFinal JobsSettle
