CONSTANTS
    j1 = j1
    j2 = j2
    r1 = r1
    r2 = r2
    Jobs <- TwoJobs
    Runners <- TwoRunners
    MaxRetry = 2
    BatchSize = 2
    MaxCrashes = 1
    MaxStalls = 0
    MaxDbFaults = 1
    MaxResets = 1
    MaxPurges = 1
SYMMETRY Symmetry
CHECK_DEADLOCK FALSE
SPECIFICATION Spec
INVARIANT ClaimsAreExclusive
PROPERTY ImplementsLedger
