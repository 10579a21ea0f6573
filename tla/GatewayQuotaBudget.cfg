CONSTANTS
    h1 = h1
    h2 = h2
    q1 = q1
    q2 = q2
    Handlers <- TwoHandlers
    Requests <- TwoRequests
    KeyLimit = 2
    BucketLimit = 1
    Estimate = 1
    Actuals = {2}
    MaxTries = 3
    NoRequest = NoRequest
    MaxFaults = 1
CHECK_DEADLOCK FALSE
SYMMETRY QuotaSymmetry
SPECIFICATION Spec
INVARIANTS QuotaTypeOK PendingCovers BudgetKept ChargedOnce
