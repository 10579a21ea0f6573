CONSTANTS
    k1 = k1
    k2 = k2
    k3 = k3
    c1 = c1
    c2 = c2
    Jobs <- ThreeRows
    Callers <- TwoCallers
    ReArmOnError = TRUE
    MaxRetry = 2
    Optional = TRUE
    MaxErrors = 2
    MaxLosses = 1
CHECK_DEADLOCK FALSE
SPECIFICATION FairSpec
INVARIANT RecurringTypeOK
PROPERTIES ChainAlive DuplicatesDieOut
