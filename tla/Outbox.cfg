CONSTANTS
    k1 = k1
    k2 = k2
    c1 = c1
    c2 = c2
    Jobs <- TwoRows
    Callers <- Both
    Requesters <- Tenant
    Events <- TwoEvents
    Malformed <- First
    Limit = 2
    ReArmOnError = FALSE
    MaxRetry = 2
    Optional = FALSE
    MaxErrors = 1
    MaxLosses = 1
CONSTRAINT OneFault
CHECK_DEADLOCK FALSE
SPECIFICATION OutboxFairSpec
INVARIANTS OutboxTypeOK ImpactOnce
PROPERTIES PublishedIsFrozen EventsGetPublished
