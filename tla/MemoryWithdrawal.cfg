CONSTANTS
    o1 = o1
    d1 = d1
    d2 = d2
    k1 = k1
    k2 = k2
    c1 = c1
    c2 = c2
    Ops = {o1}
    Dispatchers = {d1, d2}
    Compensators = {k1, k2}
    Consents = {c1, c2}
    NoOp = NoOp
    MaxRuns = 2
    MaxFaults = 1
CONSTRAINT OutgrowsCalmly
CHECK_DEADLOCK FALSE
SPECIFICATION FairSpec
INVARIANTS MemoryTypeOK SentOnce RevocationHolds ClosedTogether NothingLeftBehind
PROPERTIES OperationSettles TombstoneHonoured
