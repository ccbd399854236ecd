SPECIFICATION FairSpec
CHECK_DEADLOCK FALSE
CONSTANTS
    e = e
    f = f
    t = t
    Caller <- Callers
    MaxRestarts = 1
    MaxRetries = 1
    Plans <- MCPlans
INVARIANTS ServerSafe ContentSafe
PROPERTIES CallsEnd
