CONSTANTS
    r1 = r1
    r2 = r2
    e1 = e1
    e2 = e2
    e3 = e3
    e4 = e4
    None = None
    Requests <- OneRequest
    Events <- FourEvents
    Reasons <- EosAndAbort
    TtftSlo = 2
    TbtSlo = 1
    MaxTime = 4
    ReuseIds = TRUE
SPECIFICATION Spec
INVARIANTS RaisedOnlyOnRedelivery
CHECK_DEADLOCK FALSE
