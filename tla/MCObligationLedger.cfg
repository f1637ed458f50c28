CONSTANTS
    r1 = r1
    r2 = r2
    e1 = e1
    e2 = e2
    e3 = e3
    e4 = e4
    None = None
    Requests <- TwoRequests
    Events <- FourEvents
    Reasons <- EosAndAbort
    TtftSlo = 2
    TbtSlo = 1
    MaxTime = 4
    ReuseIds = FALSE
SPECIFICATION FairSpec
INVARIANTS TypeOK NeverRaises SettledOnce GoodputIsFirstMiss EventsConserved
PROPERTIES RecoveryIsSticky ImplementsContract EveryDeadlineSettles
