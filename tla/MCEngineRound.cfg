CONSTANTS
    r1 = r1
    r2 = r2
    r3 = r3
    None = None
    Requests <- ThreeRequests
    Prompt <- LongPrompts
    Arrival <- Arrivals
    BlockSize = 2
    TotalBlocks = 4
    TokenBudget = 4
    SequenceBudget = 2
    MinChunk = 2
    RollingHorizon = 0
    ReserveBlocks = 0
    MaxOutput = 3
    MaxAborts = 1
    SelectionModes = {"normal", "forced_stock_plan"}
SPECIFICATION FairSpec
INVARIANTS TypeOK PlansAreAllocatable FeedbackIsAccepted LedgerMirrorsQueues DebtsCoverSnapshot KvIsAccounted WorkloadAlwaysProgresses
PROPERTIES EveryRequestEnds

