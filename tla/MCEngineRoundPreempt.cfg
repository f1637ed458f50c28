CONSTANTS
    r1 = r1
    r2 = r2
    r3 = r3
    None = None
    Requests <- TwoRequests
    Prompt <- LongPrompts
    Arrival <- Arrivals
    BlockSize = 2
    TotalBlocks = 4
    TokenBudget = 3
    SequenceBudget = 2
    MinChunk = 2
    RollingHorizon = 0
    ReserveBlocks = 0
    MaxOutput = 3
    MaxAborts = 1
    SelectionModes = {"normal"}
SPECIFICATION Spec
INVARIANTS PreemptionIsSurvived
CHECK_DEADLOCK FALSE
