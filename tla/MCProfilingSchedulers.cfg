CONSTANTS
    r1 = r1
    r2 = r2
    r3 = r3
    None = None
    Requests <- ThreeRequests
    Prompt <- Prompts
    Arrival <- Arrivals
    BlockSize = 2
    TotalBlocks = 3
    TokenBudget = 4
    SequenceBudget = 2
    MinChunk = 2
    RollingHorizon = 0
    ReserveBlocks = 0
    Schedulers = {"stock", "targeted", "evaluation"}
    Recipes <- MixedFirst
    Window = 2
    MaxOutput = 2
    MaxAborts = 1
    TimingFaults = TRUE
SPECIFICATION Spec
INVARIANTS RowsAreTheirIterations PredictedFromPriorRows RecipesInOrder StagesAgree
CHECK_DEADLOCK FALSE
