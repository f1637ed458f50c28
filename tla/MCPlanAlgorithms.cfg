CONSTANTS
    r1 = r1
    r2 = r2
    r3 = r3
    r4 = r4
    Unset = Unset
    Requests <- FourRequests
    Prompt <- Prompts
    Arrival <- Arrivals
    BlockSize = 2
    TotalBlocks = 6
    TokenBudget = 6
    SequenceBudget = 3
    MinChunk = 2
    RollingHorizon = 0
    ReserveBlocks = 0
    Grid <- Budgets3
    SafetyMargin = 1
    AllowPartial = TRUE
    RecipeSnapshots <- SomeQueues
    AskedRecipes <- RecipeFamily
    FrameSnapshots <- SixSnapshots
    Slacks <- Within
    Answers <- FourAnswers
    Frames = 2
SPECIFICATION QuerySpec
INVARIANTS TargetsAreRight BudgetsAreRight CloserNeverMore
CHECK_DEADLOCK FALSE
