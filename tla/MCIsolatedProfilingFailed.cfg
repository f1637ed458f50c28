CONSTANTS
    None = None
    Recipe <- ThreeRecipes
    TokenBudget = 5
    SetupTokens = 1
    MayStop = TRUE
    KvMayLack = FALSE
SPECIFICATION Spec
INVARIANTS FailedBatchIsSurvived
CHECK_DEADLOCK FALSE
