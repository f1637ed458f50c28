CONSTANTS
    None = None
    Recipe <- ThreeRecipes
    TokenBudget = 5
    SetupTokens = 1
    MayStop = TRUE
    KvMayLack = TRUE
SPECIFICATION FairSpec
INVARIANTS RecipesNeverMix MatrixIsOrdered MeasuredOrFailed
PROPERTIES EveryRecipeMeasured
CHECK_DEADLOCK FALSE
