SPECIFICATION Spec
CONSTANTS
    a = a
    b = b
    Requests = {a, b}
    Prompt <- MCPrompt
    TtftSlo <- MCTtftSlo
    TbtSlo <- MCTbtSlo
    Durations = {1, 3}
    MaxOutput = 3
    MayReuse = FALSE
    MayRedeliver = TRUE
    MaximumNumeric = 3
    MaxTime = 6
CHECK_DEADLOCK FALSE
INVARIANTS
    RefusesOnlyDuplicates
    DebtIsChargedLateness
