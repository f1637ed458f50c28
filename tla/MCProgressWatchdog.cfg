CONSTANTS
    MaxRecords = 2
    ZeroProgressLimit = 2
    MaxTokens = 1
    MaxIterations = 5
SPECIFICATION WatchdogSpec
INVARIANTS DiagnosisIsExact
CHECK_DEADLOCK FALSE
