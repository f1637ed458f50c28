CONSTANTS
    d1 = d1
    d2 = d2
    Plans = {1, 2, 3, 4}
    Template <- StockZeroFractions
    Decodes <- TwoDecodes
    Predictions <- ShortAndLong
    MaxSafe = 3
    Slacks = {1, 2}
    MaxPrefill = 3
    Limit = 0
    RelTol = 10
    AbsTol = 35
    MaxAltered = 2
SPECIFICATION RSpec
INVARIANTS ZeroNeverBeatsPrefill EndsAsAssumed SelectedKeepsDeadlines RankedWithinTolerance ReplayIsExact OfflineAgrees
SYMMETRY Symmetry
CHECK_DEADLOCK FALSE
