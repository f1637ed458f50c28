SPECIFICATION Spec
CONSTANTS
    Batches <- MCBatches
    Ridge <- MCRidge
    Segments <- MCSegments
    Calibration <- MCCalibration
    TrimPercent = 34
    UpperPercent = 60
    KappaOod = 1
    Noises <- MCNoises
    MayBypass = TRUE
    MaxAhead = 1
    None = None
INVARIANTS
    FeedbackIsLearned
    ConservativeCovers
    ResidualsAreOfTheirKind
    ExtrapolationIsMonotone
