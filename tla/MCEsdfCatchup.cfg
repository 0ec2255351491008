CONSTANTS
    Keys = {0, 9}
    Spacing = 2
    D0 = 5
    MaxBatches = 1
SPECIFICATION CatchupFairSpec
INVARIANTS
    MissingIsExplained
    EdtIsExact
    ViewersLackOnlyUnsent
PROPERTIES
    QueuedReachesField
