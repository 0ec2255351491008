CONSTANTS
    Keys = {0, 9}
    Spacing = 2
    D0 = 5
    MaxBatches = 2
SPECIFICATION CatchupSpec
INVARIANT MissingIsQueued
