SPECIFICATION PersistenceSpec
CONSTANTS
    Keys = {0}
    Positions = {0, 5, 9}
    Horizon = 4
    ObservedRange = 4
    MaxOdds = 2
    EvictOdds = 0
    MinOdds = 0
    OccupiedSteps = {1}
    FreeSteps = {1, 3}
    None = None
    ArtifactEvery = 2
    MaxCells = 1
    MaxMapUpdates = 3
    MaxRuns = 2
    StatsWindow = 2
    Durations = {0, 1, 2}
    MaxStages = 1
    MaxFrames = 3
INVARIANTS
    NothingUpdatedIsLost
    CloseFlushesEverything
    ArtifactsAreSound
    ProfileIsComplete
PROPERTIES
    EvictionReachesTable
