SPECIFICATION PartsSpec
CONSTANTS
    Detectable <- MCDetectable
    Tracks <- MCTracks
    Exact <- MCExact
    Lines <- MCLines
    Scenario <- MCScenario
    Patterns <- MCPatterns
    Classes <- MCClasses
    MaxObjects = 2
    Places = {0, 2, 5}
    Speeds = {0, 5}
    MinSpeed = 2
    Samples = 2
    Rear = 1
    Forward = 8
    Splat = 1
    Inflation = 1
    Cadence = 2
    MaxFrames = 3
    CellCount = 3
    Origins = {0, 2}
    MaxUpdates = 3
    MaxTime = 3
    MaxItems = 1
    StaleAfter = 1
    Radius = 1
    Occupied = 2
    Spread <- MCSpread
    Free = 2
    MaxOdds = 4
    MaxHits = 1
    CrossChecks = 1
    Sweep = 1
    MaxPending = 2
    BackgroundLimit = 1
    HighPriorityLimit = 1
    FlushTicks = 1
    WriteEvery = 2
    None = None
INVARIANTS
    WorldIsCoherent
    ClearPathIsClear
    DerivedFieldsAreKept
    EvidenceSurvives
    ForgettingIsSafe
