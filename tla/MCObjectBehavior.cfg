CONSTANTS
    Heights = {0, 3}
    LandHeight = 0
    AssistHeight = 2
    SafeHeight = 3
    ArmTimeout = 1
    ArmRetry = 1
    ArmFallback = 1
    LandTimeout = 1
    DisarmTimeout = 2
    DisarmRetry = 1
    AgeCap = 2
    MaxDt = 1
    Steps <- MCSteps
    IsSequence = TRUE
    CompletionAfter = 2
    Agents = {a1, a2}
    Persistent = TRUE
    ReacquireTimeout = 0
    MaxStale = 1
    MaxTurn = 1
    OrbitCap = 1
    NoTarget = NoTarget
SPECIFICATION ObjectFairSpec
INVARIANTS
    FinishStopsBehavior
    SequenceIsFlown
PROPERTIES
    FinishEndsBehavior
