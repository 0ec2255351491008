CONSTANTS
    Heights = {0, 1}
    LandHeight = 0
    AssistHeight = 1
    SafeHeight = 1
    ArmTimeout = 1
    ArmRetry = 0
    ArmFallback = 0
    LandTimeout = 1
    DisarmTimeout = 1
    DisarmRetry = 0
    TrajectoryDuration = 1
    AgeCap = 1
    MaxDt = 1
    MaxHeight = 1
    MaxOverruns = 2
    ShutdownBudget = 1
    MaxFrames = 0
SPECIFICATION RuntimeSpec
INVARIANT CompleteMeansDisarmed
