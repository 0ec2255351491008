CONSTANTS
    Heights = {0, 2, 3}
    LandHeight = 0
    AssistHeight = 2
    SafeHeight = 3
    ArmTimeout = 3
    ArmRetry = 2
    ArmFallback = 1
    LandTimeout = 2
    DisarmTimeout = 3
    DisarmRetry = 2
    TrajectoryDuration = 2
    AgeCap = 3
    MaxDt = 2
SPECIFICATION ControllerFairSpec
INVARIANTS
    AbortRecoveryEndsInAbort
    FinishStopsClimb
    NoPhaseOutlivesItsTimeout
PROPERTIES
    KeepsProtocol
    TimedPhasesEnd
