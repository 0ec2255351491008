SPECIFICATION CoreSpec
CONSTANTS
    Files = {"site", "mission", "base"}
    Paths <- MCPaths
    Layouts <- MCLayouts
    Keys = {"bridge_mode", "ego_provider", "ego_provider_eval"}
    ValuesOf <- MCValues
    Defaults <- MCDefaults
    EvalKeys = {"ego_provider_eval"}
    EnvKeys = {"ego_provider"}
    MaxLines = 1
    Resolvable <- MCResolvable
    None = None
    BinaryParts = 2
    MaxFrames = 3
    MaxFeatures = 1
    MinFeatures = 2
    StepFeatures = 2
    FoeFeatures = 2
    RelocDrift = 0
    FallbackDrift = 1
    Scales = {1, 7}
    MaxDrift = 2
INVARIANTS
    LaterSourceWins
    FrameStreamIsSound
    EgoStaysBounded
PROPERTIES
    ProgramGoesOn
