SPECIFICATION PortsSpec
CONSTANTS
    Sinks = {"mavlink", "bridge", "airsim", "null", "gimbal"}
    Endpoints <- MCEndpoints
    Targets = 2
    Pitches = {0, 1, 2, 4}
    Deadband = 2
    Resend = 2
    MaxRequests = 4
    Absent = Absent
    Cameras <- MCCameras
    CameraConfigs <- MCCameraConfigs
    FrameCameras = {"side", ""}
    Elevations <- MCElevations
    BehaviorModes = {"", "neutral", "none"}
    PitchSign <- MCSign
    PitchOffset = 1
    PitchMin = 1
    PitchMax = 4
    MaxCommands = 3
    Fds = {f}
    QueueDepth = 2
    Size <- MCSizes
    FirstLine <- MCFirstLine
    MaxTail = 2
    ReplayFrames = 1
    YamlLines <- MCYamlLines
    MaxYamlLines = 4
    JsonTokens <- MCJsonTokens
    MaxJsonTokens = 6
    Documents <- MCDocuments
CHECK_DEADLOCK FALSE
INVARIANTS
    SinkOrder
    BrowsersParse
    
    PointingIsCoherent
PROPERTIES
    CallsAreHonoured
    ViewerGoesOn
