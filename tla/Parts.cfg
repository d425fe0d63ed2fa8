SPECIFICATION PartsSpec
CONSTANTS
    Callers = {1, 2}
    MaxJoins = 3
    MaxFailures = 1
    MaxAcquisitions = 2
    MaxFlips = 2
    SlotCount = 2
    NoWorker = NoWorker
    RespawnLimit = 2
    Window = 2
    MaxTicks = 3
    MaxRespawns = 3
    Sizes <- MCSizes
    MobileVideo <- MCMobileVideo
    DesktopVideo <- MCDesktopVideo
    Pointers <- MCPointers
    EdgeMargin = 1
    MobileBottom = 3
    MobileBelow = 10
    Lines <- MCLines
    MaxLines = 4
    Sending = {"audio", "video"}
    IvLength = 2
    TagLength = 2
    HeaderOf <- MCHeaderOf
    MaxPayload = 2
    PingInterval = 6
    PongTimeout = 18
    DeadDetection = 20
    MaxDelay = 1
INVARIANTS
    PartsTypeOK
    ConnectionsMatchCall
    Negotiated
    CandidatesApplied
    CameraReleased
    SentIsShown
    FacingIsActual
    NoWorkerForgotten
    EveryWorkerServes
    RespawnsLimited
    
    ParsedAsWritten
    NoSenderForgotten
    FramesSurvive
    DeathIsReal
CHECK_DEADLOCK FALSE
