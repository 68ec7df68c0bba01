SPECIFICATION Spec
CONSTANTS
    None = None
    Kinds = {"movement", "stationary", "occlusion"}
    OriginZone = {"origin", "origin side"}
    DestinationPlaces = {"destination"}
    OriginFrames = 2
    DestinationFrames = 2
    ExitFrames = 2
    TransitFrames = 1
    StableTicks = 1
    MaxGap = 2
    OcclusionTicks = 1
    AbortTicks = 2
    RunTicks = 8
    TrialTicks = 4
    Samples = 4
    PreTicks = 2
    PostTicks = 1
    RingCapacity = 3
    RingMax = 6
    MaxArm = 0
    MaxTime = 7
    MaxSession = 2
INVARIANTS EvidenceWhole
PROPERTIES TrialSound KeepsContract
CHECK_DEADLOCK FALSE
