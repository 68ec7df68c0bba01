SPECIFICATION Spec
CONSTANTS
    None = None
    Ids = {h1, h2, h3}
    Places = {0, 1}
    HandPlaces = {0, 1, 3}
    MaxHands = 2
    MaxFrame = 12
    MaxGap = 1
    TrackFrames = 2
    MatchDistance = 2
    MatchMargin = 1
    Near = 0
    Separation = 2
    MotionFrames = 2
    MotionSeconds = 2
    MotionDistance = 1
    MinStep = 1
    VectorError = 0
    Drift = 0
    ReleaseFrames = 2
    ReleaseSeconds = 2
    SeparationSeconds = 1
    Valid = 3
    Speed = 1
    Jitter = 0
    Rise = 1
INVARIANT ReleaseSound
PROPERTY HoldKept
CHECK_DEADLOCK FALSE
