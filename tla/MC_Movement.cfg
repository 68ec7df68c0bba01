SPECIFICATION Spec
CONSTANTS
    za = za
    zb = zb
    Positions <- TagPositions
    Inputs <- AllInputs
    Zones = {za, zb}
    NoZone = NoZone
    Modes = {"aruco", "experimental"}
    None = None
    MinDetectionFrames = 2
    MinStableFrames = 2
    MinStableTime = 1
    MaxFrameGap = 1
    MinMove = 2
    SameZoneMove = 3
    Jitter = 1
    OccludedTime = 1
    LostTime = 2
    MaxStream = 1
    MaxFrame <- Frames
PROPERTIES EvidenceUnbroken MovementWitnessed WindowsDisjoint SightingSound
