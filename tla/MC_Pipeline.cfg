SPECIFICATION Spec
CONSTANTS
    None = None
    QueueSize = 1
    RingCapacity = 2
    RingMax = 4
    MaxGap = 1
    PostRoll = 1
    MaxPending = 1
    MediaSlots = 1
    MaxSession = 2
    MaxTime = 4
    MaxEdits = 1
    MaxReloads = 1
    MaxDisturbances = 3
CONSTRAINT FewDisturbances
INVARIANTS EvidenceUnbroken UnderWay
PROPERTIES CommittedCurrent SealedWhenStopped
CHECK_DEADLOCK FALSE
