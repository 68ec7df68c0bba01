SPECIFICATION FairSpec
CONSTANTS
    Callers = {a, b}
    Ops = {"acquire", "stop", "restart"}
    Browser = TRUE
    Timeouts = {"capture", "vision"}
    FailingSaves = {"look", "seal", "drop"}
    MaxGen = 1
    None = None
INVARIANTS LateEvidence
PROPERTIES Returns
CHECK_DEADLOCK FALSE
