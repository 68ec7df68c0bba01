SPECIFICATION Spec
CONSTANTS
    None = None
    r = r
    s = s
    Requests = {r, s}
    OpsOf <- Roles
    Kinds = {"movement", "stationary", "disconnect_reconnect"}
    MaxRuns = 1
    Spared = 0
    MaxGen = 2
    MaxFaults = 1
INVARIANTS SuiteSound RunOwned
PROPERTIES OutcomeEarned
CHECK_DEADLOCK FALSE
