SPECIFICATION Spec
CONSTANTS
    Callers = {a, b}
    Ops = {"start", "stop", "restart"}
    Browser = FALSE
    Timeouts = {"capture"}
    FailingSaves = {}
    MaxGen = 2
    None = None
SYMMETRY Symmetry
INVARIANTS OneSource Released NoJoinDeadlock
