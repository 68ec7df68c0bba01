SPECIFICATION Spec
CONSTANTS
    None = None
    e1 = e1
    e2 = e2
    e3 = e3
    Movements = {e1, e2, e3}
    Corrections = {c1}
    Placed = {e1}
    Accepted = {e1}
    Blobs = {b1, b2, b3, b4}
    MaxTime = 2
    KeepN = 1
    Policy = "BALANCED"
    LatestKept = 1
    Pinnable = {e1}
    CorrectedAt = {2}
    MaxFaults = 1
    At <- Windows
SYMMETRY Symmetry
INVARIANTS FilesBacked RowsLinked MediaAccounted
PROPERTIES ProtectedSurvive NoRewind HistoryBounded
