SPECIFICATION Spec
CONSTANTS
    Jobs = {j1, j2}
    Listener = Listener
    Admin = Admin
    Nobody = Nobody
    Versions = {v1}
    MaxRev = 2
    MaxCrashes = 1
INVARIANTS RecordsTrue LeaseCovers
PROPERTIES WritesAuthorized LeaseReleased
CHECK_DEADLOCK FALSE
