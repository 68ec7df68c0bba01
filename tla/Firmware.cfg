SPECIFICATION Spec
CONSTANTS
    Modes = {"REAL", "DEMO"}
    Slots = {s1, s2}
    Cable = Cable
    Nobody = Nobody
    MaxCode = 2
    MaxIp = 2
    Incidents = {"reboot", "factory_reset", "giveup", "power", "crash", "address", "silence", "revoke"}
    MaxIncidents = 1
    MaxBusy = 2
INVARIANTS CredentialsAgree CommandOnce
CHECK_DEADLOCK FALSE
