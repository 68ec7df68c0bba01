SPECIFICATION Spec
CONSTANTS
    Handlers = {h1, h2}
    Nobody = Nobody
    Operations = {"propose", "draft", "save", "look", "patch", "zone", "start", "stop", "remove"}
    MaxRequests = 4
    MaxSessions = 3
    MaxCrashes = 1
INVARIANTS CreditSound ImagesSound
PROPERTIES DeletionFinal
SYMMETRY Alike
CHECK_DEADLOCK FALSE
