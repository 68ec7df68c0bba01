SPECIFICATION Spec
CONSTANTS
    Refs = {r1}
    Handlers = {h1, h2}
    Nobody = Nobody
    Models = {m1, m2}
    Operations = {"upload", "capture", "confirm", "delete", "remove", "build", "test", "start"}
    Stubborn <- SomeFiles
    MaxRequests = 3
    MaxCrashes = 1
INVARIANTS ProfileSound MatcherCurrent PhotographsKept OnlyInversionBlocks
SYMMETRY Alike
CHECK_DEADLOCK FALSE
