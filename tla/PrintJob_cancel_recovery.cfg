SPECIFICATION FairSpec
CONSTANTS
    Clients = {c1, c2}
    Commands = {"RESUME_INTERRUPTED", "CANCEL"}
    Events = {}
    FileLen = 2
    Chunk = 2
    MaxEnding = 2
CHECK_DEADLOCK FALSE
PROPERTIES
    CancelReturns
