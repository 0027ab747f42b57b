SPECIFICATION FairSpec
CONSTANTS
    Clients = {c1, c2}
    Commands <- UICommands
    Events <- UIEvents
    FileLen = 2
    Chunk = 2
    MaxEnding = 2
INVARIANTS
    Recoverable
    NoInternalError
PROPERTIES
    PauseHolds
    ImplementsContract
    CommandsReturn
