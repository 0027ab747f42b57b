SPECIFICATION Spec
CONSTANTS
    Clients = {c1, c2}
    Commands <- AllCommands
    Events <- AllEvents
    FileLen = 2
    Chunk = 2
    MaxEnding = 1
SYMMETRY Symmetry
CHECK_DEADLOCK FALSE
INVARIANTS
    WorkerRight
