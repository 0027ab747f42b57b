SPECIFICATION Spec
CONSTANTS
    Names = {was_interrupted, file_position}
    Inodes = {i1, i2, i3, i4}
    NoInode = none
    QueueSize = 2
    Faults = {"restart"}
    MaxSaves = 3
    MaxSessions = 2
SYMMETRY Symmetry
CHECK_DEADLOCK FALSE
INVARIANTS
    NothingLost
