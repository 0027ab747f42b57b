SPECIFICATION LivenessSpec
CONSTANTS
    Parts <- AllParts
    DebounceCount = 1
    Debouncers = {1, 2}
    MaxCallbacks = 1
    CountMod = 6
    MaxReports = 2
    RetransmitCount = 1
    MaxMade = 3
    MaxMessages = 1
    Low = 2
    High = 3
    Lead = 1
    ReadyAfter = 1
    IdleAfter = 3
    Second = 2
    Late = 1
    Lengths = {1, 2}
    MaxAhead = 3
    MaxLosses = 2
    MaxFaults = 2
    MaxRequests = 1
    Automatic = TRUE
    LoadOnStart = TRUE
    Transition = TRUE
    Requests <- AllRequests
    MaxJobs = 1
    MaxTasks = 2
    Names = {was_interrupted}
    Inodes = {i1, i2, i3}
    NoInode = none
    QueueSize = 2
    Faults <- RestartFaults
    MaxSaves = 2
    MaxSessions = 2
PROPERTIES
    RunoutsHandled
    ReportsArrive
    PrintTimeRight
    SessionRight
    ConnectionRight
    QueueGoesOn
    OldThreadsEnd
CHECK_DEADLOCK FALSE
