SPECIFICATION Spec
CONSTANTS
    Automatic = TRUE
    LoadOnStart = FALSE
    Transition = TRUE
    Requests <- PauseStart
    MaxJobs = 2
    MaxTasks = 2
PROPERTIES PausedQueueStays
