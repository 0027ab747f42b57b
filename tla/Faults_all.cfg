SPECIFICATION FaultsSpec
CONSTANTS
    Names = {was_interrupted, file_position}
    Inodes = {i1, i2, i3}
    NoInode = none
    QueueSize = 2
    Faults = {"power", "write_fails"}
    MaxSaves = 3
    MaxSessions = 1
    CountMod = 6
    MaxReports = 2
    RetransmitCount = 1
    MaxMade = 7
    MaxMessages = 2
    Mcus = {1, 2}
    ExpireTicks = 2
    ReportTicks = 1
    MinExtend = 1
    RestTicks = 3
    SampleCount = 2
    MoveEnd = 4
    Lossy = FALSE
    LastTick = 4
    MaxLine = 1
    Powers = {0, 1, 2, 4}
    Significant = 2
    PwmDelay = 1
    RefreshTime = 3
    MaxDuration = 7
    RangeChecks = 2
    CommandDelay = 1
    MaxLost = 1
    LastReport = 10
    Hysteresis = 1
    MaxError = 5
    HeatingGain = 2
    CheckGainTime = 3
    Targets = {0, 4, 8}
    MaxTemp = 10
    MaxLag = 2
    Files = {f1}
    NoFile = nofile
    MaxStored = 2
    MaxPrints = 3
    MaxPeriods = 2
    MaxEvents = 1
INVARIANTS
    NothingLost
    MemoryNewest
    ChangesTaken
    HomingRight
    HeaterSafe
    VerdictRight
    HistoryRight
    ListComplete
CHECK_DEADLOCK FALSE
