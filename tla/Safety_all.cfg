SPECIFICATION SafetySpec
CONSTANTS
    EOffset = 1
    Gravities <- TwoGravities
    RecordSize = 3
    LineMoves <- Lines
    Sizes = {2}
    MaxLines = 4
    ReactorTimers = {11}
    Greenlets = {1, 2}
    LastTime = 1
    Deltas = {4, 8}
    Smooths = {4}
    Cruises = {4, 16}
    Junctions = {0, 2, 12}
    MaxMoves = 4
    Silent <- SilentLimits
    Configured <- ConfiguredLimits
    Values = {1, 3}
    Feeds = {4, 8}
    Pace = 3
    Factors = {1, 2}
    FullFactor = 2
    SilentFactor = 1
    MaxChanges = 5
    Places = {0, 2, 3}
    Flows = {1, 2}
    MaxCommands = 6
    Objects = {"gcode_move", "extruder"}
    Listeners = {"screen", "web"}
    MaxValue = 1
    Automatic = TRUE
    LoadOnStart = TRUE
    Transition = TRUE
    Requests <- AllRequests
    MaxJobs = 2
    MaxTasks = 2
    Users = {"stepper", "endstop"}
    Wrap = 20
    Period = 3
    Ahead = 1
    Latency = 1
    Defer = 1
    TooLate = 1
    Motors = {1, 2}
    QueueSize = 1
    McuWrap = 18
    PosWrap = 20
    DiffMax = 3
    Filter = 2
    ReqDelta = 1
    Lead = 3
    BatchTime = 2
    FlushDelay = 1
    Directions <- ForwardAndBack
    MaxMade = 3
    StartClock = 13
    MaxClock = 18
    PrintObjects = {1, 2}
    NoObject = 0
    Height <- Heights
    InitialMoves = 2
    StartDiff = 2
    MaxExtruded = 7
    MaxPlaces = 11
    MaxExcludes = 3
INVARIANTS
    QueueRight
    NobodyForgotten
    PlanPossible
    ExtruderAgreed
    StatusRight
    TimersRight
PROPERTIES
    PrintedAgainRight
    ImplementsFifo
    SpeedAsAsked
    MotionRight
    OthersPrinted
CHECK_DEADLOCK FALSE
