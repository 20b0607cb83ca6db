CONSTANTS
    Threads <- MCOneThread
    TraceTids <- MCOneTraceTid
    TraceTid <- MCOneTraceMap
    Tids <- MCOneThread
    Other = other
    Stacks = {s1}
    NoStack = nostack
    None = none
    NoRecord = norecord
    Links <- MCNoLinks
    Ids <- MCIds
    Functions = {1}
    StackFrames <- MCStackFrames
    States = {"OnCpu", "OffCpu"}
    ActiveCapacity = 1
    RingCapacity = 2
    SamplePeriod = 1
    Ticks = {0, 1}
    MaxClock = 1
    MaxCalls = 2
    MaxDepth = 2
    Exits = TRUE
    Detaches = TRUE
    Function = 1
    Targets = {"held", "running"}
    Stoppable = TRUE
    LeaderMayExit = TRUE
    Failing = TRUE
SPECIFICATION CaptureSpec
INVARIANTS
    ProfileValidates
    ValidIsOneCall
PROPERTIES
    CaptureEnds
CHECK_DEADLOCK FALSE
