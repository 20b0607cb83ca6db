CONSTANTS
    Threads <- MCThreads
    TraceTids <- MCTraceTids
    TraceTid <- MCTraceMap
    Tids <- MCThreads
    Other = other
    Stacks = {s1}
    NoStack = nostack
    None = none
    NoRecord = norecord
    Links <- MCNoLinks
    Ids <- MCIds
    Functions = {1}
    StackFrames <- MCStackFrames
    States = {"OnCpu", "OffCpu"}
    ActiveCapacity = 2
    RingCapacity = 2
    SamplePeriod = 1
    Ticks = {0, 1}
    MaxClock = 3
    MaxCalls = 2
    MaxDepth = 2
    Exits = TRUE
    Detaches = TRUE
    Function = 1
    Targets = {"held"}
    Stoppable = FALSE
    LeaderMayExit = FALSE
    Failing = FALSE
SPECIFICATION CaptureSpec
INVARIANTS
    ProfileValidates
    ValidIsOneCall
    OffCpuTimeIsItsOwn
    CleanCallIsValid
CHECK_DEADLOCK FALSE
