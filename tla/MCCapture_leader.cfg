CONSTANTS
    Threads <- MCOneThread
    TraceTids <- MCOneTraceTid
    TraceTid <- MCOneTraceMap
    Tids <- MCOneThread
    Other = other
    Stacks = {s1}
    NoStack = nostack
    None = none
    NoRecord = norecord
    Links <- MCNoLinks
    Ids <- MCIds
    Functions = {1}
    StackFrames <- MCStackFrames
    States = {"OnCpu", "OffCpu"}
    ActiveCapacity = 1
    RingCapacity = 2
    SamplePeriod = 1
    Ticks = {0, 1}
    MaxClock = 1
    MaxCalls = 1
    MaxDepth = 2
    Exits = FALSE
    Detaches = TRUE
    Function = 1
    Targets = {"held"}
    Stoppable = FALSE
    LeaderMayExit = TRUE
    Failing = FALSE
SPECIFICATION CaptureSpec
INVARIANTS
    CollectsUntilExitOrStop
CHECK_DEADLOCK FALSE
