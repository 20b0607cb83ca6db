CONSTANTS
    Threads <- MCOneThread
    TraceTids <- MCOneTraceTid
    TraceTid <- MCOneTraceMap
    Tids <- MCOneThread
    Other = other
    Stacks = {s1}
    NoStack = nostack
    None = none
    NoRecord = norecord
    Links <- MCNoLinks
    Ids <- MCIds
    Functions = {1}
    StackFrames <- MCStackFrames
    States = {"OnCpu", "OffCpu"}
    ActiveCapacity = 1
    RingCapacity = 1
    SamplePeriod = 1
    Ticks = {0, 1}
    MaxClock = 3
    MaxCalls = 2
    MaxDepth = 2
    Exits = FALSE
    Detaches = TRUE
    Function = 1
    Targets = {"held"}
    Stoppable = FALSE
    LeaderMayExit = FALSE
    Failing = FALSE
SPECIFICATION CaptureSpec
INVARIANTS
    DropNeverConcealed
CHECK_DEADLOCK FALSE
