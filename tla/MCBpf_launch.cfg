CONSTANTS
    t1 = t1
    t2 = t2
    x1 = x1
    x2 = x2
    Threads <- MCThreads
    TraceTids <- MCTraceTids
    TraceTid <- MCTraceTid
    Other = other
    Stacks = {s1}
    NoStack = nostack
    None = none
    Links <- MCAllLinks
    ActiveCapacity = 1
    RingCapacity = 3
    SamplePeriod = 1
    Ticks = {0, 1}
    MaxClock = 3
    MaxCalls = 2
    MaxDepth = 2
    Exits = FALSE
    Detaches = FALSE
SPECIFICATION BpfSpec
INVARIANTS
    BpfTypeOK
    
    NoActiveLeak
    OffcpuInsideInvocation
    MismatchIsReported
    InvocationsDoNotOverlap
SYMMETRY MCSymmetry
CHECK_DEADLOCK FALSE
