CONSTANTS
    t1 = t1
    t2 = t2
    x1 = x1
    x2 = x2
    Threads <- MCThreads
    TraceTids <- MCTraceTids
    TraceTid <- MCTraceTid
    Other = other
    Stacks = {s1}
    NoStack = nostack
    None = none
    Links <- MCNoLinks
    ActiveCapacity = 2
    RingCapacity = 1
    SamplePeriod = 1
    Ticks = {0, 1}
    MaxClock = 2
    MaxCalls = 2
    MaxDepth = 2
    Exits = TRUE
    Detaches = TRUE
SPECIFICATION BpfSpec
INVARIANTS
    
    OneOwnerPerId
PROPERTIES
    InvocationsAreExclusive
SYMMETRY MCSymmetry
CHECK_DEADLOCK FALSE
