CONSTANTS
    Ids = {1, 2}
    Tids = {1, 2}
    Functions = {1}
    StackFrames = {stack}
    States = {oncpu}
    NoRecord = norecord
    MaxTime = 2
    MaxPushes = 5
SPECIFICATION MCSpec
INVARIANTS
    CorrTypeOK
    PopulationIsWellBracketed
    SamplesAreThoseInside
    QualityAccounts
    LocalSamplesOwned
CHECK_DEADLOCK FALSE
