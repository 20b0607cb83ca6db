SPECIFICATION LaunchSpec
INVARIANTS
    OutputOldOrWhole
    
    HeldWhileAttaching
    AttachedIsNotSignalled
    FailureFreesTarget
PROPERTIES
    
    CommandEnds
CHECK_DEADLOCK FALSE
