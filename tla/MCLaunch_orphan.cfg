SPECIFICATION LaunchSpec
INVARIANTS
    NeverLeftHeld
CHECK_DEADLOCK FALSE
