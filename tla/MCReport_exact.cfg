CONSTANTS
    Files <- MCFiles
    ViewArgs <- MCViewArgs
    Metrics = {"Wall", "Cpu", "OffCpu"}
    Elves <- MCElves
    Names = {"f", "g"}
    Hosts <- MCHosts
    FunctionName <- MCFunctionName
    NoFunction = 0
    Units <- MCUnits
    Word = 64
    Grain = 24
    Places = {0, 1, 2}
    TimeEntries = {0, 8, 90}
    PercentEntries = {0, 50, 100}
    Buckets = {0, 3}
    MaxEvents = 4
SPECIFICATION ViewerSpec
INVARIANTS
    ExactPercentiles
CHECK_DEADLOCK FALSE
