CONSTANTS
    Ops = {o1, o2}
    Policy = "always"
    Faults <- SurvivableFaults
    Torn = Torn
    MaxCrashes = 2
    MaxStops = 1
    MaxRewrites = 2
SPECIFICATION Spec
CHECK_DEADLOCK FALSE
SYMMETRY Symmetry
INVARIANTS
    TypeOK
    NoAckedWriteLost
