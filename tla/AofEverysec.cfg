CONSTANTS
    Ops = {o1, o2}
    Policy = "everysec"
    Faults <- EverysecFaults
    Torn = Torn
    MaxCrashes = 1
    MaxStops = 1
    MaxRewrites = 1
SPECIFICATION FairSpec
CHECK_DEADLOCK FALSE
PROPERTIES
    EverysecWindow
    CloseKeepsAcked
    EventuallySynced
    RewriteEnds
