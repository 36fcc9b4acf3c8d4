SPECIFICATION Spec
CONSTANTS
    k1 = k1
    k2 = k2
    Keys = {k1, k2}
    MaxLength = 2
    MaxTime = 2
    Limits <- ThreeLimits
    SampleSize = 1
    Loaded <- Starts
    MaxOwed = 2
    NoKey = NoKey
INVARIANTS AccountingExact QueuedIsPublished
PROPERTIES  OnlyExpiredSwept
SYMMETRY Symmetry
