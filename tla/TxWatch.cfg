SPECIFICATION Spec
CONSTANTS
    c1 = c1
    c2 = c2
    k1 = k1
    k2 = k2
    Clients = {c1, c2}
    Keys = {k1, k2}
    Commands <- DelAndWait
    MaxWrites = 2
    MaxQueue = 2
SYMMETRY Symmetry
 
PROPERTY AbortsAfterWrite
CHECK_DEADLOCK FALSE
