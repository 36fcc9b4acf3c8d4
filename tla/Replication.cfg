CONSTANTS
    c1 = c1
    c2 = c2
    r1 = r1
    r2 = r2
    r3 = r3
    r4 = r4
    Clients = {c1, c2}
    Replicas = {r1, r2, r3, r4}
    Needs = {1, 2}
    Passwords <- Configured
    Protected = TRUE
    Starts <- Casts
    MaxBreaks = 1
SPECIFICATION Spec
INVARIANTS
    ResyncFirst
    
    
    NoMissedAck
CHECK_DEADLOCK FALSE
