CONSTANTS
    a = a
    b = b
    Conns = {a, b}
    Kinds = {"cmd", "big", "quiet", "bad", "fatal"}
    None = None
    Push = Push
    HighWater = 1
    MaxOutput = 2
    MaxClients = 1
    Budgets <- Budgeted
SPECIFICATION FairSpec
INVARIANTS
    Backpressure
    NoLostPush
PROPERTIES
    KeepsReplyOrder
    
    
    StopEnds
CHECK_DEADLOCK FALSE
