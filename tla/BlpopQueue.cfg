SPECIFICATION FairSpec
CONSTANTS
    c1 = c1
    c2 = c2
    c3 = c3
    Clients = {c1, c2, c3}
    PushSizes <- OneOrTwoElements
    MaxPushes = 2
INVARIANT NoDeadWaiter
 
