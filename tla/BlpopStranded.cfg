SPECIFICATION FairSpec
CONSTANTS
    c1 = c1
    c2 = c2
    Clients = {c1, c2}
    PushSizes <- OneElement
    MaxPushes = 2
PROPERTY NeverStranded
