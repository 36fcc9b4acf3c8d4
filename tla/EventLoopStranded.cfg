CONSTANTS
    a = a
    b = b
    Conns = {a, b}
    Kinds = {"cmd", "big", "quiet", "bad", "fatal"}
    None = None
    Push = Push
    HighWater = 1
    MaxOutput = 2
    MaxClients = 1
    Budgets <- Pipelines
SPECIFICATION Spec
INVARIANTS
    PausedRequestsResume
CHECK_DEADLOCK FALSE
