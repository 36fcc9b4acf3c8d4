SPECIFICATION FairSpec
CONSTANTS
    c1 = c1
    c2 = c2
    a = a
    b = b
    Clients = {c1, c2}
    Keys = {a, b}
    Shards = {1, 2}
    Sweeper = Sweeper
    Rewriter = Rewriter
    Reader = Reader
    None = None
    Casts <- Cast
    MaxTime = 2
INVARIANTS  AnnouncedIsDurable
PROPERTIES ChangesUnderLock EveryRunEnds
CHECK_DEADLOCK FALSE
