SPECIFICATION DataSpec
CONSTANTS
    Members = {1, 2, 3, 4}
    MaxLevel = 2
    IntOf <- MCIntOf
    TextOf <- MCTextOf
    IntSetMax = 2
    HashMax = 2
    HashMaxLen = 2
    ZSetMax = 2
    LongMembers = {4}
    Puts <- MCPuts
    Takes <- MCTakes
    MaxMillis = 2
    SeqMax = 2
    MaxEntries = 4
    Recorders = {r1, r2}
    Capacity = 2
    MaxRecords = 5
    Wires = {"pipeline", "lines", "nested", "long", "no CR", "no end", "deep",
             "range", "huge", "negative"}
    Sent <- MCSent
    Trailing <- MCTrailing
    IntMax = 99
    MaxReadBuffer = 30
    MaxElements = 90
    MaxDepth = 2
    Strings = {"empty", "one", "max6", "min14", "max14", "min32"}
    LengthOf <- MCLengthOf
    OldKeys <- MCOldKeys
    NewKeys <- MCNewKeys
    MaxNow = 3
INVARIANTS
    ReadsAgree SkipListSound
    ReadersMissNothing
    NewestFirst
    
    SnapshotIsWhole
PROPERTIES IsCollection
CHECK_DEADLOCK FALSE
