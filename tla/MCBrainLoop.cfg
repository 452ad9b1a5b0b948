CONSTANTS
    NaN = NaN
    Web1 = Web1
    Web2 = Web2
    Idle = Idle
    Callers <- TwoRequests
    ThreadOf <- OneLoop
    Texts <- MCFewTexts
    MaxMemory = 2
    MaxCommands = 4
    MayFail = TRUE
    Lacking <- Complete
SPECIFICATION FairSpec
INVARIANTS TypeOK MemoryIsLatest
PROPERTY Served
