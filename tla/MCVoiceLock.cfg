CONSTANTS
    NaN = NaN
    Mic = Mic
    Web1 = Web1
    Web2 = Web2
    Idle = Idle
    Callers <- MicAndWeb
    ThreadOf <- OnThreads
    Texts <- MCFewTexts
    MaxMemory = 2
    MaxCommands = 3
    MayFail = FALSE
    Lacking <- Complete
SPECIFICATION VoiceSpec
PROPERTY NeverWalksFromSleep
