CONSTANTS
    NaN = NaN
    Mic = Mic
    Web1 = Web1
    Web2 = Web2
    Idle = Idle
    Callers <- Microphone
    ThreadOf <- OnThreads
    Texts <- MCFewTexts
    MaxMemory = 2
    MaxCommands = 2
    MayFail = TRUE
    Lacking <- Complete
SPECIFICATION VoiceSpec
PROPERTY AsleepUntilTold
