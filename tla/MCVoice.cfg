CONSTANTS
    NaN = NaN
    Mic = Mic
    Web1 = Web1
    Web2 = Web2
    Idle = Idle
    Callers <- Microphone
    ThreadOf <- OnThreads
    Texts <- MCTexts
    MaxMemory = 2
    MaxCommands = 4
    MayFail = TRUE
    Lacking <- CompleteOrWrapped
SPECIFICATION VoiceSpec
PROPERTIES ImplementsRegister NeverWalksFromSleep
