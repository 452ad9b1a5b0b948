CONSTANTS
    NaN = NaN
    NoSample = NoSample
    InvalidSample = InvalidSample
    Faults <- Interruptions
    Commands <- MCFewCommands
    Asleep <- MCAsleep
    HoldFrames = 3
    WatchdogTicks = 2
    SleepTicks = 1
    MaxSleep = 2
    MaxWork = 0
    Horizon = 7
SPECIFICATION FairSpec
PROPERTY StateActivated
