CONSTANTS
    NaN = NaN
    NoSample = NoSample
    InvalidSample = InvalidSample
    Faults <- NoFaults
    Commands <- MCModes
    Asleep <- MCAsleep
    HoldFrames = 3
    WatchdogTicks = 3
    SleepTicks = 1
    MaxSleep = 2
    MaxWork = 0
    Horizon = 8
SPECIFICATION FairSpec
PROPERTY StateActivated
