CONSTANTS
    NaN = NaN
    NoSample = NoSample
    InvalidSample = InvalidSample
    Frames <- MCFewFrames
    WatchdogTicks = 3
    SleepTicks = 1
    MaxSleep = 2
    MaxWork = 1
    Horizon = 7
SPECIFICATION Spec
PROPERTY FreezeKeepsSleep
