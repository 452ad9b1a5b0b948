CONSTANTS
    NaN = NaN
    NoSample = NoSample
    InvalidSample = InvalidSample
    Faults <- AllFaults
    Commands <- MCFewCommands
    Asleep <- MCAsleep
    HoldFrames = 2
    WatchdogTicks = 1
    SleepTicks = 1
    MaxSleep = 2
    MaxWork = 0
    Horizon = 6
SPECIFICATION Spec
INVARIANTS MotionIsCurrent
