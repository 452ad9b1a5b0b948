CONSTANTS
    NaN = NaN
    NoSample = NoSample
    InvalidSample = InvalidSample
    Frames <- MCFrames
    WatchdogTicks = 3
    SleepTicks = 1
    MaxSleep = 2
    MaxWork = 1
    Horizon = 7
SPECIFICATION FairSpec
INVARIANTS TypeOK VelocityBounded FrozenWhenSilent ModeMirrored VelocityFresh IInv
PROPERTIES ShutdownCompletes ImplementsSwitch
