SPECIFICATION FairSpec
CONSTANTS
    Modulus = 16
    MaxTick = 3
    MaxTimeouts = 3
    MaxIntervals = 2
    Delays <- SomeDelays
    NativeIntervals <- SomeIntervals
    SelfClear = TRUE
INVARIANTS
    RunsOnTime
PROPERTIES
    PassComplete
    NoResurrection
    TimeoutResolved
    TickEnds
CHECK_DEADLOCK FALSE
