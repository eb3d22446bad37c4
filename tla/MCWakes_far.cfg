SPECIFICATION Spec
CONSTANTS
    WakeAhead = 3
    Threshold = 2
    PokeDelay = 1
    Every = 6
    JobEvery = 7
    MaxDelay = 3
    MaxSleep = 6
    MayFail = {"call", "clock", "gateway"}
CHECK_DEADLOCK FALSE
INVARIANTS
    SleepsUntilWake
