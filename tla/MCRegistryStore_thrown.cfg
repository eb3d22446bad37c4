SPECIFICATION Spec
CONSTANTS
    t1 = t1
    t2 = t2
    t3 = t3
    i1 = i1
    i2 = i2
    i3 = i3
    Tasks = {t1, t2, t3}
    Pids = {i1, i2, i3}
    Pid <- OwnProcess
    NoFile = NoFile
    NoPid = NoPid
    MaxDeaths = 0
CHECK_DEADLOCK FALSE
INVARIANTS
    OnlyCrashLeavesLock
