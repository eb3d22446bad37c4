SPECIFICATION FairSpec
CONSTANTS
    n1 = n1
    n2 = n2
    p1 = p1
    p2 = p2
    NoName = NoName
    Names = {n1}
    Polls = {p1}
    MaxRepairAttempts = 2
    MayFail = {"suspend"}
    LateWake = FALSE
    QuickStart = TRUE
    FreshReads = TRUE
    Cli = {"resume"}
    MaxRestarts = 0
CHECK_DEADLOCK FALSE
PROPERTIES
    WakeOnRequest
