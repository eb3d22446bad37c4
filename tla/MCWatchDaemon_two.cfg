SPECIFICATION Spec
CONSTANTS
    n1 = n1
    n2 = n2
    p1 = p1
    p2 = p2
    NoName = NoName
    Names = {n1, n2}
    Polls = {p1}
    MaxRepairAttempts = 2
    MayFail = {}
    LateWake = FALSE
    QuickStart = TRUE
    FreshReads = TRUE
    Cli = {}
    MaxRestarts = 0
CHECK_DEADLOCK FALSE
PROPERTIES
    OnlyResumeActivates
