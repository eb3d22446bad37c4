SPECIFICATION Spec
CONSTANTS
    n1 = n1
    n2 = n2
    p1 = p1
    p2 = p2
    NoName = NoName
    Names = {n1}
    Polls = {p1}
    MaxRepairAttempts = 2
    MayFail = {"load", "recheck", "check", "suspend", "resume"}
    LateWake = TRUE
    QuickStart = FALSE
    FreshReads = FALSE
    Cli = {}
    MaxRestarts = 1
CHECK_DEADLOCK FALSE
PROPERTIES
    OnlyResumeActivates
