SPECIFICATION Spec
CONSTANTS
    n1 = n1
    n2 = n2
    p1 = p1
    p2 = p2
    NoName = NoName
    Names = {n1}
    Polls = {p1}
    MaxRepairAttempts = 1
    MayFail = {"suspend"}
    LateWake = FALSE
    QuickStart = TRUE
    FreshReads = TRUE
    Cli = {"spawn", "suspend", "resume", "evict"}
    MaxRestarts = 0
CHECK_DEADLOCK FALSE
INVARIANTS
    MarkIsTemporary
