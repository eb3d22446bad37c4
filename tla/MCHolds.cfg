SPECIFICATION FairSpec
CONSTANTS
    s1 = s1
    p1 = p1
    p2 = p2
    Sessions = {s1}
    Polls = {p1, p2}
    Ttl = 3
    Keepalive = 1
    MaxRepairAttempts = 1
    MayFail = {"call", "rpc", "suspend", "gateway", "deaf", "session"}
CHECK_DEADLOCK FALSE
INVARIANTS
    HoldsTypeOK
    HoldCovers
PROPERTIES
    BusyIsKept
    DesertedSleeps
    GatewayReturns
