SPECIFICATION Spec
CONSTANTS
    n1 = n1
    n2 = n2
    o1 = o1
    o2 = o2
    NoName = NoName
    Names = {n1, n2}
    Ops = {o1}
    Kinds = {"spawn", "evict", "repairTap", "repairCaddyRoute", "init", "uninit"}
    MayFail = {"command", "crash", "reboot"}
    MaxFaults = 1
    MaxIndex = 2
    MaxCopies = 1
SYMMETRY Symmetry
CHECK_DEADLOCK FALSE
INVARIANTS
    HostTypeOK
    RegistryDistinct
    AddressesDistinct
    OnlyDebrisLeft
    TapHasRules
PROPERTIES
    OthersUntouched
