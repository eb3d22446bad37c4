SPECIFICATION Spec
CONSTANTS
    n1 = n1
    n2 = n2
    o1 = o1
    o2 = o2
    NoName = NoName
    Names = {n1, n2}
    Ops = {o1, o2}
    Kinds = {"init", "spawn"}
    MayFail = {}
    MaxFaults = 0
    MaxIndex = 2
    MaxCopies = 1
SYMMETRY Symmetry
CHECK_DEADLOCK FALSE
INVARIANTS
    AddressesDistinct
