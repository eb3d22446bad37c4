SPECIFICATION Spec
CONSTANTS
    o1 = o1
    o2 = o2
    v1 = v1
    v2 = v2
    v3 = v3
    m1 = m1
    m2 = m2
    NoVm = NoVm
    Nothing = Nothing
    Torn = Torn
    Fresh = m1
    Memory = {m1, m2}
    Vms = {v1, v2, v3}
    Ops = {o1}
    Kinds = {"repair"}
    MayFail = {"late", "vm", "pkill"}
CHECK_DEADLOCK FALSE
INVARIANTS
    RepairedIsAlone
