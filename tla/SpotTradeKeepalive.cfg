\* keepaliveUserDataStream() is sent as a GET.
CONSTANTS
    a = a
    b = b
    o1 = o1
    o2 = o2
    o3 = o3
    k1 = k1
    k2 = k2
    empty = empty
    Callers = {a}
    Orders = {}
    Keys = {k1}
    Empty = empty
    Operations <- KeepaliveOperations
    Lifetime = 2
    MaxCalls = 2
    MaxClock = 3
SPECIFICATION Spec
CHECK_DEADLOCK FALSE
INVARIANTS
    KeepaliveExtends
