\* Two threads make any signed calls; requests and replies get lost.
CONSTANTS
    a = a
    b = b
    o1 = o1
    o2 = o2
    o3 = o3
    k1 = k1
    k2 = k2
    empty = empty
    Callers = {a, b}
    Orders = {o1, o2}
    Keys = {k1, k2}
    Empty = empty
    Operations <- AllOperations
    Lifetime = 2
    MaxCalls = 3
    MaxClock = 2
SPECIFICATION FairSpec
CHECK_DEADLOCK FALSE
INVARIANTS
    TypeOK
    MadeOnce
    NothingUnaccounted
PROPERTIES
    CallsEnd
