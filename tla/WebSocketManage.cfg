\* Main runs the loop itself or in the background; callbacks may do anything.
CONSTANTS
    m = m
    w = w
    p = p
    r1 = r1
    r2 = r2
    Main = m
    RunThread = w
    Producers <- OneProducer
    Requests = {r1, r2}
    BinaryAware = FALSE
    MainCalls <- EveryCall
    CallbackCalls <- ManageInCallback
    MaxRequests = 2
    MaxConnects = 2
    MaxInbox = 2
SPECIFICATION Spec
INVARIANTS
    HealthyLinkNeverTerminates
PROPERTIES
    OrderedDelivery
