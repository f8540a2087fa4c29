\* connect() and runAsync() again after the connection was lost.
CONSTANTS
    m = m
    w = w
    p = p
    r1 = r1
    r2 = r2
    Main = m
    RunThread = w
    Producers <- Nobody
    Requests = {r1, r2}
    BinaryAware = TRUE
    MainCalls <- ReconnectingCalls
    CallbackCalls <- JustListen
    MaxRequests = 1
    MaxConnects = 2
    MaxInbox = 1
SPECIFICATION Spec
INVARIANTS
    SomeoneReads
