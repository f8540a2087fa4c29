\* Requests do not reach a server that has nothing to push.
CONSTANTS
    m = m
    w = w
    p = p
    r1 = r1
    r2 = r2
    Main = m
    RunThread = w
    Producers <- Nobody
    Requests = {r1, r2}
    BinaryAware = TRUE
    MainCalls <- DisciplinedCalls
    CallbackCalls <- JustListen
    MaxRequests = 2
    MaxConnects = 1
    MaxInbox = 1
SPECIFICATION FairSpec
PROPERTIES
    RequestsReachPeer
