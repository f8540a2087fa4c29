\* Loop in the background or in Main, one producer, callbacks that subscribe.
CONSTANTS
    m = m
    w = w
    p = p
    r1 = r1
    r2 = r2
    Main = m
    RunThread = w
    Producers <- OneProducer
    Requests = {r1, r2}
    BinaryAware = TRUE
    MainCalls <- EveryCall
    CallbackCalls <- SubscribeInCallback
    MaxRequests = 2
    MaxConnects = 2
    MaxInbox = 1
SPECIFICATION FairSpec
INVARIANTS
    TypeOK
    EngineInv
    LockReleasedBeforeBlocking
    JoinedMeansStopped
    NoDangling
    SomeoneReads
PROPERTIES
    FlushExclusive
    OrderedDelivery
    CallsReturn
    MarketDataCarriesRequests
