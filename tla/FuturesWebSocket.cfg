\* One symbol, two kline intervals, every call, two connections.
CONSTANTS
    Symbols = {btc}
    Intervals = {min1, hour4}
    MaxQueue = 2
    MaxConnects = 2
SPECIFICATION Spec
INVARIANTS
    TypeOK
    NothingMissing
    ExtrasAreLeftovers
PROPERTY
    QueueIsPipe
