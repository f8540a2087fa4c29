\* Every vector of channels, two listen keys, two connections.
CONSTANTS
    Keys = {key1, key2}
    NoKey = nokey
    MaxQueue = 3
    MaxConnects = 2
SPECIFICATION Spec
INVARIANTS
    TypeOK
    NothingMissing
    ExtrasAreLeftovers
PROPERTY
    QueueIsPipe
