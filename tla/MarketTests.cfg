\* By the script and by hand.
CONSTANTS
    SpotApis <- SomeSpotApis
    FuturesApis <- SomeFuturesApis
    MaxRecords = 2
    MaxRuns = 4
SPECIFICATION FairSpec
CHECK_DEADLOCK FALSE
INVARIANTS
    NoClobber
    SummarisedByHand
PROPERTIES
    RecordsKept
    ScriptEnds
