\* Records are written with tabs and newlines.
CONSTANTS
    SpotApis <- SomeSpotApis
    FuturesApis <- SomeFuturesApis
    MaxRecords = 2
    MaxRuns = 4
SPECIFICATION Spec
CHECK_DEADLOCK FALSE
INVARIANTS
    EveryRecordRead
