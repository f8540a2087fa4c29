\* The script sets MEXC_OUTPUT_DIR.
CONSTANTS
    SpotApis <- SomeSpotApis
    FuturesApis <- SomeFuturesApis
    MaxRecords = 2
    MaxRuns = 4
SPECIFICATION Spec
CHECK_DEADLOCK FALSE
INVARIANTS
    EveryReplyParsed
