SPECIFICATION Spec
CONSTANTS
    MaxRecords = 2
    MaxOutages = 1
    MaxFlushes = 1
    QueriesEarly = TRUE
INVARIANTS
    TypeOK
    EveryProviderShut
    NothingLeftSilently
    FlushedMeansFlushed
\* run() has ended
CHECK_DEADLOCK FALSE
