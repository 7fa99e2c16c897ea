SPECIFICATION Spec
CONSTANTS
    MaxRecords = 1
    MaxOutages = 0
    MaxFlushes = 0
    QueriesEarly = TRUE
INVARIANTS
    InstrumentsNeverNoOp
\* run() has ended
CHECK_DEADLOCK FALSE
