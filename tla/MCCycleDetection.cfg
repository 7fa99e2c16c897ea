SPECIFICATION FairSpec
CONSTANTS
    a = a
    b = b
    c = c
    Node <- MCNode
    DepLists <- MCDepLists
INVARIANTS
    TypeOK
    ReportsAreCycles
    EveryCycleReported
    Verdict
PROPERTIES
    Terminates
\* detect_cycles returns: after that nothing is enabled
CHECK_DEADLOCK FALSE
