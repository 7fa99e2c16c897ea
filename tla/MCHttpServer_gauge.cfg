SPECIFICATION Spec
CONSTANTS
    Requests = {r1}
    Kinds <- Ordinary
    Configs <- Config
INVARIANT GaugeReturnsToZero
\* run() has ended
CHECK_DEADLOCK FALSE
