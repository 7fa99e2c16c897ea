SPECIFICATION Spec
CONSTANTS
    Requests = {r1}
    Kinds <- Ordinary
    Configs <- LoggingOnly
INVARIANT EveryRequestLogged
\* run() has ended
CHECK_DEADLOCK FALSE
