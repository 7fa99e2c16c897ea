SPECIFICATION FairSpec
CONSTANTS
    Requests = {r1, r2}
    Kinds <- AllKinds
    Configs <- Ways
INVARIANTS
    TypeOK
    EveryResponseHardened
    AuthorizationFirst
    PanicsAnswered
    LoggedFromInside
    RequestIdsCarried
    GaugeDrift
    TelemetryOutlivesRequests
PROPERTY DrainEnds
\* run() has ended
CHECK_DEADLOCK FALSE
