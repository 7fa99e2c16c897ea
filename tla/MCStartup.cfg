SPECIFICATION Spec
CONSTANTS
    Programs <- MCPrograms
    Origin <- MCOrigin
    Parses <- MCParses
    EndsWith <- MCEndsWith
    TypedIds <- MCTypedIds
INVARIANTS
    TypeOK
    ExpansionKeepsMeaning
    ValidatedMeansComplete
    ClaimantHolds
    EveryHandlerServed
    OnlyListedOrigins
CHECK_DEADLOCK FALSE
