SPECIFICATION Spec
CONSTANTS
    i1 = i1
    i2 = i2
    n1 = n1
    n2 = n2
    s1 = s1
    s2 = s2
    none = none
    Id <- MCId
    Name <- MCName
    NoId = none
    NoName = none
    Slot <- MCSlot
    Requests <- MCRequests
    MaxLate = 1
SYMMETRY Symmetry
INVARIANTS
    TypeOK
    AnswersWereTrue
    ConfirmedStays
    NothingUnmade
