SPECIFICATION FairSpec
CONSTANTS
    app = app
    repo = repo
    db = db
    t1 = t1
    t2 = t2
    none = none
    Id <- MCId
    Thread <- MCThread
    NoId = none
    Recipes <- Acyclic
    MaxRegs = 3
    MaxPanics = 1
PROPERTIES
    CallsReturn
