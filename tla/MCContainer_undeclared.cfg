SPECIFICATION Spec
CONSTANTS
    app = app
    repo = repo
    db = db
    t1 = t1
    t2 = t2
    none = none
    Id <- MCId
    Thread <- MCThread
    NoId = none
    Recipes <- Undeclared
    MaxRegs = 3
    MaxPanics = 0
INVARIANTS
    ValidateNeverHangs
\* the undeclared cycle stops the threads that resolve it
CHECK_DEADLOCK FALSE
