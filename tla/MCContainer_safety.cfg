SPECIFICATION Spec
CONSTANTS
    app = app
    repo = repo
    db = db
    t1 = t1
    t2 = t2
    none = none
    Id <- MCId
    Thread <- MCThread
    NoId = none
    Recipes <- AnyWiring
    MaxRegs = 4
    MaxPanics = 1
SYMMETRY ThreadSymmetry
INVARIANTS
    TypeOK
    RunningIsOwned
    PartsAreCurrent
    DeadlockNeedsCycle
    ValidatedMeansWired
PROPERTIES
    ImplementsLazySingletons
\* an undeclared cycle does stop the threads that resolve it
CHECK_DEADLOCK FALSE
