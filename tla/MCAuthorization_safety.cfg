SPECIFICATION Spec
CONSTANTS
    get = get
    post = post
    adminPath = adminPath
    openPath = openPath
    adminPattern = adminPattern
    everything = everything
    bad = bad
    any = any
    admin = admin
    user = user
    adminToken = adminToken
    userToken = userToken
    forged = forged
    ours = ours
    theirs = theirs
    none = none
    basic = basic
    s1 = s1
    s2 = s2
    Method <- MCMethod
    Path <- MCPath
    Pattern <- MCPattern
    BadPattern = {bad}
    Matches <- MCMatches
    AnyRequest = any
    Role <- MCRole
    Token <- MCToken
    NoToken = none
    RoleOf <- MCRoleOf
    KeyOf <- MCKeyOf
    Key = {ours}
    NotBearer = basic
    Statements <- Chains
    Requests <- MCRequests
    Slot <- MCSlots
    MaxStatements = 3
    MaxEvents = 1
    MaxRejections = 1
SYMMETRY SlotSymmetry
INVARIANTS
    TypeOK
    BadChainNeverServes
    
    RevokedStaysOut
    FailuresCounted
\* a chain that failed to build, or a world in which nothing happens any more
CHECK_DEADLOCK FALSE
