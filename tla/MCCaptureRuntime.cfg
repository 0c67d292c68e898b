CONSTANTS
    c1 = c1
    c2 = c2
    None = None
    Clients <- OneClient
    MaxConnects = 2
    MaxRecordings = 2
    MaxPos = 3
    JoinMayTimeout = FALSE
    StorageMayFail = TRUE
SPECIFICATION FairSpec
INVARIANTS
    OneConnectionAtATime
    CompleteIsContiguous
PROPERTIES
    RequestsReturn
