CONSTANTS
    c1 = c1
    c2 = c2
    None = None
    Clients <- TwoClients
    MaxConnects = 2
    MaxRecordings = 1
    MaxPos = 3
    JoinMayTimeout = FALSE
    StorageMayFail = FALSE
SPECIFICATION Spec
INVARIANT CompleteIsContiguous
