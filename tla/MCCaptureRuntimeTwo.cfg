CONSTANTS
    c1 = c1
    c2 = c2
    None = None
    Clients <- TwoClients
    MaxConnects = 2
    MaxRecordings = 1
    MaxPos = 1
    JoinMayTimeout = TRUE
    StorageMayFail = FALSE
SPECIFICATION Spec
SYMMETRY MCSymmetry
INVARIANTS
    OpenIsOwned
PROPERTIES
    StoppedIsFinal
