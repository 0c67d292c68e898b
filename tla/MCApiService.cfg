CONSTANTS
    r1 = r1
    r2 = r2
    r3 = r3
    s1 = s1
    s2 = s2
    k1 = k1
    None = None
    Requests <- MCRequests
    Sessions <- MCSessions
    Keys <- MCKeys
    Contents <- MCContents
    Capacity = 1
    Lifetime = 1
    MaxIntents = 2
SPECIFICATION Spec
SYMMETRY MCSymmetry
INVARIANTS
    AnswersAreOwn
    HistoryIsSound
    OncePerKey
