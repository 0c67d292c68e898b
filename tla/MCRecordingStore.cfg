CONSTANTS
    f1 = f1
    f2 = f2
    Frames <- MCFrames
    CommitEvery = 2
    CommitInterval = 1
    MaxRecordings = 2
    MaxFrames = 2
    MaxBatch = 2
    Faults <- AllFaults
SPECIFICATION Spec
SYMMETRY MCSymmetry
INVARIANTS
    GapFree
    LossBound
    QuiescentIsDurable
PROPERTIES
    ImplementsLog
