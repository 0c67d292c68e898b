CONSTANTS
    p1 = p1
    p2 = p2
    x1 = x1
    a = a
    b = b
    None = None
    NaN = NaN
    Torn = Torn
    Processes <- MCProcesses
    Models <- MCModels
    Losses <- MCLosses
    Manifests <- MCManifests
    Epochs = 3
    MaxSaves = 2
    History = 2
    Stride = 1
    MaxGap = 2
SPECIFICATION Spec
SYMMETRY MCSymmetry
INVARIANTS
    ModelsAreGrounded
    WindowsAreHistories
    BestIsSaved
PROPERTIES
    EntriesStay
