CONSTANTS
    p1 = p1
    p2 = p2
    pack = pack
    v1 = v1
    None = None
    Processes <- OneProcess
    Bundles <- MCBundles
    Vehicles <- MCVehicles
    Catalogs <- MCCatalogs
    Researchers = {r1, r2}
    Documents <- MCDocuments
    Seed <- MCSeed
    Recorded = {1, 2}
    MaxEvents = 1
SYMMETRY Symmetry
SPECIFICATION StoresSpec
CHECK_DEADLOCK FALSE
INVARIANTS
    UsedIsInstalled
    InstalledHasFile
    ActiveIsNewest
    AnsweredIsStored
    ReportsAgree
PROPERTIES
    PeerOnlyForward
