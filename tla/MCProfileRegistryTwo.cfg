CONSTANTS
    p1 = p1
    p2 = p2
    pack = pack
    v1 = v1
    None = None
    Processes <- TwoProcesses
    Bundles <- MCBundles
    Vehicles <- MCVehicles
    Catalogs <- MCCatalogs
SPECIFICATION Spec
PROPERTIES
    ActiveNeverRollsBack
