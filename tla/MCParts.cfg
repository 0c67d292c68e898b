CONSTANTS
    Keys = {k1, k2}
    Modulus = 3
    Lengths = {1, 3, 4, 5}
    MaxPayload = 4
    MaxGap = 0
    MaxMessages = 2
    MaxBurst = 2
    Slots = 2
    Words = {w1, w2}
    MaxSeq = 5
    MaxRequests = 3
    MaxStream = 2
    Layouts <- MCLayouts
    Capacity = 3
    Freshness = 1
    MaxFed = 3
    Roles = {role1, role2}
    MaxVersion = 3
    Scenes <- MCScenes
    Frames <- MCFrames
    Callers = {c1, c2}
    Bodies <- MCBodies
    MemorySize = 2
    MaxServed = 3
    ByteTop = 4
    Paragraph = 2
    Page = 4
    Top = 8
    RecordBytes = 2
    Files <- MCFiles
    Calibrations <- MCCalibrations
    EditLists <- MCEditLists
    Creators = {p1, p2}
    Orders <- MCOrders
    Stores <- MCStores
    MaxChanges = 3
    Profiles <- MCInstalled
    Fleet = {v}
    Exports = {x1, x2}
    Free = Free
    Selections <- MCSelections
    Benchmarks <- MCBenchmarks
    BenchProfiles <- MCBenchProfiles
    StartupTraces <- MCStartupTraces
    FlashTraces <- MCFlashTraces
    Observations <- MCObservations
    Recordings <- MCRecordings
    Captures <- MCCaptures
    Candumps <- MCCandumps
    SourceFiles <- MCSourceFiles
    MaxReplaced = 2
    BatchSize = 2
    FrameLimit = 3
    MaxStamp = 5
    MaxImports = 2
    t1 = t1
    t2 = t2
    e1 = e1
    e2 = e2
    None = None
    Tasks <- MCTasks
    Endpoints <- MCEndpoints
SYMMETRY Symmetry
SPECIFICATION PartsSpec
CHECK_DEADLOCK FALSE
INVARIANTS
    AssembledAsReceived
    FreshIsNewest
    StagedIsRecorded
    StopsOutsideOdd
    RiskIsNotTraded
    OneClockDecides
    PatchIsExact
    InstalledIsSigned
    PublishedIsAcceptable
    NothingBetterIsLeft
    ReportsAreSound
    TransfersAreWhole
    ProofsAreOwn
PROPERTIES
    AcceptedIsWhole
    AnswersOwnRequest
    TracksAreDetections
    TextsAreKept
