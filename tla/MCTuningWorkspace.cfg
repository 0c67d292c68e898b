CONSTANTS
    ByteTop = 4
    Paragraph = 2
    Page = 4
    Top = 8
    RecordBytes = 2
    Files <- MCFiles
    Calibrations <- MCCalibrations
    EditLists <- MCEditLists
SPECIFICATION TuningSpec
CHECK_DEADLOCK FALSE
INVARIANTS
    OverlapsAreRejected
