SPECIFICATION Spec
CONSTANTS
    r1 = r1
    r2 = r2
    a = a
    b = b
    Runs <- OneRun
    NumFiles = 3
    Bodies <- TwoBodies
    Versions <- MixedVersions
    Gone = Gone
    NoHash = NoHash
    Scopes <- AnyFiles
    EmbedBatch = 2
    UpsertBatch = 2
    ReportIndexed = 2
    ReportUnchanged = 2
    MaxFaults = 2
    MaxEdits = 1
    MaxRestarts = 1
INVARIANT TypeOK
INVARIANT ChunksAccounted
PROPERTY ReportsGrow
CHECK_DEADLOCK FALSE
