SPECIFICATION Spec
CONSTANTS
    r1 = r1
    r2 = r2
    a = a
    b = b
    Runs <- TwoRuns
    NumFiles = 1
    Bodies <- TwoBodies
    Versions <- MixedVersions
    Gone = Gone
    NoHash = NoHash
    Scopes <- AllFiles
    EmbedBatch = 2
    UpsertBatch = 1
    ReportIndexed = 1
    ReportUnchanged = 1
    MaxFaults = 1
    MaxEdits = 1
    MaxRestarts = 1
SYMMETRY RunSymmetry
INVARIANT FullRunCovers
INVARIANT IncrementalRunFindsFirst
CHECK_DEADLOCK FALSE
