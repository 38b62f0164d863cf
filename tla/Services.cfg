SPECIFICATION ServicesSpec
CONSTANTS
    r1 = r1
    r2 = r2
    r3 = r3
    r4 = r4
    t1 = t1
    t2 = t2
    Nobody = Nobody
    Idle = Idle
    MaxCommits = 2
    MaxGitFaults = 4
    MaxCrashes = 1
    Requests <- Four
    Name <- FourNames
INVARIANTS DuplicatesOverlap TreeHeals
PROPERTIES WholeKept RequestsEnd
CHECK_DEADLOCK FALSE
