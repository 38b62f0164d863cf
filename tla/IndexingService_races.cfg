SPECIFICATION Spec
CONSTANTS
    j1 = j1
    j2 = j2
    c1 = c1
    Jobs <- TwoJobs
    NoJob = NoJob
    MaxProgress = 1
    Sources <- Local
    Clients <- OneClient
    IngestRaises = FALSE
    RedisUp = TRUE
    MaxFaults = 0
    MaxRedisFaults = 0
    MaxRestarts = 0
SYMMETRY JobSymmetry
PROPERTY ViewNeverRegresses
