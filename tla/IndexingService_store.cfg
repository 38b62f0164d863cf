SPECIFICATION FairSpec
CONSTANTS
    j1 = j1
    j2 = j2
    c1 = c1
    Jobs <- TwoJobs
    NoJob = NoJob
    MaxProgress = 1
    Sources <- AnySource
    Clients <- NoClient
    IngestRaises = TRUE
    RedisUp = FALSE
    MaxFaults = 1
    MaxRedisFaults = 0
    MaxRestarts = 1
INVARIANT SettledRepo
PROPERTIES ImplementsLifecycle JobsEnd RepoLeavesIndexing
CHECK_DEADLOCK FALSE
