SPECIFICATION Spec
CONSTANTS
    j1 = j1
    j2 = j2
    c1 = c1
    Jobs <- OneJob
    NoJob = NoJob
    MaxProgress = 2
    Sources <- AnySource
    Clients <- OneClient
    IngestRaises = TRUE
    RedisUp = TRUE
    MaxFaults = 1
    MaxRedisFaults = 2
    MaxRestarts = 1
INVARIANT TypeOK
INVARIANT RedisBehindStore
PROPERTY ViewNeverRegresses
