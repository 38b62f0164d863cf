SPECIFICATION FairSpec
CONSTANTS
    Repos <- TwoRepos
    WorkspaceOf <- TwoHomes
    r1 = r1
    r2 = r2
    ChunksPerRepo = 2
    ChatModes = {"ask", "debug"}
    Nowhere = Nowhere
    Huge = Huge
    MaxQueries = 2
    MaxEvidence = 2
    MaxToolCalls = 1
    MaxIterations = 2
    MaxResults = 2
    RecursionLimit = 40
INVARIANT TypeOK
INVARIANT RunBounded
INVARIANT AnalysisSeesResults
INVARIANT IndicesPointAtEvidence
INVARIANT ScopeKept
INVARIANT FallbackNotConfident
PROPERTY ImplementsRequest
PROPERTY RequestsAnswered
CHECK_DEADLOCK FALSE
