SPECIFICATION Spec
CONSTANTS
    None = None
    Idle = Idle
    Files <- SomeFiles
    Window = 3
    Overlap = 1
    Embedded = {1, 2, 3}
    AnySettings <- SomeSettings
    FirstOf <- TwoFiles
    Batch = 2
    Request = 1
    MaxRestarts = 1
    MaxFaults = 2
    Asked <- SomeAsked
    Whole = 4
    PoolMult = 2
    PrefixMult = 2
    CorpusLimit = 3
    Page = 2
    SparsePool = 1
    Spans <- AllSpans
    Answers <- SomeAnswers
    Queries = 3
    Sizes <- SomeSizes
    MaxEvidence = 2
    MaxChars = 20
    Slack = 4
    Header = 2
    Join = 2
    Worth = 1
    Ellipsis = 3
INVARIANTS ChunksSound VectorsHeal RetrievalSound CitationsSound
CHECK_DEADLOCK FALSE
