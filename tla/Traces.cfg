SPECIFICATION TracesSpec
CONSTANTS
    c1 = c1
    d1 = d1
    d2 = d2
    wordA = wordA
    wordB = wordB
    wordDb = wordDb
    Examples <- TwoExamples
    DatasetResponses <- SomeResponses
    Questions <- OneQuestion
    ChatResponses <- AllResponses
    Replies <- AnyReply
    Short <- ShortWords
    NoNumber = NoNumber
    Huge = Huge
    NoObject = NoObject
    Pending = Pending
    Idle = Idle
    None = None
    Requests <- DebugMostly
    Chats <- OneChat
    Filters <- AnyReader
    MaxTraces = 2
    MaxEvals = 1
    Limit = 2
    MaxFaults = 1
INVARIANTS IndexSound RowsRight GradesBacked
PROPERTY ScoresOnlyGrow
CHECK_DEADLOCK FALSE
