SPECIFICATION Spec
CONSTANTS
    None = None
    Idle = Idle
    Calls <- AllCalls
    Programs <- AllPrograms
    Limit = 3
    Files <- AllFiles
    Args <- AllArgs
    Budget = 5
    Walks <- AllWalks
    Tree <- AllDirs
    Root = "root"
    Inits <- AllInits
    MaxFiles = 2
    MaxDepth = 1
INVARIANTS CallsGuarded ReportsHonest
PROPERTY Answered
CHECK_DEADLOCK FALSE
