SPECIFICATION Spec
CONSTANTS
    Idle = Idle
    Polls = {p1, p2, p3}
    FairPolls = {p1, p2}
    Lists = {l1}
    CardRuns = 1
    CardFailures = 1
    ButtonRuns = 2
    ButtonFailures = 2
    LoneFailures = 3
    Workspaces = {1, 2, 3}
    Existing = {1, 2}
    Repos = {r1, r2}
    Owner <- OneEach
    Calls = {c1, c2}
    MaxMoves = 3
    ViewFailures = 1
INVARIANTS SpinnersBacked ShownListed
PROPERTIES PagesSettle RefreshAfterEnd
CHECK_DEADLOCK FALSE
