SPECIFICATION AppsSpec
CONSTANTS
    a = a
    b = b
    a1 = a1
    a2 = a2
    b1 = b1
    Pool = {a, b}
    Client = {a1, a2, b1}
    PoolOf <- PoolsOf
    Command = {q1}
    SlotsCommand = slots
    Greeting <- Password
    MaxRedirect = 1
    OpenFailures = 1
    Closes = TRUE
    FlyDebt = 0
    Null = Null
    MaxProcess = 2
    Pairs = 4
    Terms = 1
    Deaths = {1, 2}
INVARIANTS NothingLost AliveExact NoRespawnForgotten ChildKnown
PROPERTIES Answered RespawnComes TermEnds
CHECK_DEADLOCK FALSE
