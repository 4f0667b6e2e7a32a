SPECIFICATION RedisSpec
CONSTANTS
    a = a
    b = b
    a1 = a1
    a2 = a2
    b1 = b1
    Pool = {a, b}
    Client = {a1, a2, b1}
    PoolOf <- PoolsOf
    Command = {q1, q2}
    SlotsCommand = slots
    Greeting <- NoGreeting
    MaxRedirect = 1
    OpenFailures = 0
    Closes = TRUE
    FlyDebt = 1
    Null = Null
INVARIANTS NoneFliesAtEnd
CHECK_DEADLOCK FALSE
