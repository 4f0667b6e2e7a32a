SPECIFICATION FairSpec
CONSTANTS
    Jobs = {j1, j2, j3}
    Nodes = {n1, n2, n3}
    Threads = {loop, a, b}
    LoopThread = loop
    Commands = 1
    IdleMax = 1
    MayStop = TRUE
    Null = Null
INVARIANTS WakeUpComing OneWakeUp
PROPERTIES TasksInOrder TasksRun
CHECK_DEADLOCK FALSE
