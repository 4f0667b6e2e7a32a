SPECIFICATION FairSpec
CONSTANTS
    Workers = {w1, w2, w3}
    Tasks = {t1, t2, u1}
    Urgent = {u1}
    Limits = {1, 2}
    NoTask = NoTask
    Starts = 2
INVARIANTS NoneSleeps StopDrains BeginInOrder
PROPERTIES AcceptedRun StopEnds
CHECK_DEADLOCK FALSE
