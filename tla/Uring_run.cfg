SPECIFICATION FairSpec
CHECK_DEADLOCK FALSE
CONSTANTS
    Handles = {f1}
    f1 = f1
    Requests = {r1, r2, r3}
    r1 = r1
    r2 = r2
    r3 = r3
    NoReq = NoReq
    Entries = 2
    EntriesCQ = 2
    MaxWait = 2
INVARIANTS
    AnsweredBeforeClose
    SlotsKept
PROPERTIES
    PostedAnswered
