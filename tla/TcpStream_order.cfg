SPECIFICATION FairSpec
CONSTANTS
    Writes = 3
    WriteSize = 1
    Pipelined = 3
    Reads = {r1, r2}
    r1 = r1
    r2 = r2
    NoReq = NoReq
    Opened = Opened
    ReadSize = 2
    Incoming = 2
    PeerCloses = FALSE
    SendBuffer = 6
INVARIANTS
    StreamOrder
