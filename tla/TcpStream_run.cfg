SPECIFICATION FairSpec
CONSTANTS
    Writes = 3
    WriteSize = 2
    Pipelined = 3
    Reads = {r1, r2}
    r1 = r1
    r2 = r2
    NoReq = NoReq
    Opened = Opened
    ReadSize = 2
    Incoming = 3
    PeerCloses = TRUE
    SendBuffer = 3
INVARIANT RequestsWhole
PROPERTY NoEdgeMissed
