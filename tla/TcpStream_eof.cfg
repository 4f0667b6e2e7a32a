SPECIFICATION FairSpec
CONSTANTS
    Writes = 1
    WriteSize = 1
    Pipelined = 1
    Reads = {r1, r2}
    r1 = r1
    r2 = r2
    NoReq = NoReq
    Opened = Opened
    ReadSize = 2
    Incoming = 1
    PeerCloses = TRUE
    SendBuffer = 3
PROPERTIES
    EndSeen
