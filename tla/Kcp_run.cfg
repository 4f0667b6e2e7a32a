SPECIFICATION KcpFairSpec
CONSTANTS
    Messages <- MessagesOneWay
    MTU = 3
    SendWindow = 2
    RecvWindow = 3
    WND_RCV = 3
    CongestionWindow = TRUE
    FastResend = 1
    SNMod = 16
    FirstSN = 14
    NetCap <- NetOneWay
    MaxAcks = 1
INVARIANTS ReleasedOnlyWhenHeld WindowsKept
PROPERTIES DeliversInOrder AllArrives
CHECK_DEADLOCK FALSE
