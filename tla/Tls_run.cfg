SPECIFICATION TlsFairSpec
CONSTANTS
    Items <- ItemsOf
    MaxReads = 2
    NodeSize = 2
    BadFlights = {2}
    Byes = {"server"}
INVARIANT AllHandedBack
PROPERTIES TlsInOrder TlsTalksOn
CHECK_DEADLOCK FALSE
