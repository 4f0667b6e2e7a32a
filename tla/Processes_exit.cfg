SPECIFICATION FairSpec
CONSTANTS
    MaxProcess = 2
    Pairs = 3
    Terms = 1
    Deaths = {1}
INVARIANTS ExitToldAll
CHECK_DEADLOCK FALSE
