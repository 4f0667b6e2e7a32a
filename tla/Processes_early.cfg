SPECIFICATION FairSpec
CONSTANTS
    MaxProcess = 2
    Pairs = 3
    Terms = 0
    Deaths = {1}
INVARIANTS OnlyFatalGivenUp
CHECK_DEADLOCK FALSE
