SPECIFICATION RingSpec
CONSTANTS
    Blocks = 4
    BlockSize = 2
    Writes = {4}
    Reads = {4}
    Total = 4
    IndexMod = 4
PROPERTY StreamKept
CHECK_DEADLOCK FALSE
