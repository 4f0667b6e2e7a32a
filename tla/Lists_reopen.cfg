SPECIFICATION FairSpec
CONSTANTS
    Handles = {cmd, h1}
    CMD = cmd
    Active = Active
    Closed = Closed
    List = List
    MaxGrab = 3
PROPERTIES EndsUncounted
CHECK_DEADLOCK FALSE
