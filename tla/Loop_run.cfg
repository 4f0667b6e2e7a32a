SPECIFICATION FairSpec
CONSTANTS
  cmd = cmd
  con = con
  acc = acc
  rcmd = rcmd
  r1 = r1
  r2 = r2
  Handles = {cmd, con, acc}
  Requests = {rcmd, r1, r2}
  CMD = cmd
  ReadCMD = rcmd
  Timed = {cmd, con}
  TypeOf <- Types
  ConnectFails = TRUE
INVARIANTS CloseIsLast NoStrandedRequest NoMissedEdge QuitClean
PROPERTIES StopTerminates
