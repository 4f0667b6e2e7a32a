SPECIFICATION Spec
CONSTANTS
  cmd = cmd
  con = con
  acc = acc
  rcmd = rcmd
  r1 = r1
  r2 = r2
  Handles = {cmd, con}
  Requests = {rcmd, r1, r2}
  CMD = cmd
  ReadCMD = rcmd
  Timed = {cmd, con}
  TypeOf <- TypesClient
  ConnectFails = TRUE
INVARIANTS
  NoRequestForgotten
