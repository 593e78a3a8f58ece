CONSTANTS
  w1 = w1
  u1 = u1
  ReadServer = {}
  WriteServer = {w1}
  User = {u1}
  NoUser = NoUser
  MaxFd = 1
  TableSize <- OneEach
  Command <- MoveCommands
  InitialState <- FullStates
  Limit = 2
  IntMax = 15
SPECIFICATION Spec
INVARIANTS NeverOverLimit
