CONSTANTS
  w1 = w1
  u1 = u1
  ReadServer = {}
  WriteServer = {w1}
  User = {u1}
  NoUser = NoUser
  MaxFd = 1
  TableSize <- OneEach
  Command <- HugeCommands
  InitialState <- SmallStates
  Limit = 2
  IntMax = 7
SPECIFICATION Spec
INVARIANTS BookingsWithinLimit
