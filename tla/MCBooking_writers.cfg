CONSTANTS
  w1 = w1
  w2 = w2
  u1 = u1
  u2 = u2
  ReadServer = {}
  WriteServer = {w1, w2}
  User = {u1, u2}
  NoUser = NoUser
  MaxFd = 2
  TableSize <- OneTwice
  Command <- MoreCommands
  InitialState <- FullStates
  Limit = 2
  IntMax = 15
SPECIFICATION Spec
SYMMETRY Symmetry
INVARIANTS BookingsWithinLimit WriterAlone
PROPERTIES OnlyTheLockHolderStores
