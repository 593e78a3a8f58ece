CONSTANTS
  r1 = r1
  w1 = w1
  u1 = u1
  ReadServer = {r1}
  WriteServer = {w1}
  User = {u1}
  NoUser = NoUser
  MaxFd = 2
  TableSize <- ReadersTwice
  Command <- SmallCommands
  InitialState <- SmallStates
  Limit = 2
  IntMax = 15
SPECIFICATION FairSpec
INVARIANTS TypeOK LocksMatchConnections ShownIsStored
PROPERTIES ImplementsLedger LeavingUnlocks
