CONSTANTS
  p1 = p1
  t1 = t1
  SPeers = {p1}
  NamesOurs = {}
  Unresolved = {}
  Tasks = {t1}
  TaskPeer <- MCTaskPeer
  SoftLimit = 0
  HardLimit <- MCHard
  MinAmount = 1
  Price = 2
  MaxCharges = 3
  MaxRows = 2
  MaxRequests = 1
  MaxCrashes = 0
SPECIFICATION SettlementFair
CHECK_DEADLOCK FALSE
PROPERTIES AnsweredIsZeroed
