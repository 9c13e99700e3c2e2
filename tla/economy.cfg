CONSTANTS
  i1 = i1
  p1 = p1
  t1 = t1
  a = a
  x1 = x1
  x2 = x2
  x3 = x3
  c1 = c1
  c2 = c2
  c3 = c3
  Items = {i1}
  System = {i1}
  Unwelcome = {}
  MaxRetry = 2
  MaxFaults = 4
  SPeers = {p1}
  NamesOurs = {p1}
  Unresolved = {p1}
  Tasks = {t1}
  TaskPeer <- MCTaskPeer
  SoftLimit = 0
  HardLimit <- MCHard
  MinAmount = 1
  Price = 2
  MaxCharges = 3
  MaxRows = 2
  MaxRequests = 1
  MaxCrashes = 1
  Payers = {a}
  Transfers = {x1, x2, x3}
  Tx <- MCTx
  Payee <- MCPayee
  Strangers = {}
  PageLimit = 1
  MaxPayFaults = 2
  MaxStrays = 1
  Docs = {1}
  DocKinds <- MCDocKinds
  MaxWmCrashes = 1
  RowOrder <- MCRows
  K = 1
  HostOf <- MCHost
  MaxSameHost = 2
  Rotation = 2
  MaxMoves = 1
  NoOne = NoOne
SPECIFICATION MCSpec
CHECK_DEADLOCK FALSE
INVARIANTS OneRequestPerWindow LedgerBacked OnlyCleanPasses
PROPERTIES EnqueuedSettles QueuedIsSettled PaidIsCredited PendingIsAnnounced PendingResolves
