CONSTANTS
  i1 = i1
  i2 = i2
  e1 = e1
  e2 = e2
  e3 = e3
  protocol = protocol
  identity = identity
  a1 = a1
  a2 = a2
  o1 = o1
  o2 = o2
  m1 = m1
  m2 = m2
  m3 = m3
  q1 = q1
  q2 = q2
  s1 = s1
  s2 = s2
  h1 = h1
  h2 = h2
  b1 = b1
  b2 = b2
  b3 = b3
  k1 = k1
  k2 = k2
  a = a
  x1 = x1
  x2 = x2
  x3 = x3
  cmd = cmd
  j1 = j1
  j2 = j2
  input = input
  r1 = r1
  r2 = r2
  r3 = r3
  rl = rl
  el = el
  g1 = g1
  g2 = g2
  f1 = f1
  f2 = f2
  f3 = f3
  fk1 = fk1
  fk2 = fk2
  fs = fs
  d1 = d1
  d2 = d2
  d3 = d3
  t1 = t1
  Items <- MCItems
  System = {i1}
  Unwelcome = {i2}
  MaxRetry = 1
  MaxFaults = 1
  Events = {e1, e2, e3}
  Buses = {protocol, identity}
  BusOf <- MCBusOf
  MaxTimeouts = 2
  Objects = {o1, o2}
  Askers = {a1, a2}
  Access <- MCAccess
  ListedAs <- MCListed
  MaxChanges = 2
  MaxAsks = 2
  MaxSpawns = 4
  MaxRestarts = 2
  Threshold = 1
  Rounds = 2
  Polls = 2
  Shared = FALSE
  Sends = {m1, m2, m3}
  PeerOf <- MCPeerOf
  OnionOnly = {}
  TorUp = TRUE
  Keyed = {q1}
  MaxPool = 1
  MaxOpens = 2
  MaxCloses = 1
  MaxCancels = 1
  NoSend = NoSend
  Skills = {s1, s2}
  Hosts = {h1, h2}
  Remote <- MCRemote
  MaxRecords = 2
  PerKey = 1
  MaxStores = 4
  TorPeers = {b1, b2, b3}
  KeyOf <- MCKeyOf
  PerPeer = 2
  Global = 3
  Window = 2
  SweepEvery = 3
  MaxTime = 4
  Payers = {a}
  Transfers = {x1, x2, x3}
  Tx <- MCTx
  Payee <- MCPayee
  Strangers = {}
  PageLimit = 1
  MaxPayFaults = 1
  MaxStrays = 1
  Commands = {cmd}
  MaxAttempts = 3
  Jobs = {j1, j2}
  Inputs <- MCInputs
  MaxResent = 1
  Rows = {r1, r2, r3}
  TableOf <- MCTableOf
  Tables <- MCTables
  MaxRotations = 2
  MaxStops = 1
  Readers = {g1, g2}
  Ttl = 1
  MaxWrites = 2
  MaxClock = 2
  NoEntry = NoEntry
  Arrivals = {f1, f2, f3}
  DedupKeyOf <- MCDedup
  SenderOf <- MCSender
  Urgent = {f3}
  PendingMax = 1
  HistoryMax = 1
  Staleness = 1
  DedupTtl = 1
  Departures = {d1, d2, d3}
  TargetOf <- MCTarget
  MaxCopies = 2
  MaxFwTime = 3
  MaxTicks = 2
  Bases = {0, 4, 8}
  Percents = {0, 50, 100}
  MaxRules = 2
  Modes = {"multiplicative", "additive", "best_wins", "other"}
  Caps = {0, 50, 100, 150}
  Costs = {0, 3}
  SkillMins = {NoMin, 0, 2}
  MinPrices = {1}
  GlobalMins = {0, 5}
  NoMin = NoMin
  NoQuote = NoQuote
SPECIFICATION MCSpec
CHECK_DEADLOCK FALSE
INVARIANTS LossBound OldIsAnnounced ExitedIsDead PublishedWasLive AnswersOwn WithinBudget PaidOnce CommandRunsOnce ToldIsRecorded DebitedOnce ServedIsRecent OnceEach EnginesAgree
PROPERTIES MailDelivers OldestGoes ArchivedFirst
