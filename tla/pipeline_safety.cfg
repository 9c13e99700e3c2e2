CONSTANTS
  r1 = r1
  r2 = r2
  r3 = r3
  p1 = p1
  p2 = p2
  p3 = p3
  h1 = h1
  h2 = h2
  Reqs <- MCReqs
  Peers <- MCThreePeers
  Self = {p2}
  Caller <- LocalCaller
  Hash <- TwinHash
  Async = {r1, r2}
  Slow = {}
  PlainHandler = {}
  Billable <- MCReqs
  Held = {}
  Prepaid = {}
  TaskSlots = 1
  QueueMax = 1
  Price = 2
  HardLimit <- TightLimit
  SkillMax = 1
  MeterMax = 2
  TitForTat = FALSE
  MaxReceived = 3
  MaxCredit = 0
  MaxFaults = 1
  MaxCrashes = 0
  AllowStop = FALSE
  DrainTimeout = FALSE
SPECIFICATION Spec
INVARIANTS OverdraftBound ChargeBacked OneOutcome RefusedNeverRuns PriceCached NothingLeftOpen
CHECK_DEADLOCK FALSE
