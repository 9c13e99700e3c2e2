CONSTANTS
  r1 = r1
  r2 = r2
  r3 = r3
  p1 = p1
  p2 = p2
  p3 = p3
  h1 = h1
  h2 = h2
  Reqs <- MCReqs
  Peers <- MCPeers
  Self = {}
  Caller <- OneCaller
  Hash <- TwinHash
  Async = {r1, r2}
  Slow = {}
  PlainHandler = {}
  Billable <- MCReqs
  Held = {}
  Prepaid = {p1}
  TaskSlots = 1
  QueueMax = 1
  Price = 2
  HardLimit <- TightLimit
  SkillMax = 1
  MeterMax = 0
  TitForTat = FALSE
  MaxReceived = 3
  MaxCredit = 0
  MaxFaults = 0
  MaxCrashes = 0
  AllowStop = FALSE
  DrainTimeout = FALSE
SPECIFICATION Spec
INVARIANTS OneOutcome
CHECK_DEADLOCK FALSE
