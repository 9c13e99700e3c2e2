CONSTANTS
  r1 = r1
  r2 = r2
  r3 = r3
  p1 = p1
  p2 = p2
  p3 = p3
  h1 = h1
  h2 = h2
  Reqs <- MCReqs
  Peers <- MCThreePeers
  Self = {p2}
  Caller <- OwnCaller
  Hash <- OwnHash
  Async = {r1}
  Slow = {r2}
  PlainHandler = {r1, r3}
  Billable = {r1, r2}
  Held = {r2}
  Prepaid = {p1}
  TaskSlots = 1
  QueueMax = 1
  Price = 2
  HardLimit <- TightLimit
  SkillMax = 1
  MeterMax = 0
  TitForTat = FALSE
  MaxReceived = 2
  MaxCredit = 0
  MaxFaults = 1
  MaxCrashes = 1
  AllowStop = TRUE
  DrainTimeout = TRUE
SPECIFICATION FairSpec
PROPERTIES CallAnswered AcceptedIsDelivered UnfinishedJobSettles
CHECK_DEADLOCK FALSE
