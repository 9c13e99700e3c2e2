CONSTANTS
  n0 = n0
  n1 = n1
  n2 = n2
  b1 = b1
  p1 = p1
  Nodes = {n0, n1, n2}
  Provider = n0
  Ids = {1, 2}
  Hops = 2
  Fanout = 1
  RepublishFanout = 1
  MaxEdits = 1
  MaxQueries = 1
  MaxOutages = 1
  Peers = {b1, p1}
  Boots = {b1}
  Floor = 2
  EvictFloor = 2
  FromConfig = TRUE
SPECIFICATION MCSpec
CHECK_DEADLOCK FALSE
INVARIANTS OwnRowMatches
PROPERTIES GoneIsForgotten  FindsPeers
