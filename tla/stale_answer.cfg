CONSTANTS
  m1 = m1
  m2 = m2
  q1 = q1
  Sends = {m1, m2}
  PeerOf <- MCPeerOf
  OnionOnly = {}
  TorUp = FALSE
  Keyed = {}
  MaxPool = 1
  MaxOpens = 2
  MaxCloses = 0
  MaxCancels = 1
  NoSend = NoSend
SPECIFICATION PoolSpec
CHECK_DEADLOCK FALSE
INVARIANTS NoStreamMixed
