CONSTANTS
  e1 = e1
  e2 = e2
  e3 = e3
  protocol = protocol
  identity = identity
  Events = {e1, e2, e3}
  Buses = {protocol, identity}
  BusOf <- MCBusOf
  MaxTimeouts = 2
SPECIFICATION LoopSpec
CHECK_DEADLOCK FALSE
PROPERTIES LeftoversTakeNothing
