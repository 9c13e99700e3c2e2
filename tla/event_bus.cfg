CONSTANTS
  e1 = e1
  e2 = e2
  e3 = e3
  s1 = s1
  Events <- MCEvents
  Subs <- MCSubs
  Wants <- MCWants
  From <- MCFrom
  Until <- MCUntil
  Size = 2
  MaxTime = 3
SPECIFICATION FairSpec
CHECK_DEADLOCK FALSE
INVARIANTS InOrderUnlessOverrun
PROPERTIES EmittedIsReceived DeferredSettles
