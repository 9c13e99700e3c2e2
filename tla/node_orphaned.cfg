CONSTANTS
  MaxSpawns = 4
  MaxRestarts = 2
  Threshold = 1
SPECIFICATION WatchmanSpec
CHECK_DEADLOCK FALSE
INVARIANTS AlwaysTracked
