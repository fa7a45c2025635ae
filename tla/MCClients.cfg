CONSTANTS
  Keys <- MCKeys
  MaxChanges = 3
  Slash = 1
  MaxByte = 3
  Queries <- MCQueries
  Sample = 2
  Sizes = {0, 2, 3}
  MaxVersions = 3
  MaxClock = 3
  PerSecond = 2
  NoDate = NoDate
  BadDate = BadDate
  Star = Star
SPECIFICATION Spec
INVARIANTS TypeOK WalkIsFaithful FileIsOneVersion
PROPERTIES EveryObjectIsVisited
CHECK_DEADLOCK FALSE
