CONSTANTS
  p1 = p1
  p2 = p2
  p3 = p3
  Puts = {p1, p2}
  Dels = {d1}
  Gets = {}
  BucketDels = {}
  Sweeps = {w1}
  Copies = {}
  Content <- MCContent
  Chunks <- OneOrTwo
  MaxChunks = 2
  Providers = {a, b}
  R = 2
  SyncN = 1
  Faults = {"expire"}
  Serial = TRUE
  None = None
SPECIFICATION Spec
INVARIANTS NoOrphans
PROPERTIES SweepRestores
CHECK_DEADLOCK FALSE
