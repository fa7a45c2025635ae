CONSTANTS
  p1 = p1
  p2 = p2
  p3 = p3
  Puts = {p1, p2}
  Dels = {d1}
  Gets = {g1}
  BucketDels = {}
  Sweeps = {}
  Copies = {}
  Content <- MCContent
  Chunks <- TwoChunks
  MaxChunks = 2
  Providers = {a}
  R = 1
  SyncN = 1
  Faults = {"upload", "body", "delete", "store", "disconnect", "crash"}
  Serial = FALSE
  None = None
SYMMETRY ProviderSymmetry
SPECIFICATION Spec
INVARIANTS TypeOK ChunkMapComplete GetNeverMixes UndisturbedGetIsExact
CHECK_DEADLOCK FALSE
