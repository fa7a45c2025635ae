CONSTANTS
  p1 = p1
  p2 = p2
  p3 = p3
  Puts = {p1, p2}
  Dels = {}
  Gets = {}
  BucketDels = {}
  Sweeps = {w1}
  Copies = {}
  Content <- MCContent
  Chunks <- OneChunk
  MaxChunks = 1
  Providers = {a, b}
  R = 2
  SyncN = 1
  Faults = {}
  Serial = FALSE
  None = None
SYMMETRY ProviderSymmetry
SPECIFICATION Spec
INVARIANTS ReplicasMatchVersion
CHECK_DEADLOCK FALSE
