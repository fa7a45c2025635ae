CONSTANTS
  p1 = p1
  p2 = p2
  p3 = p3
  Puts = {p1, p2, p3}
  Dels = {d1}
  Gets = {}
  BucketDels = {b1}
  Sweeps = {}
  Copies = {p2, p3}
  Content <- MCContent
  Chunks <- OneChunk
  MaxChunks = 1
  Providers = {a, b}
  R = 2
  SyncN = 1
  Faults = {"store"}
  Serial = FALSE
  None = None
SYMMETRY ProviderSymmetry
SPECIFICATION Spec
INVARIANTS ReplicasMatchVersion DistinctProviders NoDanglingReplica
CHECK_DEADLOCK FALSE
