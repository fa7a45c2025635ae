CONSTANTS
  p1 = p1
  p2 = p2
  p3 = p3
  Puts = {p1}
  Dels = {}
  Gets = {}
  BucketDels = {b1}
  Sweeps = {}
  Copies = {}
  Content <- MCContent
  Chunks <- OneChunk
  MaxChunks = 1
  Providers = {a}
  R = 1
  SyncN = 1
  Faults = {}
  Serial = FALSE
  None = None
SPECIFICATION Spec
PROPERTIES DeleteBucketKeepsObjects
CHECK_DEADLOCK FALSE
