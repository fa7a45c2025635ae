CONSTANTS
  d1 = d1
  d2 = d2
  t1 = t1
  t2 = t2
  Providers = {d1, d2, t1, t2}
  Durable = {d1, d2}
  R = 2
  SyncReplicas = 1
  FailThreshold = 1
  NoReplica = NoReplica
  ProviderList <- MCProviderList
  MaxBytes <- MCMaxBytes
  ChunkSizes = {1, 2, 3, 4}
  IntBits = 3
  MaxFails = 2
SPECIFICATION PoolSpec
INVARIANTS TypeOK CountsOutstanding ReplicaBudget SendNeverBlocks FailureIsTotal RegisteredAreStored RoundRobin
PROPERTIES HealthyDurableIsTried SelectionKeepsOrder KeepsPromise EventuallyQuiet
CHECK_DEADLOCK FALSE
