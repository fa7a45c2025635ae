CONSTANTS
  h1 = h1
  h2 = h2
  h3 = h3
  ChunkBytes = 2
  MaxFrame = 3
  MaxBody = 4
  Undeclared = Undeclared
  Unparsable = Unparsable
  ReplicaList <- MCReplicaList
  EnabledSets = {{h1, h2, h3}, {h2, h3}, {}}
  NoRange = {h2}
  Truncating = {h3}
  Stuck = {h1}
  MaxBlob = 2
  MaxWindow = 4
SPECIFICATION Spec
INVARIANTS TypeOK CommittedBodyIsWhole
PROPERTIES ReadKeepsPromise ReadComesToRest
CHECK_DEADLOCK FALSE
