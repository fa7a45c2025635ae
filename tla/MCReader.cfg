CONSTANTS
  Workers = {w1, w2}
  OutBuffers = 1
  ObjSize = 7
  Ranges <- MCRanges
  StreamChunk = 3
  MinChunk = 1
  ReadSize = 2
  Faults = {"fetch", "short", "cancel", "write"}
  None = None
SPECIFICATION Spec
INVARIANTS TypeOK BytesInOrder EofMeansComplete FirstFailureBeforeHeaders
PROPERTIES PrimeReturns CloseReleases
CHECK_DEADLOCK FALSE
