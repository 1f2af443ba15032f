SPECIFICATION Spec
CONSTANTS
  Handles = {h1, h2}
  Values = {a, b}
  ChunkMax = 2
  MaxSize = 3
  MaxMessages = 3
  MaxFailures = 1
  SharedSize = 1
  SharedMessages = 2
SYMMETRY Renamings
INVARIANTS
  EveryChunkIsThere
  EveryOrphanHasACause
  ChunksAreContiguous
  ReadYourWrites
  FailedHandleIsDone
  CacheHoldsItsChunks
CHECK_DEADLOCK FALSE
