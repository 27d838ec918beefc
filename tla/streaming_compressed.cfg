SPECIFICATION StreamSpec
CONSTANTS
  Worker = {w1, w2}
  ChunkLen <- ThreeChunks
  Capacity = 2
  Preserving = FALSE
  MayFail = FALSE
  MaxLen = 2
INVARIANT
  AllWritten
