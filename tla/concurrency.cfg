SPECIFICATION AllSpec
CONSTANTS
  Recorder = {g1, g2}
  MaxTracks = 3
  MaxGen = 3
  Worker = {g1, g2, g3}
  ChunkLen <- ThreeChunks
  Capacity = 2
  Preserving = TRUE
  MayFail = TRUE
  MaxLen = 2
  MaxOutput = 3
  PipeSize = 1
  FailureThreshold = 3
  SuccessThreshold = 1
  RecoveryTimeout = 2
  Callers = {g1, g2}
  Ops = {"complete", "stream", "embed"}
  Outcomes = {"ok", "clientError", "transient"}
  MaxRetries = 2
INVARIANTS
  WorkerHasDB
  CleanExit
  OutputIsInput
  SuccessIsComplete
  TrippedIffThreshold
  
  ProbesAreAccounted
  RetryBudget
PROPERTIES
  ExitReached
  StreamReturns
  CommandReturns
  MethodReturns
  OpenIsTested
  TestIsDecided
