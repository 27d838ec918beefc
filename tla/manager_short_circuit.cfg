SPECIFICATION BudgetSpec
CONSTANTS
  l1 = l1
  l2 = l2
  l3 = l3
  Line <- Lines
  LineTokens <- Weight
  Proc = {p1}
  Requests <- BudgetRequests
  Mode = {"minimal", "aggressive"}
  Query = {"none", "debug"}
  Budget = {0, 1, 2}
  Command = {"git"}
  InitMode = "minimal"
  InitBudget = 0
  InitQuery = "none"
  MaxContextTokens = 2
  StreamThreshold = 1
  ChunkSize = 1
  ValidateOutput = {TRUE}
  FailSafeMode = TRUE
  TeeOnFailure = TRUE
  ShortCircuitBudget = TRUE
  CacheEnabled = TRUE
  CacheMaxSize = 2
  MaxSecond = 0
  NoKey = NoKey
  NoPiece = NoPiece
INVARIANTS
  NoChunkDropped
