SPECIFICATION MCSpec
CONSTANTS
  l1 = l1
  l2 = l2
  l3 = l3
  Line <- Lines
  LineTokens <- Weight
  Proc = {p1, p2}
  Requests <- AllRequests
  Mode = {"minimal", "aggressive"}
  Query = {"none", "debug"}
  Budget = {0, 1, 2}
  Command = {"git"}
  InitMode = "minimal"
  InitBudget = 0
  InitQuery = "none"
  MaxContextTokens = 5
  StreamThreshold = 1
  ChunkSize = 2
  ValidateOutput = {TRUE, FALSE}
  FailSafeMode = TRUE
  TeeOnFailure = TRUE
  ShortCircuitBudget = TRUE
  CacheEnabled = TRUE
  CacheMaxSize = 2
  MaxSecond = 1
  NoKey = NoKey
  NoPiece = NoPiece
INVARIANTS
  OwnConfiguration
  CacheHoldsItsKey
  
  BudgetIsOwn
  CacheHoldsItsBudget
  NeverEmpty
