SPECIFICATION LayersSpec
CONSTANTS
  Configs <- LayerConfigs
  Query = TRUE
  TOML = TRUE
  SessionTracking = TRUE
  SmallKV = TRUE
  LoadsDuring = TRUE
  Budgets = {0, 1, 2}
  MinH2O = 2
  MaxTokens = 3
  Texts <- ShortTexts
  LineBudgets = {0, 3, 5}
  Reserve = 1
  Edge = 1
  SmallGap = 1
  MarkerTokens = 1
  Word = {a, b}
  MaxWords = 6
  MaxApplies = 2
  WindowSize = 3
  MinPattern = 2
  MetaLimits = {0, 1}
  TextLines <- SomeTextLines
  MaxLines = 4
  MinSentences = 3
  Scores = {0, 1, 2}
  Thresholds = {2}
  SmallSaving = 1
  UnitCount = 4
  SimLevels = 2
  SimilarityThreshold = 2
  CoreLimits = {1, 3}
  Groups <- FourGroups
  OriginalTokens = 4
  LayerBudget = 2
  LayerReports <- SomeReports
  Hash = {h1, h2, h3}
  Applier = {a1, a2}
  MaxEntries = 2
  MaxSegments = 2
  MaxSessions = 3
INVARIANTS
  OverBudgetIsEnforced
  SelectionIsGreedy
  OutputIsFaithful
  Lossless
  LinesAreKept
  ClusteringIsExact
  OutputIsDeterministic
  MarkerWasShown
