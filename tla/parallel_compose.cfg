SPECIFICATION ParSpec
CONSTANTS
  Groups <- FourGroups
  OriginalTokens = 4
  LayerBudget = 2
  LayerReports <- SomeReports
INVARIANT
  LayersCompose
