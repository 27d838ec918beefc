SPECIFICATION ProviderFairSpec
CONSTANTS
  FailureThreshold = 2
  SuccessThreshold = 3
  RecoveryTimeout = 1
  Callers = {c1, c2}
  Ops = {"complete", "embed"}
  Outcomes = {"ok", "clientError", "transient"}
  MaxRetries = 1
PROPERTY
  TestIsDecided
