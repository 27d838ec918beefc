SPECIFICATION ExecSpec
CONSTANTS
  MaxOutput = 3
  PipeSize = 1
INVARIANT
  OutputComplete
