SPECIFICATION ReadSpec
CONSTANTS
  Process = {p1}
  Path = {f1}
  Content = {a, b}
  Long = {}
  Trimmed = a
  NoContent = NoContent
  MaxSnapshots = 1
  MaxRenders = 3
  MaxMemo = 3
INVARIANT
  DeltaFromLastSeen
