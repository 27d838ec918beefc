SPECIFICATION CachesSpec
SYMMETRY CacheSymmetry
CONSTANTS
  Key = {k1, k2, k3}
  Value = {v1, v2}
  Miss = Miss
  MaxSize = 2
  TTL = 1
  File = {NoFile, f1}
  NoFile = NoFile
  Sizes = {1, 2, 5}
  HashLimits <- MCHashLimits
  MaxEntries = 2
  EntryTTL = 1
  MaxClock = 3
  NoEntry = NoEntry
  Caller = {n1, n2}
  MaxTexts = 2
  LayerSize = 2
  MaxUses = 3
  Nil = Nil
  Process = {p1}
  Path = {g1, g2}
  Content = {a, long}
  Long = {long}
  Trimmed = a
  NoContent = NoContent
  MaxSnapshots = 1
  MaxRenders = 1
  MaxMemo = 1
  Client = {c1, c2}
  Requests = 2
  Window = 2
  MaxTime = 5
  MaxCount = 3
INVARIANTS
  TokenCacheIsExact
  LayersAgree
  StoreAlwaysLoads
  SnapshotsAreCurrent
  ShareIsKept
PROPERTIES
  EvictsLeastRecent
  ImplementsBoundedCache
  SetKeepsLimits
  EvictsOldestStamp
  ScanImplementsBoundedCache
