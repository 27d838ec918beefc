------------------------------ MODULE MCCaches ------------------------------
(***************************************************************************)
(* The caches of the program, the store of context reads and the rate      *)
(* limiter, which all keep a bounded table: one of them at a time, chosen  *)
(* in the initial state; the others stay as they were created.             *)
(***************************************************************************)
EXTENDS LRUCache, HashCache, ScanCache, TokenCache, MultiLayerCache, ContextRead, RateLimiter

VARIABLE cacheUnderTest

\* Keys, values and files are interchangeable.
CacheSymmetry ==
  UNION {Permutations(S) : S \in {Key, Value, Path}}

allVars == <<vars, hashVars, scanVars, tokenVars, layerVars, readVars, limiterVars,
             cacheUnderTest>>

MCHashLimits == {<<2, 4>>, <<3, 5>>, <<0, 4>>}

CachesInit ==
  /\ cacheUnderTest \in {"lru", "hash", "scan", "token", "layers", "store", "limiter"}
  /\ Init /\ HashInit /\ ScanInit /\ TokenInit /\ LayerInit /\ ReadInit /\ LimiterInit
  \* a parameter is chosen only for the cache under test
  /\ cacheUnderTest # "hash" => limits = <<2, 4>>
  /\ cacheUnderTest # "scan" => flavour = "file"
  /\ cacheUnderTest # "layers" => emptyKey = Nil

CachesNext ==
  \/ /\ cacheUnderTest = "lru" /\ Next
     /\ UNCHANGED <<hashVars, scanVars, tokenVars, layerVars, readVars, limiterVars, cacheUnderTest>>
  \/ /\ cacheUnderTest = "hash" /\ HashNext
     /\ UNCHANGED <<vars, scanVars, tokenVars, layerVars, readVars, limiterVars, cacheUnderTest>>
  \/ /\ cacheUnderTest = "scan" /\ ScanNext
     /\ UNCHANGED <<vars, hashVars, tokenVars, layerVars, readVars, limiterVars, cacheUnderTest>>
  \/ /\ cacheUnderTest = "token" /\ TokenNext
     /\ UNCHANGED <<vars, hashVars, scanVars, layerVars, readVars, limiterVars, cacheUnderTest>>
  \/ /\ cacheUnderTest = "layers" /\ LayerNext
     /\ UNCHANGED <<vars, hashVars, scanVars, tokenVars, readVars, limiterVars, cacheUnderTest>>
  \/ /\ cacheUnderTest = "store" /\ ReadNext
     /\ UNCHANGED <<vars, hashVars, scanVars, tokenVars, layerVars, limiterVars, cacheUnderTest>>
  \/ /\ cacheUnderTest = "limiter" /\ LimiterNext
     /\ UNCHANGED <<vars, hashVars, scanVars, tokenVars, layerVars, readVars, cacheUnderTest>>

CachesSpec == CachesInit /\ [][CachesNext]_allVars
=============================================================================
