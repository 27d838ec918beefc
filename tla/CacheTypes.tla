---------------------------- MODULE CacheTypes ----------------------------
(***************************************************************************)
(* What the caches of the program have in common.                          *)
(***************************************************************************)
CONSTANTS
  Key,    \* keys: hashes of texts, injective
  Value,  \* what is stored
  Miss    \* the answer of a lookup that finds nothing

ASSUME CacheAssumption == Miss \notin Value
=============================================================================
