---------------------------- MODULE SemanticCache ----------------------------
(***************************************************************************)
(* internal/filter/semantic_cache.go, layer 35: greedySeedCluster groups   *)
(* the units of a text around seeds.  The seed is the unit most similar to *)
(* all that are left; the sum that says so is computed once and kept up to *)
(* date while units leave.  A similarity is a number of SimLevels steps,   *)
(* whatever words the two units share.                                     *)
(***************************************************************************)
EXTENDS Integers, Lists, Functions, FiniteSetsExt

CONSTANTS
  UnitCount,            \* units of a text
  SimLevels,            \* similarities are 0..SimLevels, equal units have SimLevels
  SimilarityThreshold,
  CoreLimits            \* values of MaxCores

ASSUME SemanticAssumption ==
  /\ UnitCount \in Nat /\ SimLevels \in Nat
  /\ SimilarityThreshold \in 1..SimLevels
  /\ CoreLimits \subseteq Nat

Unit == 1..UnitCount
Pair == {p \in Unit \X Unit : p[1] < p[2]}
NoSeed == 0

VARIABLES
  clusterPc,  \* "seed", "join", "rest" or "done"
  maxCores,   \* config.MaxCores
  likeness,   \* the similarity matrix, above its diagonal
  repScore,
  assigned,   \* units with assigned[i]
  seed,       \* seedIdx
  joinAt,     \* next unit the seed is compared with
  members,    \* the items of the cluster in the making
  clusters    \* records [core, items]

clusterVars == <<clusterPc, maxCores, likeness, repScore, assigned, seed, joinAt, members,
                 clusters>>

sim(j, k) ==
  IF j = k THEN SimLevels
  ELSE IF j < k THEN likeness[<<j, k>>] ELSE likeness[<<k, j>>]

\* How similar unit k is to the other units of U.
Similarity(k, U) == SumFunctionOnSet([j \in Unit |-> sim(k, j)], U \ {k})

ClusterInit ==
  /\ clusterPc = "seed" /\ maxCores \in CoreLimits
  /\ likeness \in [Pair -> 0..SimLevels]
  /\ repScore = [k \in Unit |-> Similarity(k, Unit)]
  /\ assigned = {} /\ seed = NoSeed /\ joinAt = 1 /\ members = {} /\ clusters = << >>

-----------------------------------------------------------------------------
Free == Unit \ assigned
Full == Len(clusters) >= maxCores

\* The first of the units left with the highest score starts a cluster.
PickSeed ==
  /\ clusterPc = "seed" /\ Free # {} /\ ~Full
  /\ seed' = Min({k \in Free : \A j \in Free : repScore[j] <= repScore[k]})
  /\ assigned' = assigned \union {seed'}
  /\ members' = {seed'} /\ joinAt' = 1
  /\ clusterPc' = "join"
  /\ UNCHANGED <<maxCores, likeness, repScore, clusters>>

\* What is left of the scores once unit j is gone.
ScoresWithout(j, left) ==
  [k \in Unit |-> IF k \in left THEN repScore[k] - sim(k, j) ELSE repScore[k]]

\* The next unit joins if it is free and similar enough to the seed.
Join ==
  /\ clusterPc = "join" /\ joinAt \in Unit
  /\ IF joinAt \in Free /\ sim(seed, joinAt) >= SimilarityThreshold
       THEN /\ members' = members \union {joinAt}
            /\ assigned' = assigned \union {joinAt}
            /\ repScore' = ScoresWithout(joinAt, Unit \ assigned')
       ELSE UNCHANGED <<members, assigned, repScore>>
  /\ joinAt' = joinAt + 1
  /\ UNCHANGED <<clusterPc, maxCores, likeness, seed, clusters>>

\* Mutant: the seed's own contribution is not removed.
CloseClusterKeepsSeed ==
  /\ clusterPc = "join" /\ joinAt \notin Unit
  /\ clusters' = Append(clusters, [core |-> seed, items |-> members])
  /\ seed' = NoSeed /\ joinAt' = 1 /\ members' = {}
  /\ clusterPc' = "seed"
  /\ UNCHANGED <<maxCores, likeness, assigned, repScore>>

\* "Remove seed's contribution from remaining repScores".
CloseCluster ==
  /\ clusterPc = "join" /\ joinAt \notin Unit
  /\ repScore' = ScoresWithout(seed, Free)
  /\ clusters' = Append(clusters, [core |-> seed, items |-> members])
  /\ seed' = NoSeed /\ joinAt' = 1 /\ members' = {}
  /\ clusterPc' = "seed"
  /\ UNCHANGED <<maxCores, likeness, assigned>>

\* No unit is left, or the limit is reached: "add any remaining unassigned
\* items as single-item clusters".
AddRemaining ==
  /\ clusterPc = "seed" /\ (Free = {} \/ Full)
  /\ LET left == Selected([k \in Unit |-> k], Free)
     IN  clusters' = clusters \o [j \in DOMAIN left |-> [core |-> left[j], items |-> {left[j]}]]
  /\ clusterPc' = "done"
  /\ UNCHANGED <<maxCores, likeness, repScore, assigned, seed, joinAt, members>>

\* mergeToCores: the cores are shown, and with more than two members how many
\* there are; a result that saves little is dropped, and Apply starts anew.
MergeToCores ==
  /\ clusterPc = "done"
  /\ clusterPc' = "seed"
  /\ repScore' = [k \in Unit |-> Similarity(k, Unit)]
  /\ assigned' = {} /\ clusters' = << >>
  /\ UNCHANGED <<maxCores, likeness, seed, joinAt, members>>

ClusterNext == PickSeed \/ Join \/ CloseCluster \/ AddRemaining \/ MergeToCores

ClusterSpec == ClusterInit /\ [][ClusterNext]_clusterVars

-----------------------------------------------------------------------------
\* When a seed is picked, every score is what computing it again over the
\* units left would give; in the end no unit is lost or shown twice, a member
\* of a cluster is similar to its core, and no seed would have fitted into an
\* earlier cluster (greedySeedCluster).
ClusteringIsExact ==
  /\ clusterPc = "seed" => \A k \in Free : repScore[k] = Similarity(k, Free)
  /\ clusterPc = "done" =>
       /\ \A k \in Unit : Cardinality({c \in DOMAIN clusters : k \in clusters[c].items}) = 1
       /\ \A c \in DOMAIN clusters : \A k \in clusters[c].items :
            sim(clusters[c].core, k) >= SimilarityThreshold
       /\ \A c, d \in DOMAIN clusters :
            c < d /\ c <= maxCores =>
              sim(clusters[c].core, clusters[d].core) < SimilarityThreshold
=============================================================================
