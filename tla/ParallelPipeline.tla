-------------------------- MODULE ParallelPipeline --------------------------
(***************************************************************************)
(* internal/filter/parallel_pipeline.go: Process runs groups of layers,    *)
(* some one after the other and some on goroutines of their own, and tests *)
(* after a group whether the budget is met.  A text is the sequence of     *)
(* layers whose work it carries.  A layer reports how much it saved in a   *)
(* unit of its own, so a report is any integer, whatever became of the     *)
(* text.                                                                   *)
(***************************************************************************)
EXTENDS Integers, Lists, Functions

CONSTANTS
  Groups,         \* the groups of Process: parallel, layers, gate
  OriginalTokens, \* of the input
  LayerBudget,    \* config.Budget, 0 for none
  LayerReports    \* what Apply may return as saved

Layer == UNION {Range(Groups[g].layers) : g \in DOMAIN Groups}

\* Process names every layer once.
ASSUME ParallelAssumption ==
  /\ OriginalTokens \in Nat /\ LayerBudget \in Nat /\ LayerReports \subseteq Int
  /\ Groups \in Seq([parallel : BOOLEAN, gate : BOOLEAN, layers : Seq(Layer)])
  /\ Groups # << >>
  /\ \A g, h \in DOMAIN Groups :
       /\ IsInjective(Groups[g].layers)
       /\ g # h => Range(Groups[g].layers) \intersect Range(Groups[h].layers) = {}

\* What Apply returns: the report, and whether the text is empty.
Result == [saved : LayerReports, empty : BOOLEAN]

VARIABLES
  parPc,      \* "group", "parallel", "exit" or "done"
  groupNo,    \* the group being run
  nextLayer,  \* its next layer
  active,     \* the layers that exist and are enabled
  parText,    \* output
  returned,   \* the layers that have returned
  result,     \* what they returned: results, stats.LayerStats
  runningSaved

parVars == <<parPc, groupNo, nextLayer, active, parText, returned, result, runningSaved>>

ParInit ==
  /\ parPc = "group" /\ groupNo = 1 /\ nextLayer = 1
  /\ active \in SUBSET Layer
  /\ parText = << >> /\ runningSaved = 0
  /\ returned = {} /\ result = [l \in Layer |-> [saved |-> 0, empty |-> TRUE]]

\* The active layers of group g, and whether they run one after the other.
ActiveOf(g) == Selected(Groups[g].layers, active)
Sequential(g) == ~Groups[g].parallel \/ Len(ActiveOf(g)) <= 1

Returns(l, r) ==
  /\ returned' = returned \union {l}
  /\ result' = [result EXCEPT ![l] = r]

-----------------------------------------------------------------------------
\* processLayer: the next layer of a sequential group; its output is taken
\* whatever it is.
processSequentialGroup ==
  /\ parPc = "group" /\ Sequential(groupNo)
  /\ nextLayer <= Len(ActiveOf(groupNo))
  /\ LET l == ActiveOf(groupNo)[nextLayer]
     IN  \E s \in LayerReports :
           /\ Returns(l, [saved |-> s, empty |-> FALSE])
           /\ runningSaved' = runningSaved + s
           /\ parText' = Append(parText, l)
  /\ nextLayer' = nextLayer + 1
  /\ UNCHANGED <<parPc, groupNo, active>>

\* processParallelGroup starts a goroutine per layer.
Spawn ==
  /\ parPc = "group" /\ ~Sequential(groupNo) /\ nextLayer = 1
  /\ parPc' = "parallel"
  /\ UNCHANGED <<groupNo, nextLayer, active, parText, returned, result, runningSaved>>

\* The goroutine of layer l applies it to the input of the group.
ApplyLayer(l) ==
  /\ parPc = "parallel"
  /\ l \in Range(ActiveOf(groupNo)) /\ l \notin returned
  /\ \E r \in Result : Returns(l, r)
  /\ UNCHANGED <<parPc, groupNo, nextLayer, active, parText, runningSaved>>

\* The layers of a group that saved something and left some text.
Savers(g) ==
  Selected(ActiveOf(g), {l \in Layer : result[l].saved > 0 /\ ~result[l].empty})

\* Mutant: the output of whichever layer finished last is kept.
ChainByCompletion ==
  /\ parPc = "parallel"
  /\ Range(ActiveOf(groupNo)) \subseteq returned
  /\ \/ Savers(groupNo) = << >> /\ UNCHANGED parText
     \/ \E l \in Range(Savers(groupNo)) : parText' = Append(parText, l)
  /\ parPc' = "group" /\ nextLayer' = Len(ActiveOf(groupNo)) + 1
  /\ UNCHANGED <<groupNo, active, returned, result, runningSaved>>

\* wg.Wait, then the results in layer order: each output that saved something
\* replaces the one before it, and was computed from the input of the group.
\* The running total is not touched.
Chain ==
  /\ parPc = "parallel"
  /\ Range(ActiveOf(groupNo)) \subseteq returned
  /\ parText' = IF Savers(groupNo) = << >> THEN parText
                ELSE Append(parText, Last(Savers(groupNo)))
  /\ parPc' = "group" /\ nextLayer' = Len(ActiveOf(groupNo)) + 1
  /\ UNCHANGED <<groupNo, active, returned, result, runningSaved>>

earlyExit == LayerBudget > 0 /\ OriginalTokens - runningSaved <= LayerBudget

\* The end of a group: an early exit, the next group, or the end of Process.
EndGroup ==
  /\ parPc = "group" /\ nextLayer > Len(ActiveOf(groupNo))
  /\ \/ /\ Groups[groupNo].gate /\ earlyExit
        /\ parPc' = "exit" /\ UNCHANGED <<groupNo, nextLayer>>
     \/ /\ ~(Groups[groupNo].gate /\ earlyExit)
        /\ groupNo < Len(Groups)
        /\ groupNo' = groupNo + 1 /\ nextLayer' = 1 /\ UNCHANGED parPc
     \/ /\ ~(Groups[groupNo].gate /\ earlyExit)
        /\ groupNo = Len(Groups)
        /\ parPc' = "done" /\ UNCHANGED <<groupNo, nextLayer>>
  /\ UNCHANGED <<active, parText, returned, result, runningSaved>>

ParDone == parPc \in {"exit", "done"} /\ UNCHANGED parVars

ParNext ==
  \/ processSequentialGroup \/ EndGroup \/ ParDone
  \/ Spawn \/ (\E l \in Layer : ApplyLayer(l)) \/ Chain

ParSpec == ParInit /\ [][ParNext]_parVars

-----------------------------------------------------------------------------
\* What a group contributes to the output, whatever the goroutines do.
WorkOf(g) ==
  CASE Sequential(g) -> ActiveOf(g)
    [] ~Sequential(g) /\ Savers(g) = << >> -> << >>
    [] OTHER -> <<Last(Savers(g))>>

\* "chain the results in a deterministic order": the output follows from what
\* the layers returned, an empty output and an odd report included, and never
\* from which goroutine of processParallelGroup was first.
OutputIsDeterministic ==
  parPc \in {"exit", "done"} => parText = FlattenSeq([g \in 1..groupNo |-> WorkOf(g)])

\* "layers are NOT mutually exclusive; they compose": the work of every layer
\* that saved something is in the output, also of those that ran side by side.
LayersCompose ==
  parPc \in {"exit", "done"} =>
    \A g \in 1..groupNo : Range(Savers(g)) \subseteq Range(parText)

=============================================================================
