------------------------------ MODULE MCLayers ------------------------------
(***************************************************************************)
(* The two pipelines and the layers whose work is modelled, one at a time: *)
(* the coordinator, its parallel variant, the budget enforcer, the session *)
(* tracker of layer 10, the meta-tokens of layer 15, the TF-IDF filter of  *)
(* layer 0 and the clusters of layer 35.  The variable subject says which  *)
(* a behaviour is about; the others stay in an initial state.              *)
(***************************************************************************)
EXTENDS PipelineCoordinator, MCParallelPipeline, BudgetEnforcer, SessionTracker,
        MetaToken, TFIDF, SemanticCache

VARIABLE subject

\* Every layer with a flag of its own.
AllLayers == {Plan[n].name : n \in DOMAIN Plan} \ {"end"}

\* Layers that measure what they saved and report all of it.
MeasuringLayers ==
  {Plan[n].name : n \in {m \in DOMAIN Plan : Plan[m].report \in Measuring \union {"recalled"}}}
    \ {"end"}

LayerConfigs == {AllLayers, MeasuringLayers}

SomeLines ==
  { [band |-> "critical", tokens |-> 1], [band |-> "important", tokens |-> 1],
    [band |-> "important", tokens |-> 2], [band |-> "plain", tokens |-> 1] }

\* Up to six lines: header, footer and a gap longer than SmallGap between.
ShortTexts == SeqOf(SomeLines, 5) \union {s \o <<[band |-> "plain", tokens |-> 1]>> :
                                          s \in [1..5 -> SomeLines]}

\* A blank line, lines of one sentence and one of two.
SomeTextLines == {<< >>, <<"p">>, <<"q">>, <<"p", "q">>}

allVars == <<subject, vars, parVars, enforcerVars, sessionVars, metaVars, tfVars,
             clusterVars>>

\* Inputs are chosen only for the subject.
ChosenFor(who, fixed) == IF subject = who THEN TRUE ELSE fixed

LayersInit ==
  /\ subject \in {"coordinator", "parallel", "enforcer", "session", "metaTokens",
                  "tfidf", "clusters"}
  /\ ChosenFor("coordinator", enabled = AllLayers)
  /\ ChosenFor("parallel", active = {})
  /\ ChosenFor("enforcer", text = << >> /\ lineBudget = 0)
  /\ ChosenFor("metaTokens", metaLimit = 0)
  /\ ChosenFor("tfidf", lines = << >>)
  /\ ChosenFor("clusters", maxCores = 1 /\ likeness = [p \in Pair |-> 0])
  /\ Init /\ ParInit /\ EnforcerInit /\ SessionInit /\ MetaInit /\ TFInit
  /\ ClusterInit

LayersNext ==
  \/ /\ subject = "coordinator" /\ Next
     /\ UNCHANGED <<subject, parVars, enforcerVars, sessionVars, metaVars, tfVars, clusterVars>>
  \/ /\ subject = "parallel" /\ ParNext
     /\ UNCHANGED <<subject, vars, enforcerVars, sessionVars, metaVars, tfVars, clusterVars>>
  \/ /\ subject = "enforcer" /\ EnforcerNext
     /\ UNCHANGED <<subject, vars, parVars, sessionVars, metaVars, tfVars, clusterVars>>
  \/ /\ subject = "session" /\ SessionNext
     /\ UNCHANGED <<subject, vars, parVars, enforcerVars, metaVars, tfVars, clusterVars>>
  \/ /\ subject = "metaTokens" /\ MetaNext
     /\ UNCHANGED <<subject, vars, parVars, enforcerVars, sessionVars, tfVars, clusterVars>>
  \/ /\ subject = "tfidf" /\ TFNext
     /\ UNCHANGED <<subject, vars, parVars, enforcerVars, sessionVars, metaVars, clusterVars>>
  \/ /\ subject = "clusters" /\ ClusterNext
     /\ UNCHANGED <<subject, vars, parVars, enforcerVars, sessionVars, metaVars, tfVars>>

LayersSpec == LayersInit /\ [][LayersNext]_allVars
=============================================================================
