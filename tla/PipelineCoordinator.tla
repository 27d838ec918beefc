------------------------ MODULE PipelineCoordinator ------------------------
(***************************************************************************)
(* internal/filter/pipeline_process.go: one Process call of the            *)
(* PipelineCoordinator, layer by layer.  Of the text only its size in      *)
(* tokens is kept; what a layer does to it is known only as far as the     *)
(* layer's own report of tokens saved lets the coordinator know it, and    *)
(* that report is what the early exit trusts.                              *)
(***************************************************************************)
EXTENDS Integers, Sequences

CONSTANTS
  Configs,         \* configurations: sets of layers whose Enable flag is set
  Query,           \* cfg.QueryIntent # ""
  TOML,            \* a TOML filter is set and EnableTOMLFilter is on
  SessionTracking, SmallKV,
  LoadsDuring,     \* the BPE codec may finish loading during a Process call
  Budgets,         \* budgets Process runs under, 0 for none
  MinH2O,          \* shouldSkipH2O's 50 tokens
  MaxTokens        \* bound on the size of a text

ASSUME CoordinatorAssumption ==
  /\ {Query, TOML, SessionTracking, SmallKV, LoadsDuring} \subseteq BOOLEAN
  /\ Budgets \subseteq Nat
  /\ MinH2O \in Nat /\ MaxTokens \in Nat

\* How a layer counts what it saved: "guarded" measures and keeps the input
\* unless something was saved, "exact" measures, "clamped" measures but
\* reports growth as 0, "mixed" does so on one of its paths, "counted" counts
\* the words or chunks it dropped, "words" by how many words the text shrank
\* and "bytes" a quarter of the bytes; "recalled" is guarded but repeats what
\* it measured when it first saw the text.
Reports ==
  {"guarded", "exact", "clamped", "mixed", "counted", "words", "bytes", "recalled"}
Measuring == {"guarded", "exact"}

L(n, s, g, r) == [name |-> n, stage |-> s, gate |-> g, report |-> r]
Checkpoint(s) == L("end", s, "check", "exact")

\* The layers in the order Process runs them, with the gate that may skip
\* each, and Process's own test for early exit after each stage.
Plan == <<
  L("0_tfidf", "pre", "none", "guarded"),                Checkpoint("pre"),
  L("1_entropy", "core", "content", "clamped"),
  L("2_perplexity", "core", "content", "clamped"),
  L("3_goal_driven", "core", "query", "clamped"),
  L("4_ast_preserve", "core", "none", "mixed"),
  L("5_contrastive", "core", "query", "clamped"),
  L("6_ngram", "core", "content", "bytes"),
  L("7_evaluator", "core", "none", "clamped"),
  L("8_gist", "core", "none", "clamped"),
  L("9_hierarchical", "core", "none", "clamped"),
  L("10_neural", "core", "none", "mixed"),               Checkpoint("core"),
  L("11_compaction", "semantic", "content", "recalled"),
  L("12_attribution", "semantic", "none", "guarded"),
  L("13_h2o", "semantic", "tokens", "guarded"),
  L("14_attention_sink", "semantic", "content", "exact"),
  L("15_meta_token", "semantic", "content", "counted"),
  L("16_semantic_chunk", "semantic", "content", "counted"),
  L("17_sketch_store", "semantic", "budget", "counted"),
  L("18_lazy_pruner", "semantic", "budget", "counted"),
  L("19_semantic_anchor", "semantic", "none", "counted"),
  L("20_agent_memory", "semantic", "none", "words"),     Checkpoint("semantic"),
  L("30_symbolic_compress", "new", "none", "guarded"),
  L("31_phrase_grouping", "new", "none", "guarded"),
  L("32_numerical_quant", "new", "none", "guarded"),
  L("33_dynamic_ratio", "new", "none", "guarded"),       Checkpoint("new"),
  L("34_hypernym", "phase2", "none", "guarded"),
  L("35_semantic_cache", "phase2", "none", "guarded"),
  L("36_scope", "phase2", "none", "exact"),
  L("37_kvzip", "phase2", "none", "guarded"),
  L("38_question_aware", "recovery", "query", "exact"),
  L("39_density_adaptive", "recovery", "content", "exact") >>

RecoveryStart == CHOOSE i \in DOMAIN Plan : Plan[i].name = "38_question_aware"

VARIABLES
  enabled,   \* the flags of p.config, fixed by NewPipelineCoordinator
  pc,        \* "idle", "toml", "layers", "session", "enforce", "compensate",
             \* "done" or, after an early exit, "exit"
  pos,       \* position in Plan
  original,  \* stats.OriginalTokens
  tokens,    \* size of the text so far
  saved,     \* stats.runningSaved
  budget,    \* p.config.Budget
  ran,       \* stages with a key in stats.LayerStats
  bpe,       \* bpeReady: EstimateTokens counts with the codec
  measured   \* history: every change of the text so far was made by a layer
             \* that measures it with one tokenizer

callVars == <<pc, pos, original, tokens, saved, budget, ran, bpe, measured>>
vars == <<enabled, callVars>>

\* Core layers 1-5 and 7-9 are built whatever the flags say (3 and 5 if there
\* is a query); Process reads their flags again from p.config.
Core == {"1_entropy", "2_perplexity", "3_goal_driven", "4_ast_preserve",
         "5_contrastive", "7_evaluator", "8_gist", "9_hierarchical"}
QueryBuilt == {"3_goal_driven", "5_contrastive", "38_question_aware"}

Built(l) ==
  /\ l.gate # "check"
  /\ l.name \in Core \/ l.name \in enabled
  /\ l.name \in QueryBuilt => Query

\* The filter exists and, for a core layer, p.config has its flag.  The
\* defaults of zero-config are set in the parameter cfg after it was copied
\* to p.config, so they are not seen here.
Switched(l) == Built(l) /\ l.name \in enabled

shouldEarlyExit(s) == budget > 0 /\ original - s <= budget

\* Whether the gate lets the layer run; "content" gates look at the text.
GateOpen(l, open) ==
  CASE l.gate = "none"    -> TRUE
    [] l.gate = "query"   -> Query
    [] l.gate = "budget"  -> budget > 0
    [] l.gate = "tokens"  -> tokens >= MinH2O
    [] l.gate = "content" -> open
    [] OTHER -> FALSE

\* The report a layer of kind k makes when it turns t tokens into u.
Reported(k, t, u) ==
  CASE k = "clamped" -> {IF u > t THEN 0 ELSE t - u}
    [] k = "mixed"   -> {t - u, IF u > t THEN 0 ELSE t - u}
    [] k = "counted" -> 0..MaxTokens
    [] k \in {"words", "bytes"} -> -MaxTokens..MaxTokens
    [] OTHER         -> {t - u}

\* The ways layer l may report: a compaction cached before the codec was ready
\* repeats a saving of the old measure, which is no more than a count now.
Kinds(l) ==
  IF l.report # "recalled" THEN {l.report}
  ELSE IF bpe THEN {"guarded", "counted"} ELSE {"guarded"}

Sizes(k) == IF k = "guarded" THEN 0..tokens ELSE 0..MaxTokens

Init ==
  /\ enabled \in Configs
  /\ pc = "idle" /\ pos = 1
  /\ original = 0 /\ tokens = 0 /\ saved = 0 /\ budget = 0
  /\ ran = {} /\ bpe = FALSE /\ measured = TRUE

\* Process is called, or ProcessWithBudget of the manager.
Begin(n, b) ==
  /\ pc = "idle"
  /\ pc' = "toml" /\ pos' = 1
  /\ original' = n /\ tokens' = n /\ saved' = 0
  /\ budget' = b
  /\ ran' = {} /\ measured' = TRUE
  /\ UNCHANGED bpe

\* The codec WarmupBPETokenizer loads in the background is ready: from now on
\* every text, the one in work included, measures differently.
CodecLoaded ==
  /\ ~bpe
  /\ pc = "idle" \/ (LoadsDuring /\ pc \notin {"exit", "done"})
  /\ bpe' = TRUE
  /\ tokens' \in IF tokens = 0 THEN {0} ELSE 1..MaxTokens
  /\ measured' = FALSE
  /\ UNCHANGED <<pc, pos, original, saved, budget, ran>>

\* The TOML filter counts bytes and is adopted only when it saved some; its
\* saving is not added to runningSaved.  Fewer bytes may be more tokens.
TOMLFilter ==
  /\ pc = "toml"
  /\ TOML
  /\ tokens' \in 0..MaxTokens
  /\ ran' = ran \union {"pre"} /\ measured' = FALSE
  /\ pc' = IF shouldEarlyExit(saved) THEN "exit" ELSE "layers"
  /\ UNCHANGED <<pos, original, saved, budget, bpe>>

TOMLSkipped ==
  /\ pc = "toml"
  /\ pc' = "layers"
  /\ UNCHANGED <<pos, original, tokens, saved, budget, ran, bpe, measured>>

\* Where Process goes after a layer of stage s that leaves runningSaved at v:
\* it returns from the first four stages, but only leaves the fifth.
Advance(s, v) ==
  LET exit == shouldEarlyExit(v)
      past == IF exit /\ s = "phase2" THEN RecoveryStart ELSE pos + 1
  IN  IF exit /\ s \notin {"phase2", "recovery"}
        THEN pc' = "exit" /\ UNCHANGED pos
        ELSE /\ pos' = past
             /\ pc' = IF past > Len(Plan) THEN "session" ELSE "layers"

\* processLayer and the test for early exit that follows it.
processLayer(l) ==
  /\ pc = "layers" /\ l = Plan[pos] /\ Switched(l)
  /\ \E open \in BOOLEAN : GateOpen(l, open)
  /\ \E k \in Kinds(l) :
       /\ tokens' \in Sizes(k)
       /\ \E r \in Reported(k, tokens, tokens') :
            saved' = saved + r /\ Advance(l.stage, saved + r)
       /\ measured' = (measured /\ k \in Measuring)
  /\ ran' = ran \union {l.stage}
  /\ UNCHANGED <<original, budget, bpe>>

\* A layer that is switched off or gated: no test follows it.
SkipLayer(l) ==
  /\ pc = "layers" /\ l = Plan[pos] /\ l.gate # "check"
  /\ \E open \in BOOLEAN : ~Switched(l) \/ ~GateOpen(l, open)
  /\ pos' = pos + 1
  /\ pc' = IF pos + 1 > Len(Plan) THEN "session" ELSE "layers"
  /\ UNCHANGED <<original, tokens, saved, budget, ran, bpe, measured>>

\* Process's test after a stage, taken even when no layer of it ran.
StageEnd(l) ==
  /\ pc = "layers" /\ l = Plan[pos] /\ l.gate = "check"
  /\ Advance(l.stage, saved)
  /\ UNCHANGED <<original, tokens, saved, budget, ran, bpe, measured>>

\* processBudgetLayer, first half: the session tracker may add or remove text.
\* What this layer adds to runningSaved nothing reads any more.
Session ==
  /\ pc = "session"
  /\ IF SessionTracking
       THEN tokens' \in 0..MaxTokens /\ ran' = ran \union {"session"}
       ELSE UNCHANGED <<tokens, ran>>
  /\ pc' = "enforce"
  /\ UNCHANGED <<pos, original, saved, budget, bpe, measured>>

\* Mutant: the enforcer is skipped when the counted savings meet the budget.
EnforceTrusting ==
  /\ pc = "enforce"
  /\ IF budget = 0 \/ shouldEarlyExit(saved)
       THEN UNCHANGED <<tokens, ran>>
       ELSE /\ IF tokens <= budget THEN UNCHANGED tokens ELSE tokens' \in 0..MaxTokens
            /\ ran' = ran \union {"budget"}
  /\ pc' = "compensate"
  /\ UNCHANGED <<pos, original, saved, budget, bpe, measured>>

\* processBudgetLayer, second half: a text within the budget is left alone,
\* of one over it module BudgetEnforcer says what becomes.
Enforce ==
  /\ pc = "enforce"
  /\ IF budget = 0
       THEN UNCHANGED <<tokens, ran>>
       ELSE /\ IF tokens <= budget THEN UNCHANGED tokens ELSE tokens' \in 0..MaxTokens
            /\ ran' = ran \union {"budget"}
  /\ pc' = "compensate"
  /\ UNCHANGED <<pos, original, saved, budget, bpe, measured>>

\* SmallKVCompensator.Compensate only ever adds text; the feedback signal and
\* finalizeStats, which follow it, only write statistics.
Compensate ==
  /\ pc = "compensate"
  /\ IF SmallKV THEN tokens' \in tokens..MaxTokens ELSE UNCHANGED tokens
  /\ pc' = "done"
  /\ UNCHANGED <<pos, original, saved, budget, ran, bpe, measured>>

Return ==
  /\ pc \in {"done", "exit"}
  /\ pc' = "idle"
  /\ UNCHANGED <<pos, original, tokens, saved, budget, ran, bpe, measured>>

Step ==
  \/ TOMLFilter \/ TOMLSkipped
  \/ processLayer(Plan[pos]) \/ SkipLayer(Plan[pos]) \/ StageEnd(Plan[pos])
  \/ Session \/ Enforce \/ Compensate \/ Return

Next ==
  /\ Step \/ CodecLoaded \/ \E n \in 0..MaxTokens, b \in Budgets : Begin(n, b)
  /\ UNCHANGED enabled

Spec == Init /\ [][Next]_vars

-----------------------------------------------------------------------------
TypeOK ==
  /\ enabled \in Configs
  /\ pc \in {"idle", "toml", "layers", "session", "enforce", "compensate", "done", "exit"}
  /\ pos \in 1..(Len(Plan) + 1)
  /\ pc \in {"toml", "layers"} => pos \in DOMAIN Plan
  /\ original \in 0..MaxTokens /\ tokens \in 0..MaxTokens
  /\ saved \in Int /\ budget \in Nat
  /\ ran \subseteq {"pre", "core", "semantic", "new", "phase2", "recovery",
                    "session", "budget"}
  /\ bpe \in BOOLEAN /\ measured \in BOOLEAN

\* "shouldEarlyExit returns true if budget is already met": when all layers
\* that ran measure what they report, a Process call that returns early
\* returns a text within the budget.
EarlyExitMeetsBudget == pc = "exit" /\ measured => tokens <= budget

\* A text larger than the budget leaves the pipeline without having been given
\* to the budget enforcer only by an early exit that an unmeasured report let
\* happen, whatever path Process took to its end.
OverBudgetIsEnforced ==
  pc \in {"exit", "done"} /\ budget > 0 /\ tokens > budget =>
    "budget" \in ran \/ (pc = "exit" /\ ~measured)
=============================================================================
