---------------------------- MODULE LayerProofs ----------------------------
(***************************************************************************)
(* The coordinator's early exit, for every configuration, every budget and *)
(* every size of text; and what single layers do, for every text they may  *)
(* be given.                                                               *)
(***************************************************************************)
EXTENDS PipelineCoordinator, BudgetEnforcer, MetaToken, TFIDF, SemanticCache, DataLemmas

(***************************************************************************)
(* The pipeline coordinator.                                               *)
(***************************************************************************)

\* While the layers run, and as long as all of them measured, the books
\* balance; a text that leaves by the normal end has passed the enforcer.
BooksBalance == pc \in {"toml", "layers"} /\ measured => saved = original - tokens
PassedEnforcer ==
  pc \in {"compensate", "done"} /\ budget > 0 => "budget" \in ran

ExitInv ==
  /\ TypeOK
  /\ BooksBalance
  /\ EarlyExitMeetsBudget
  /\ PassedEnforcer

\* The length of the plan, and that the recovery layers are in it.
LEMMA PlanShape ==
  /\ Len(Plan) = 35
  /\ DOMAIN Plan = 1..35
  /\ RecoveryStart \in DOMAIN Plan
<1>1. Len(Plan) = 35 /\ DOMAIN Plan = 1..35
  BY DEF Plan, L, Checkpoint
<1>2. Plan[34].name = "38_question_aware"
  BY DEF Plan, L, Checkpoint
<1>3. QED
  BY <1>1, <1>2 DEF RecoveryStart

Stages == {"pre", "core", "semantic", "new", "phase2", "recovery"}

\* Every entry of the plan belongs to one of the stages.
LEMMA PlanStages == \A n \in DOMAIN Plan : Plan[n].stage \in Stages
<1> SUFFICES ASSUME NEW n \in 1..35 PROVE Plan[n].stage \in Stages
  BY PlanShape
<1>1. Plan[n].stage \in Stages
  BY DEF Plan, L, Checkpoint, Stages
<1>2. QED BY <1>1

\* What the two jumps of the plan do to pc and pos.
LEMMA AdvanceMoves ==
  ASSUME TypeOK, pc = "layers", NEW s \in Stages, NEW v \in Int, Advance(s, v)
  PROVE  /\ pos' \in 1..(Len(Plan) + 1)
         /\ pc' \in {"exit", "layers", "session"}
         /\ pc' = "layers" => pos' \in DOMAIN Plan
         /\ pc' = "exit" => shouldEarlyExit(v)
<1>1. pos \in 1..35
  BY PlanShape DEF TypeOK
<1>2. CASE shouldEarlyExit(v) /\ s \notin {"phase2", "recovery"}
  BY <1>1, <1>2, PlanShape DEF Advance
<1>3. CASE ~(shouldEarlyExit(v) /\ s \notin {"phase2", "recovery"})
  BY <1>1, <1>3, PlanShape DEF Advance
<1>4. QED BY <1>2, <1>3

LEMMA ExitInvInit == Init => ExitInv
<1>1. 0 \in 0..MaxTokens
  BY CoordinatorAssumption
<1>2. Init => TypeOK
  <2> SUFFICES ASSUME Init PROVE TypeOK
    OBVIOUS
  <2>1. bpe \in BOOLEAN /\ measured \in BOOLEAN
    BY Zenon DEF Init
  <2>2. 1 \in DOMAIN Plan /\ 1 \in 1..(Len(Plan) + 1)
    BY PlanShape
  <2>3. QED
    BY <1>1, <2>1, <2>2 DEF Init, TypeOK
<1>3. Init => BooksBalance /\ EarlyExitMeetsBudget /\ PassedEnforcer
  BY DEF Init, BooksBalance, EarlyExitMeetsBudget, PassedEnforcer
<1>4. QED
  BY <1>2, <1>3 DEF ExitInv

\* A step keeps the books balanced as far as they are measured, so that an
\* early exit taken on them has a text within the budget.
LEMMA ExitInvNext ==
  ASSUME ExitInv, [Next]_vars
  PROVE  ExitInv'
<1> USE CoordinatorAssumption
<1>0. TypeOK /\ enabled' = enabled
  BY DEF ExitInv, Next, vars
<1>1. CASE TOMLFilter
  <2>1. measured' = FALSE /\ pc' \in {"exit", "layers"} /\ pc = "toml"
    BY <1>1 DEF TOMLFilter
  <2>2. TypeOK'
    BY <1>0, <1>1, <2>1, PlanShape DEF TOMLFilter, TypeOK
  <2>3. QED
    BY <1>1, <2>1, <2>2 DEF TOMLFilter, ExitInv, BooksBalance, EarlyExitMeetsBudget, PassedEnforcer
<1>2. CASE TOMLSkipped
  BY <1>0, <1>2, PlanShape DEF TOMLSkipped, ExitInv, TypeOK, BooksBalance, EarlyExitMeetsBudget,
    PassedEnforcer
<1>3. CASE processLayer(Plan[pos])
  <2> DEFINE l == Plan[pos]
  <2>1. pc = "layers" /\ pos \in DOMAIN Plan
    BY <1>3, <1>0 DEF processLayer, TypeOK
  <2>2. l.stage \in Stages
    BY <2>1, PlanStages
  <2>k. PICK k \in Kinds(l) :
          /\ tokens' \in Sizes(k)
          /\ \E r \in Reported(k, tokens, tokens') :
               saved' = saved + r /\ Advance(l.stage, saved + r)
          /\ measured' = (measured /\ k \in Measuring)
    BY <1>3 DEF processLayer
  <2>3. tokens' \in 0..MaxTokens
    BY <1>0, <2>1, <2>k DEF Sizes, TypeOK
  <2>4. PICK r \in Reported(k, tokens, tokens') :
          saved' = saved + r /\ Advance(l.stage, saved + r)
    BY <2>k
  <2>5. r \in Int /\ saved' \in Int
    BY <1>0, <2>3, <2>4 DEF Reported, TypeOK
  <2>6. measured' = (measured /\ k \in Measuring)
    BY <2>k
  <2>7. ASSUME measured' PROVE saved' = original - tokens'
    <3>1. measured /\ k \in {"guarded", "exact"}
      BY <2>6, <2>7, Zenon DEF Measuring
    <3>2. r = tokens - tokens'
      BY <2>4, <3>1 DEF Reported
    <3>3. saved = original - tokens
      BY <2>1, <3>1 DEF ExitInv, BooksBalance
    <3>4. QED
      BY <1>0, <2>3, <2>4, <3>2, <3>3 DEF TypeOK
  <2>8. /\ pos' \in 1..(Len(Plan) + 1)
        /\ pc' \in {"exit", "layers", "session"}
        /\ pc' = "layers" => pos' \in DOMAIN Plan
        /\ pc' = "exit" => shouldEarlyExit(saved')
    BY <1>0, <2>1, <2>2, <2>4, <2>5, AdvanceMoves
  <2>9. UNCHANGED <<original, budget, bpe>> /\ ran' = ran \union {l.stage}
    BY <1>3 DEF processLayer
  <2>10. measured' \in BOOLEAN /\ bpe' \in BOOLEAN
    BY <1>0, <2>6, <2>9, Zenon DEF TypeOK
  <2>11. TypeOK'
    BY <1>0, <2>2, <2>3, <2>5, <2>8, <2>9, <2>10 DEF TypeOK, Stages
  <2>12. EarlyExitMeetsBudget'
    <3>1. ASSUME pc' = "exit", measured' PROVE tokens' <= budget
      <4>1. original - saved' <= budget /\ saved' = original - tokens'
        BY <2>7, <2>8, <3>1 DEF shouldEarlyExit
      <4>2. original \in 0..MaxTokens /\ budget \in Nat
        BY <1>0, Zenon DEF TypeOK
      <4>3. \A o, t, b \in Int : o - (o - t) <= b => t <= b
        OBVIOUS
      <4>4. original \in Int /\ tokens' \in Int /\ budget \in Int
        BY <2>3, <4>2, CoordinatorAssumption
      <4>5. original - (original - tokens') <= budget
        BY <4>1, Zenon
      <4> QED
        BY <4>3, <4>4, <4>5
    <3>2. QED
      BY <2>9, <3>1 DEF EarlyExitMeetsBudget
  <2>13. QED
    BY <2>7, <2>8, <2>9, <2>11, <2>12 DEF ExitInv, BooksBalance, PassedEnforcer
<1>4. CASE SkipLayer(Plan[pos])
  BY <1>0, <1>4, PlanShape DEF SkipLayer, ExitInv, TypeOK, BooksBalance, EarlyExitMeetsBudget,
    PassedEnforcer
<1>5. CASE StageEnd(Plan[pos])
  <2>1. pc = "layers" /\ pos \in DOMAIN Plan /\ Advance(Plan[pos].stage, saved)
    BY <1>5, <1>0 DEF StageEnd, TypeOK
  <2>2. Plan[pos].stage \in Stages /\ saved \in Int
    BY <2>1, PlanStages, <1>0 DEF TypeOK
  <2>3. /\ pos' \in 1..(Len(Plan) + 1)
        /\ pc' \in {"exit", "layers", "session"}
        /\ pc' = "layers" => pos' \in DOMAIN Plan
        /\ pc' = "exit" => shouldEarlyExit(saved)
    BY <1>0, <2>1, <2>2, AdvanceMoves
  <2>4. UNCHANGED <<original, tokens, saved, budget, ran, bpe, measured>>
    BY <1>5 DEF StageEnd
  <2>5. measured => saved = original - tokens
    BY <2>1 DEF ExitInv, BooksBalance
  <2>6. TypeOK'
    BY <1>0, <2>3, <2>4 DEF TypeOK
  <2>7. EarlyExitMeetsBudget'
    BY <1>0, <2>3, <2>4, <2>5 DEF EarlyExitMeetsBudget, shouldEarlyExit, TypeOK
  <2>8. QED
    BY <2>3, <2>4, <2>5, <2>6, <2>7 DEF ExitInv, BooksBalance, PassedEnforcer
<1>6. CASE Session
  BY <1>0, <1>6 DEF Session, ExitInv, TypeOK, BooksBalance, EarlyExitMeetsBudget, PassedEnforcer
<1>7. CASE Enforce
  <2>1. tokens' \in 0..MaxTokens
    BY <1>0, <1>7 DEF Enforce, TypeOK
  <2>2. ran' = ran \/ ran' = ran \union {"budget"}
    BY <1>7 DEF Enforce
  <2>3. TypeOK'
    BY <1>0, <1>7, <2>1, <2>2 DEF Enforce, TypeOK
  <2>4. PassedEnforcer'
    BY <1>0, <1>7 DEF Enforce, PassedEnforcer, TypeOK
  <2>5. QED
    BY <1>7, <2>3, <2>4 DEF Enforce, ExitInv, BooksBalance, EarlyExitMeetsBudget
<1>8. CASE Compensate
  BY <1>0, <1>8 DEF Compensate, ExitInv, TypeOK, BooksBalance, EarlyExitMeetsBudget, PassedEnforcer
<1>9. CASE Return
  BY <1>0, <1>9 DEF Return, ExitInv, TypeOK, BooksBalance, EarlyExitMeetsBudget, PassedEnforcer
<1>10. CASE CodecLoaded
  <2>1. bpe' \in BOOLEAN /\ measured' \in BOOLEAN
    BY <1>10, Zenon DEF CodecLoaded
  <2>2. pc # "exit" /\ ~measured' /\ tokens' \in 0..MaxTokens
    BY <1>0, <1>10 DEF CodecLoaded, TypeOK
  <2>3. UNCHANGED <<pc, pos, original, saved, budget, ran>>
    BY <1>10 DEF CodecLoaded
  <2>4. TypeOK'
    BY <1>0, <2>1, <2>2, <2>3 DEF TypeOK
  <2>5. QED
    BY <2>2, <2>3, <2>4 DEF ExitInv, BooksBalance, EarlyExitMeetsBudget, PassedEnforcer
<1>11. CASE \E n \in 0..MaxTokens, b \in Budgets : Begin(n, b)
  <2>1. PICK n \in 0..MaxTokens, b \in Budgets : Begin(n, b)
    BY <1>11
  <2>2. b \in Nat /\ 1 \in DOMAIN Plan /\ 1 \in 1..(Len(Plan) + 1)
    BY PlanShape
  <2>3. measured' \in BOOLEAN /\ bpe' \in BOOLEAN
    BY <1>0, <2>1, Zenon DEF Begin, TypeOK
  <2>4. TypeOK'
    BY <1>0, <2>1, <2>2, <2>3 DEF Begin, TypeOK
  <2>5. BooksBalance' /\ EarlyExitMeetsBudget' /\ PassedEnforcer'
    BY <2>1 DEF Begin, BooksBalance, EarlyExitMeetsBudget, PassedEnforcer
  <2>6. QED
    BY <2>4, <2>5 DEF ExitInv
<1>12. CASE UNCHANGED vars
  BY <1>12 DEF vars, callVars, ExitInv, TypeOK, BooksBalance, EarlyExitMeetsBudget, PassedEnforcer
<1>13. QED
  BY <1>1, <1>2, <1>3, <1>4, <1>5, <1>6, <1>7, <1>8, <1>9, <1>10, <1>11, <1>12
    DEF Next, Step

\* Whatever layers, TOML filter or tokenizer the configuration brings in: as
\* long as every layer that ran measured what it reported, Process returns
\* early only with a text within the budget.
THEOREM EarlyExitIsSound == Spec => []EarlyExitMeetsBudget
<1>1. ExitInv /\ [Next]_vars => ExitInv'
  BY ExitInvNext
<1>2. ExitInv => EarlyExitMeetsBudget
  BY DEF ExitInv
<1>3. QED
  BY <1>1, <1>2, ExitInvInit, PTL DEF Spec

\* A text over the budget is given to the budget enforcer on every path, save
\* that of an early exit on an unmeasured report.
THEOREM EnforcerIsNotBypassed == Spec => []OverBudgetIsEnforced
<1>1. ExitInv /\ [Next]_vars => ExitInv'
  BY ExitInvNext
<1>2. ExitInv => OverBudgetIsEnforced
  BY CoordinatorAssumption DEF ExitInv, TypeOK, EarlyExitMeetsBudget, PassedEnforcer,
    OverBudgetIsEnforced
<1>3. QED
  BY <1>1, <1>2, ExitInvInit, PTL DEF Spec

(***************************************************************************)
(* The budget enforcer.                                                    *)
(***************************************************************************)

Items == [kind : {"line", "marker", "blank", "truncated"}, n : Nat]

Marked == applyPc \in {"sum", "select", "build"} => Mandatory \subseteq keep

NothingAdded == applyPc = "sum" => keep = Mandatory

\* Third pass: what was passed over did not fit and will not.
PassedOver ==
  applyPc = "select" =>
    \A j \in DOMAIN text \ keep :
      j < i /\ text[j].band # "plain" => current + text[j].tokens > Target

\* The building loop: every kept line before i is out, and the last item is
\* the last of them.
KeptIsOut ==
  applyPc = "build" => \A j \in keep : j < i => \E k \in DOMAIN out : out[k] = Item("line", j)

EndsInLast ==
  /\ applyPc \in {"apply", "sum", "select"} => last = 0 /\ out = << >>
  /\ applyPc = "build" =>
       /\ last < i
       /\ last = 0 => out = << >>
       /\ last > 0 => Len(out) > 0 /\ out[Len(out)] = Item("line", last)

USE EnforcerAssumption

\* The types of a line of the text.
LEMMA LineTypes ==
  ASSUME EnforcerTypeOK, NEW j \in DOMAIN text
  PROVE  /\ text[j].tokens \in Nat
         /\ text[j].band # "plain" => text[j].tokens > 0
  BY DEF EnforcerTypeOK, Line

LEMMA EnforcerTypeOKInit == EnforcerInit => EnforcerTypeOK
  BY DEF EnforcerInit, EnforcerTypeOK

LEMMA EnforcerTypeOKNext == EnforcerTypeOK /\ [EnforcerNext]_enforcerVars => EnforcerTypeOK'
<1> SUFFICES ASSUME EnforcerTypeOK, [EnforcerNext]_enforcerVars PROVE EnforcerTypeOK'
  OBVIOUS
<1>0. Len(text) \in Nat /\ DOMAIN text = 1..Len(text)
  BY DEF EnforcerTypeOK
<1>1. CASE PassThrough
  <2>1. out' \in Seq(Items)
    BY <1>0, <1>1 DEF PassThrough, Items, Item
  <2>2. QED BY <1>1, <2>1 DEF PassThrough, EnforcerTypeOK, Items
<1>2. CASE Mark
  BY <1>2 DEF Mark, EnforcerTypeOK, Mandatory, Critical, Structural
<1>3. CASE Sum
  <2>1. i \in DOMAIN text
    BY <1>0, <1>3 DEF Sum, EnforcerTypeOK
  <2>2. current' \in Nat
    BY <1>3, <2>1, LineTypes DEF Sum, EnforcerTypeOK
  <2>3. QED BY <1>0, <1>3, <2>2 DEF Sum, EnforcerTypeOK
<1>4. CASE SumEnd
  BY <1>0, <1>4 DEF SumEnd, EnforcerTypeOK
<1>5. CASE Select
  <2>1. i \in DOMAIN text
    BY <1>0, <1>5 DEF Select, EnforcerTypeOK
  <2>2. current' \in Nat /\ keep' \subseteq DOMAIN text
    BY <1>5, <2>1, LineTypes DEF Select, EnforcerTypeOK
  <2>3. QED BY <1>0, <1>5, <2>2 DEF Select, EnforcerTypeOK
<1>6. CASE SelectEnd
  BY <1>0, <1>6 DEF SelectEnd, EnforcerTypeOK
<1>7. CASE Build
  <2>1. CASE i \in keep
    <3>1. i \in Nat /\ last \in Nat /\ i \in 1..Len(text)
      BY <1>0, <1>7 DEF Build, EnforcerTypeOK
    <3>2. <<Item("line", i)>> \in Seq(Items)
      BY <3>1 DEF Item, Items
    <3>3. ASSUME NEW g \in Nat PROVE Gap(g) \in Seq(Items)
      <4>1. Item("marker", g) \in Items /\ Item("blank", g) \in Items
        BY DEF Item, Items
      <4>2. QED BY <4>1 DEF Gap
    <3>4. PICK g \in Seq(Items) : out' = out \o g \o <<Item("line", i)>>
      <4>1. CASE last > 0 /\ i - last > 1
        <5>1. i - last - 1 \in Nat
          BY <3>1, <4>1
        <5>2. Gap(i - last - 1) \in Seq(Items)
          BY <3>3, <5>1
        <5>3. out' = out \o Gap(i - last - 1) \o <<Item("line", i)>>
          BY <1>7, <2>1, <4>1 DEF Build
        <5>4. QED BY <5>2, <5>3
      <4>2. CASE ~(last > 0 /\ i - last > 1)
        <5>1. out' = out \o << >> \o <<Item("line", i)>>
          BY <1>7, <2>1, <4>2 DEF Build
        <5>2. << >> \in Seq(Items)
          OBVIOUS
        <5>3. QED BY <5>1, <5>2
      <4>3. QED BY <4>1, <4>2
    <3>5. out' \in Seq(Items)
      <4>1. out \in Seq(Items)
        BY DEF EnforcerTypeOK, Items
      <4>2. out \o g \in Seq(Items)
        BY <4>1
      <4>3. QED BY <3>2, <3>4, <4>2
    <3>6. QED BY <1>0, <1>7, <2>1, <3>1, <3>5 DEF Build, EnforcerTypeOK, Items
  <2>2. CASE i \notin keep
    BY <1>0, <1>7, <2>2 DEF Build, EnforcerTypeOK
  <2>3. QED BY <2>1, <2>2
<1>8. CASE BuildEnd
  <2>1. Item("truncated", 0) \in Items
    BY DEF Item, Items
  <2>2. out' \in Seq(Items)
    <3>1. out \in Seq(Items)
      BY DEF EnforcerTypeOK, Items
    <3>2. out' = out \/ out' = Append(out, Item("truncated", 0))
      BY <1>8 DEF BuildEnd
    <3>3. QED BY <2>1, <3>1, <3>2
  <2>3. QED BY <1>8, <2>2 DEF BuildEnd, EnforcerTypeOK, Items
<1>9. CASE EnforcerReturn
  BY <1>0, <1>9 DEF EnforcerReturn, EnforcerTypeOK
<1>10. CASE UNCHANGED enforcerVars
  BY <1>10 DEF enforcerVars, EnforcerTypeOK
<1>11. QED
  BY <1>1, <1>2, <1>3, <1>4, <1>5, <1>6, <1>7, <1>8, <1>9, <1>10 DEF EnforcerNext

\* The selection passes: what is kept, counted and passed over.
SelectionInv ==
  Marked /\ NothingAdded /\ OptionalFits /\ PassedOver /\ DroppedDoesNotFit

LEMMA SelectionNext ==
  ASSUME EnforcerTypeOK, SelectionInv, [EnforcerNext]_enforcerVars
  PROVE  SelectionInv'
<1> USE DEF SelectionInv
<1>0. Len(text) \in Nat /\ DOMAIN text = 1..Len(text)
  BY DEF EnforcerTypeOK
<1>a. current \in Nat /\ i \in 1..(Len(text) + 1) /\ keep \subseteq DOMAIN text
      /\ Target \in Int
  BY DEF EnforcerTypeOK, Target
<1>b. \A j \in DOMAIN text : /\ text[j].tokens \in Nat
                             /\ text[j].band # "plain" => text[j].tokens > 0
  BY LineTypes
<1>1. CASE PassThrough
  BY <1>1 DEF PassThrough, Marked, NothingAdded, OptionalFits, PassedOver, DroppedDoesNotFit
<1>2. CASE Mark
  BY <1>2 DEF Mark, Marked, NothingAdded, OptionalFits, PassedOver, DroppedDoesNotFit,
    Mandatory, Critical, Structural
<1>3. CASE Sum
  BY <1>3 DEF Sum, Marked, NothingAdded, OptionalFits, PassedOver, DroppedDoesNotFit,
    Mandatory, Critical, Structural
<1>4. CASE SumEnd
  BY <1>0, <1>4 DEF SumEnd, Marked, NothingAdded, OptionalFits, PassedOver,
    DroppedDoesNotFit, Mandatory, Critical, Structural
<1>5. CASE Select
  <2>1. i \in DOMAIN text /\ applyPc = "select" /\ applyPc' = "select" /\ text' = text
        /\ Target' = Target /\ i' = i + 1
    BY <1>0, <1>a, <1>5 DEF Select, Target
  <2>2. Mandatory' = Mandatory
    BY <2>1 DEF Mandatory, Critical, Structural
  <2>3. CASE i \notin keep /\ text[i].band # "plain" /\ current + text[i].tokens <= Target
    <3>1. keep' = keep \union {i} /\ current' = current + text[i].tokens
      BY <1>5, <2>3 DEF Select
    <3>2. current' <= Target' /\ current' \in Nat /\ current' >= current
      BY <1>a, <1>b, <2>1, <2>3, <3>1
    <3>3. PassedOver'
      <4>1. ASSUME NEW j \in DOMAIN text \ keep', j < i + 1, text[j].band # "plain"
            PROVE  current' + text[j].tokens > Target
        <5>1. j \in DOMAIN text \ keep /\ j < i
          BY <1>0, <1>a, <2>1, <3>1, <4>1
        <5>2. current + text[j].tokens > Target
          BY <2>1, <4>1, <5>1 DEF PassedOver
        <5>3. QED BY <1>a, <1>b, <3>2, <5>1, <5>2
      <4>2. QED BY <2>1, <4>1 DEF PassedOver
    <3>4. QED
      BY <2>1, <2>2, <3>1, <3>2, <3>3
        DEF Marked, NothingAdded, OptionalFits, DroppedDoesNotFit
  <2>4. CASE ~(i \notin keep /\ text[i].band # "plain" /\ current + text[i].tokens <= Target)
    <3>1. keep' = keep /\ current' = current
      BY <1>5, <2>4 DEF Select
    <3>2. PassedOver'
      BY <1>a, <1>b, <2>1, <2>4, <3>1 DEF PassedOver
    <3>3. QED
      BY <2>1, <2>2, <3>1, <3>2 DEF Marked, NothingAdded, OptionalFits, DroppedDoesNotFit
  <2>5. QED BY <2>3, <2>4
<1>6. CASE SelectEnd
  <2>1. /\ applyPc = "select" /\ applyPc' = "build"
        /\ UNCHANGED <<text, keep, current>> /\ Target' = Target
    BY <1>6 DEF SelectEnd, Target
  <2>2. i > Len(text) \/ current >= Target
    BY <1>6 DEF SelectEnd
  <2>3. ASSUME NEW j \in DOMAIN text \ keep, text[j].band # "plain"
        PROVE  current + text[j].tokens > Target
    <3>1. CASE i > Len(text)
      BY <1>0, <1>a, <2>1, <2>3, <3>1 DEF PassedOver
    <3>2. CASE current >= Target
      BY <1>a, <1>b, <2>3, <3>2
    <3>3. QED BY <2>2, <3>1, <3>2
  <2>4. DroppedDoesNotFit'
    BY <2>1, <2>3 DEF DroppedDoesNotFit
  <2>5. Mandatory' = Mandatory
    BY <2>1 DEF Mandatory, Critical, Structural
  <2>6. QED
    BY <2>1, <2>4, <2>5 DEF Marked, NothingAdded, OptionalFits, PassedOver
<1>7. CASE Build
  BY <1>7 DEF Build, Marked, NothingAdded, OptionalFits, PassedOver, DroppedDoesNotFit,
    Mandatory, Critical, Structural, Target
<1>8. CASE BuildEnd
  BY <1>8 DEF BuildEnd, Marked, NothingAdded, OptionalFits, PassedOver, DroppedDoesNotFit
<1>9. CASE EnforcerReturn
  BY <1>9 DEF EnforcerReturn, Marked, NothingAdded, OptionalFits, PassedOver, DroppedDoesNotFit
<1>10. CASE UNCHANGED enforcerVars
  BY <1>10 DEF enforcerVars, Marked, NothingAdded, OptionalFits, PassedOver, DroppedDoesNotFit,
    Mandatory, Critical, Structural, Target
<1>11. QED
  BY <1>1, <1>2, <1>3, <1>4, <1>5, <1>6, <1>7, <1>8, <1>9, <1>10 DEF EnforcerNext

\* The building pass: what stands in the output.
OutputInv == KeptIsOut /\ CriticalSurvives /\ EndsInLast /\ OmissionsShown

\* Entry k of a result agrees with its neighbours; OmissionsShown of a whole.
ReadableAt(q, k) ==
  /\ q[k].kind = "line" /\ q[k + 1].kind = "line" => q[k + 1].n = q[k].n + 1
  /\ q[k].kind \in {"marker", "blank"} =>
       /\ k > 1 /\ q[k - 1].kind = "line" /\ q[k + 1].kind = "line"
       /\ q[k].n = q[k + 1].n - q[k - 1].n - 1
       /\ q[k].kind = "blank" <=> q[k].n <= SmallGap
Readable(q) == \A k \in 1..(Len(q) - 1) : ReadableAt(q, k)

LEMMA ShownIsReadable == OmissionsShown <=> Readable(out)
  BY DEF OmissionsShown, Readable, ReadableAt

\* Appending a line, with a stand-in for the gap before it if there is one,
\* keeps the output readable.
LEMMA ReadableExtends ==
  ASSUME NEW o \in Seq(Items), NEW g \in Seq(Items), NEW m \in Nat, NEW n \in Nat,
         Readable(o), Len(o) > 0, o[Len(o)] = Item("line", m), m < n,
         \/ n = m + 1 /\ g = << >>
         \/ n > m + 1 /\ g = Gap(n - m - 1)
  PROVE  Readable((o \o g) \o <<Item("line", n)>>)
<1> DEFINE p == (o \o g) \o <<Item("line", n)>>
<1>0. \A k \in 1..(Len(o) - 1) : ReadableAt(o, k)
  BY DEF Readable
<1>1. CASE n = m + 1 /\ g = << >>
  <2>1. Len(p) = Len(o) + 1 /\ p[Len(o) + 1] = Item("line", n)
        /\ \A k \in 1..Len(o) : p[k] = o[k]
    BY <1>1
  <2>2. ASSUME NEW k \in 1..(Len(p) - 1) PROVE ReadableAt(p, k)
    <3>1. CASE k < Len(o)
      BY <1>0, <2>1, <3>1 DEF ReadableAt
    <3>2. CASE k = Len(o)
      BY <1>1, <2>1, <3>2 DEF Item, ReadableAt
    <3>3. QED BY <2>1, <3>1, <3>2
  <2>3. QED BY <2>2 DEF Readable
<1>2. CASE n > m + 1 /\ g = Gap(n - m - 1)
  <2>1. PICK x : /\ g = <<x>>
                 /\ x.n = n - m - 1
                 /\ x.kind \in {"marker", "blank"}
                 /\ x.kind = "blank" <=> x.n <= SmallGap
    BY <1>2 DEF Gap, Item
  <2>2. /\ Len(p) = Len(o) + 2
        /\ p[Len(o) + 1] = x /\ p[Len(o) + 2] = Item("line", n)
        /\ \A k \in 1..Len(o) : p[k] = o[k]
    BY <2>1
  <2>3. ASSUME NEW k \in 1..(Len(p) - 1) PROVE ReadableAt(p, k)
    <3>1. CASE k < Len(o)
      BY <1>0, <2>2, <3>1 DEF ReadableAt
    <3>2. CASE k = Len(o)
      BY <2>1, <2>2, <3>2 DEF Item, ReadableAt
    <3>3. CASE k = Len(o) + 1
      BY <1>2, <2>1, <2>2, <3>3 DEF Item, ReadableAt
    <3>4. QED BY <2>2, <3>1, <3>2, <3>3, SMTT(30)
  <2>4. QED BY <2>3 DEF Readable
<1>3. QED BY <1>1, <1>2

LEMMA OutputNext ==
  ASSUME EnforcerTypeOK, SelectionInv, OutputInv, [EnforcerNext]_enforcerVars
  PROVE  OutputInv'
<1> USE DEF OutputInv
<1>0. /\ Len(text) \in Nat /\ DOMAIN text = 1..Len(text)
      /\ i \in Nat /\ last \in Nat /\ out \in Seq(Items) /\ keep \subseteq DOMAIN text
  BY DEF EnforcerTypeOK, Items
<1>1. CASE PassThrough
  <2>1. applyPc' = "done" /\ text' = text /\ out' = [j \in 1..Len(text) |-> Item("line", j)]
    BY <1>0, <1>1 DEF PassThrough
  <2>2. out' \in Seq(Items) /\ Len(out') = Len(text)
        /\ \A k \in 1..Len(text) : out'[k] = Item("line", k)
    BY <1>0, <2>1 DEF Item, Items
  <2>3. CriticalSurvives'
    BY <1>0, <2>1, <2>2 DEF CriticalSurvives, Critical
  <2>4. OmissionsShown'
    <3>1. ASSUME NEW k \in 1..(Len(out') - 1) PROVE ReadableAt(out', k)
      <4>1. k \in 1..Len(text) /\ k + 1 \in 1..Len(text)
        BY <1>0, <2>2
      <4>2. out'[k] = Item("line", k) /\ out'[k + 1] = Item("line", k + 1)
        BY <2>2, <4>1
      <4>3. QED BY <4>1, <4>2 DEF ReadableAt, Item
    <3>2. QED BY <3>1 DEF OmissionsShown, ReadableAt
  <2>5. QED BY <2>1, <2>3, <2>4 DEF KeptIsOut, EndsInLast
<1>2. CASE Mark
  BY <1>2 DEF Mark, KeptIsOut, CriticalSurvives, EndsInLast, OmissionsShown
<1>3. CASE Sum
  BY <1>3 DEF Sum, KeptIsOut, CriticalSurvives, EndsInLast, OmissionsShown
<1>4. CASE SumEnd
  BY <1>4 DEF SumEnd, KeptIsOut, CriticalSurvives, EndsInLast, OmissionsShown
<1>5. CASE Select
  BY <1>5 DEF Select, KeptIsOut, CriticalSurvives, EndsInLast, OmissionsShown
<1>6. CASE SelectEnd
  BY <1>0, <1>6 DEF SelectEnd, KeptIsOut, CriticalSurvives, EndsInLast, OmissionsShown
<1>7. CASE Build
  <2>0. applyPc = "build" /\ applyPc' = "build" /\ i' = i + 1 /\ i <= Len(text)
        /\ UNCHANGED <<text, keep>>
    BY <1>7 DEF Build
  <2>1. CASE i \in keep
    <3> DEFINE l == Item("line", i)
    <3>1. last' = i /\ last < i /\ l \in Items
      BY <1>0, <1>7, <2>0, <2>1 DEF Build, EndsInLast, Item, Items
    <3>2. PICK g \in Seq(Items) :
            /\ out' = (out \o g) \o <<l>>
            /\ last > 0 => \/ i = last + 1 /\ g = << >>
                           \/ i > last + 1 /\ g = Gap(i - last - 1)
            /\ last = 0 => g = << >>
      <4>1. CASE last > 0 /\ i - last > 1
        <5>1. i - last - 1 \in Nat
          BY <1>0, <4>1
        <5>2. Item("marker", i - last - 1) \in Items /\ Item("blank", i - last - 1) \in Items
          BY <5>1 DEF Item, Items
        <5>3. Gap(i - last - 1) \in Seq(Items)
          BY <5>2 DEF Gap
        <5>4. out' = (out \o Gap(i - last - 1)) \o <<l>>
          BY <1>7, <2>1, <4>1 DEF Build
        <5>5. i > last + 1 /\ last # 0
          BY <1>0, <4>1
        <5>6. QED BY <5>3, <5>4, <5>5
      <4>2. CASE ~(last > 0 /\ i - last > 1)
        <5>1. out' = (out \o << >>) \o <<l>>
          BY <1>7, <2>1, <4>2 DEF Build
        <5>2. << >> \in Seq(Items)
          OBVIOUS
        <5>3. last > 0 => i = last + 1
          BY <1>0, <3>1, <4>2
        <5>4. QED BY <5>1, <5>2, <5>3
      <4>3. QED BY <4>1, <4>2
    <3>3. /\ out' \in Seq(Items) /\ Len(out') = Len(out) + Len(g) + 1
          /\ out'[Len(out')] = l
          /\ \A k \in 1..Len(out) : out'[k] = out[k]
      BY <1>0, <3>1, <3>2
    <3>4. Len(out') \in DOMAIN out' /\ Len(out') > 0
          /\ \A k \in DOMAIN out : k \in DOMAIN out' /\ out'[k] = out[k]
      <4>1. DOMAIN out' = 1..Len(out') /\ DOMAIN out = 1..Len(out)
            /\ Len(out) \in Nat /\ Len(g) \in Nat
        BY <1>0, <3>3
      <4>2. QED BY <3>3, <4>1
    <3>5. EndsInLast'
      BY <1>0, <2>0, <3>1, <3>3, <3>4 DEF EndsInLast
    <3>6. KeptIsOut'
      <4>1. ASSUME NEW j \in keep, j < i + 1 PROVE \E k \in DOMAIN out' : out'[k] = Item("line", j)
        <5>1. CASE j = i
          BY <3>3, <3>4, <5>1
        <5>2. CASE j # i
          <6>1. j < i
            BY <1>0, <4>1, <5>2
          <6>2. PICK k \in DOMAIN out : out[k] = Item("line", j)
            BY <2>0, <6>1 DEF KeptIsOut
          <6>3. QED BY <3>4, <6>2
        <5>3. QED BY <5>1, <5>2
      <4>2. QED BY <2>0, <4>1 DEF KeptIsOut
    <3>7. OmissionsShown'
      <4>1. CASE last > 0
        <5>1. Len(out) > 0 /\ out[Len(out)] = Item("line", last)
          BY <2>0, <4>1 DEF EndsInLast
        <5>2. Readable(out)
          BY ShownIsReadable
        <5>3. \/ i = last + 1 /\ g = << >>
              \/ i > last + 1 /\ g = Gap(i - last - 1)
          BY <3>2, <4>1
        <5>4. Readable((out \o g) \o <<Item("line", i)>>)
          BY <1>0, <3>1, <5>1, <5>2, <5>3, ReadableExtends
        <5>5. QED BY <3>2, <5>4 DEF OmissionsShown, Readable, ReadableAt
      <4>2. CASE last = 0
        <5>1. out = << >> /\ g = << >>
          BY <2>0, <3>2, <4>2 DEF EndsInLast
        <5>2. Len(out') = 1
          BY <3>3, <5>1
        <5>3. QED BY <5>2 DEF OmissionsShown
      <4>3. QED BY <1>0, <4>1, <4>2
    <3>8. QED BY <2>0, <3>5, <3>6, <3>7 DEF CriticalSurvives
  <2>2. CASE i \notin keep
    <3>1. UNCHANGED <<out, last>>
      BY <1>7, <2>2 DEF Build
    <3>2. KeptIsOut'
      BY <1>0, <2>0, <2>2, <3>1 DEF KeptIsOut
    <3>3. EndsInLast'
      BY <1>0, <2>0, <3>1 DEF EndsInLast
    <3>4. QED
      BY <2>0, <3>1, <3>2, <3>3 DEF CriticalSurvives, OmissionsShown
  <2>3. QED BY <2>1, <2>2
<1>8. CASE BuildEnd
  <2>0. applyPc = "build" /\ applyPc' = "done" /\ i > Len(text) /\ UNCHANGED <<text, keep>>
    BY <1>8 DEF BuildEnd
  <2>1. \A j \in Critical : \E k \in DOMAIN out : out[k] = Item("line", j)
    BY <1>0, <2>0 DEF Critical, Mandatory, SelectionInv, Marked, KeptIsOut
  <2>2. CASE out' = out
    BY <2>0, <2>1, <2>2 DEF CriticalSurvives, Critical, KeptIsOut, EndsInLast, OmissionsShown
  <2>3. CASE out' = Append(out, Item("truncated", 0))
    <3>1. /\ Len(out') = Len(out) + 1 /\ out'[Len(out) + 1] = Item("truncated", 0)
          /\ \A k \in 1..Len(out) : out'[k] = out[k]
          /\ DOMAIN out \subseteq DOMAIN out' /\ DOMAIN out = 1..Len(out)
      <4>1. Item("truncated", 0) \in Items
        BY DEF Item, Items
      <4>2. QED BY <1>0, <2>3, <4>1
    <3>2. CriticalSurvives'
      BY <2>0, <2>1, <3>1 DEF CriticalSurvives, Critical
    <3>3. Len(out) > 0 => out[Len(out)].kind = "line"
      <4>1. CASE last = 0
        BY <2>0, <4>1 DEF EndsInLast
      <4>2. CASE last > 0
        BY <2>0, <4>2 DEF EndsInLast, Item
      <4>3. QED BY <1>0, <4>1, <4>2
    <3>4. ASSUME NEW k \in 1..(Len(out') - 1)
          PROVE  ReadableAt(out', k)
      <4>0. Len(out) \in Nat /\ k \in Nat /\ 1 <= k /\ k <= Len(out)
        BY <1>0, <3>1
      <4>1. CASE k < Len(out)
        BY <3>1, <4>0, <4>1 DEF OmissionsShown, ReadableAt
      <4>2. CASE k = Len(out)
        BY <3>1, <3>3, <4>0, <4>2 DEF Item, ReadableAt
      <4>3. QED BY <4>0, <4>1, <4>2
    <3>5. QED BY <2>0, <3>2, <3>4 DEF KeptIsOut, EndsInLast, OmissionsShown, ReadableAt
  <2>4. QED BY <1>8, <2>2, <2>3 DEF BuildEnd
<1>9. CASE EnforcerReturn
  BY <1>9 DEF EnforcerReturn, KeptIsOut, CriticalSurvives, EndsInLast, OmissionsShown
<1>10. CASE UNCHANGED enforcerVars
  BY <1>10 DEF enforcerVars, KeptIsOut, CriticalSurvives, EndsInLast, OmissionsShown, Critical
<1>11. QED
  BY <1>1, <1>2, <1>3, <1>4, <1>5, <1>6, <1>7, <1>8, <1>9, <1>10 DEF EnforcerNext

\* Init establishes the invariant and every step keeps it.
LEMMA EnforcerInvariant == EnforcerSpec => [](EnforcerTypeOK /\ SelectionInv /\ OutputInv)
<1>1. EnforcerInit => EnforcerTypeOK /\ SelectionInv /\ OutputInv
  BY EnforcerTypeOKInit DEF EnforcerInit, SelectionInv, Marked, NothingAdded, OptionalFits, PassedOver,
    DroppedDoesNotFit, OutputInv, KeptIsOut, CriticalSurvives, EndsInLast, OmissionsShown
<1>2. EnforcerTypeOK /\ SelectionInv /\ OutputInv /\ [EnforcerNext]_enforcerVars
        => (EnforcerTypeOK /\ SelectionInv /\ OutputInv)'
  BY EnforcerTypeOKNext, SelectionNext, OutputNext
<1>3. QED
  BY <1>1, <1>2, PTL DEF EnforcerSpec

\* The optional pass of selectLines stays within the target and leaves out an
\* important line only if it does not fit in the end, for every text, budget
\* and reserve.
THEOREM GreedyTheorem == EnforcerSpec => []SelectionIsGreedy
  BY EnforcerInvariant, PTL DEF SelectionInv, SelectionIsGreedy

\* No critical line is lost, and the output shows where and how many lines
\* are missing, for every text and budget.
THEOREM FaithfulTheorem == EnforcerSpec => []OutputIsFaithful
  BY EnforcerInvariant, PTL DEF OutputInv, OutputIsFaithful

HIDE EnforcerAssumption

(***************************************************************************)
(* The meta-tokens of layer 15.                                            *)
(***************************************************************************)

MetaItem == [marker : BOOLEAN, words : Seq(Word)]

\* What the markers and words of c stand for.
Expanded(c) == FlattenSeq([j \in DOMAIN c |-> c[j].words])

MetaTypes ==
  /\ metaPc \in {"idle", "compress", "done"}
  /\ words \in Seq(Word)
  /\ nextWord \in 1..(Len(words) + 1)
  /\ compressed \in Seq(MetaItem)
  /\ metaSaved \in Int /\ totalSaved \in Int
  /\ metaTokens \in [DOMAIN metaTokens -> Nat]
  /\ IsFiniteSet(DOMAIN metaTokens) /\ DOMAIN metaTokens \subseteq Seq(Word)
  /\ metaPc = "idle" => compressed = << >>

\* Every marker of the result is in the table.
MarkersAreKnown ==
  \A j \in DOMAIN compressed : compressed[j].marker => compressed[j].words \in DOMAIN metaTokens

\* The result stands for the text up to nextWord.
ExpandsToText ==
  /\ metaPc = "compress" =>
       /\ Expanded(compressed) = SubSeq(words, 1, nextWord - 1)
       /\ metaSaved = nextWord - 1 - Len(compressed)
  /\ metaPc = "done" =>
       /\ Expanded(compressed) = words
       /\ metaSaved = Len(words) - Len(compressed)

\* The table is ahead of what was reported by what this call saved so far.
TableAddsUp == Stats = totalSaved + (IF metaPc = "compress" THEN metaSaved ELSE 0)

MetaInv == MetaTypes /\ MarkersAreKnown /\ ExpandsToText /\ TableAddsUp

USE MetaAssumption

LEMMA ExpandedOfConcat ==
  ASSUME NEW c \in Seq(MetaItem), NEW d \in Seq(MetaItem)
  PROVE  /\ Expanded(c) \in Seq(Word)
         /\ Expanded(c \o d) = Expanded(c) \o Expanded(d)
<1> DEFINE E(u) == [j \in DOMAIN u |-> u[j].words]
<1>1. ASSUME NEW u \in Seq(MetaItem)
      PROVE  /\ E(u) \in Seq(Seq(Word)) /\ Len(E(u)) = Len(u)
             /\ \A j \in 1..Len(u) : E(u)[j] = u[j].words
  <2>1. DOMAIN u = 1..Len(u) /\ Len(u) \in Nat
    OBVIOUS
  <2>2. \A j \in 1..Len(u) : u[j].words \in Seq(Word)
    <3>1. \A j \in 1..Len(u) : u[j] \in MetaItem
      OBVIOUS
    <3> QED
      BY <3>1 DEF MetaItem
  <2> QED
    BY <2>1, <2>2
<1>2. c \o d \in Seq(MetaItem)
  OBVIOUS
<1>3. E(c \o d) = E(c) \o E(d)
  <2>1. /\ Len(c \o d) = Len(c) + Len(d) /\ Len(c) \in Nat /\ Len(d) \in Nat
        /\ \A j \in 1..Len(c) : (c \o d)[j] = c[j]
        /\ \A j \in (Len(c) + 1)..(Len(c) + Len(d)) : (c \o d)[j] = d[j - Len(c)]
    BY ConcatProperties
  <2>2. /\ E(c \o d) \in Seq(Seq(Word)) /\ E(c) \in Seq(Seq(Word)) /\ E(d) \in Seq(Seq(Word))
        /\ Len(E(c \o d)) = Len(c) + Len(d) /\ Len(E(c)) = Len(c) /\ Len(E(d)) = Len(d)
        /\ \A j \in 1..(Len(c) + Len(d)) : E(c \o d)[j] = (c \o d)[j].words
        /\ \A j \in 1..Len(c) : E(c)[j] = c[j].words
        /\ \A j \in 1..Len(d) : E(d)[j] = d[j].words
    BY <1>1, <1>2, <2>1
  <2>3. PICK x, y, z : x = E(c) /\ y = E(d) /\ z = E(c \o d)
    OBVIOUS
  <2> HIDE DEF E
  <2>4. x \in Seq(Seq(Word)) /\ y \in Seq(Seq(Word)) /\ z \in Seq(Seq(Word))
    BY <2>2, <2>3
  <2>5. /\ x \o y \in Seq(Seq(Word)) /\ Len(x \o y) = Len(c) + Len(d)
        /\ \A j \in 1..(Len(c) + Len(d)) :
             (x \o y)[j] = IF j <= Len(c) THEN x[j] ELSE y[j - Len(c)]
    <3>1. /\ x \o y \in Seq(Seq(Word)) /\ Len(x \o y) = Len(x) + Len(y)
          /\ \A j \in 1..(Len(x) + Len(y)) :
               (x \o y)[j] = IF j <= Len(x) THEN x[j] ELSE y[j - Len(x)]
      BY <2>4, ConcatProperties
    <3>2. Len(x) = Len(c) /\ Len(y) = Len(d)
      BY <2>2, <2>3
    <3> QED
      BY <3>1, <3>2
  <2>6. ASSUME NEW j \in 1..(Len(c) + Len(d)) PROVE z[j] = (x \o y)[j]
    <3>1. CASE j <= Len(c)
      <4>1. j \in 1..Len(c)
        BY <2>1, <3>1
      <4>2. z[j] = c[j].words /\ x[j] = c[j].words /\ (x \o y)[j] = x[j]
        BY <2>1, <2>2, <2>3, <2>5, <3>1, <4>1
      <4> QED
        BY <4>2
    <3>2. CASE ~(j <= Len(c))
      <4>1. j - Len(c) \in 1..Len(d) /\ j \in (Len(c) + 1)..(Len(c) + Len(d))
        BY <2>1, <3>2
      <4> QED
        BY <2>1, <2>2, <2>3, <2>5, <3>2, <4>1
    <3> QED
      BY <3>1, <3>2
  <2>7. z = x \o y
    BY <2>2, <2>3, <2>4, <2>5, <2>6, SeqEqual
  <2> QED
    BY <2>3, <2>7
<1>4. FlattenSeq(E(c) \o E(d)) = FlattenSeq(E(c)) \o FlattenSeq(E(d))
  <2>1. E(c) \in Seq(Seq(Word)) /\ E(d) \in Seq(Seq(Word))
    BY <1>1
  <2> HIDE DEF E
  <2> QED
    BY <2>1, FlattenSeqOfConcat
<1>5. FlattenSeq(E(c)) \in Seq(Word)
  <2>1. E(c) \in Seq(Seq(Word)) /\ << >> \in Seq(Word)
    BY <1>1
  <2> HIDE DEF E
  <2> QED
    BY <2>1, FlattenSeqOfAppend
<1> QED
  BY <1>3, <1>4, <1>5 DEF Expanded

\* Words copied stand for themselves.
LEMMA ExpandedOfWords ==
  ASSUME NEW s \in Seq(Word)
  PROVE  AsItems(s) \in Seq(MetaItem) /\ Len(AsItems(s)) = Len(s) /\ Expanded(AsItems(s)) = s
         /\ \A j \in DOMAIN AsItems(s) : ~AsItems(s)[j].marker
<1> DEFINE a == AsItems(s)
<1>1. DOMAIN s = 1..Len(s) /\ Len(s) \in Nat /\ \A j \in 1..Len(s) : s[j] \in Word
  OBVIOUS
<1>2. \A j \in 1..Len(s) :
        Plain(s[j]) \in MetaItem /\ Plain(s[j]).words = <<s[j]>> /\ ~Plain(s[j]).marker
  BY <1>1 DEF Plain, MetaItem
<1>3. /\ a \in Seq(MetaItem) /\ Len(a) = Len(s) /\ DOMAIN a = 1..Len(s)
      /\ \A j \in 1..Len(s) : a[j] = Plain(s[j])
  BY <1>1, <1>2 DEF AsItems
<1>4. [j \in DOMAIN a |-> a[j].words]
        = [j \in DOMAIN s |-> IF s[j] \in Word THEN <<s[j]>> ELSE << >>]
  BY <1>1, <1>2, <1>3
<1>5. Selected(s, Word) = s
  <2>1. Range(s) \subseteq Word
    BY <1>1 DEF Range
  <2> QED
    BY <2>1, SelectedAll
<1> QED
  BY <1>2, <1>3, <1>4, <1>5 DEF Expanded, Selected

\* The table counts one use more, and what it saves.
LEMMA StatsOfCounted ==
  ASSUME MetaTypes, NEW p \in Seq(Word), metaTokens' = Counted(p)
  PROVE  /\ metaTokens' \in [DOMAIN metaTokens' -> Nat]
         /\ DOMAIN metaTokens' = DOMAIN metaTokens \union {p}
         /\ IsFiniteSet(DOMAIN metaTokens') /\ DOMAIN metaTokens' \subseteq Seq(Word)
         /\ Stats' = Stats + Len(p) - 1
<1> DEFINE D == DOMAIN metaTokens
           f == metaTokens
           g == metaTokens'
           w == [q \in D |-> f[q] * (Len(q) - 1)]
           v == [q \in D \union {p} |-> g[q] * (Len(q) - 1)]
<1>1. /\ f \in [D -> Nat] /\ IsFiniteSet(D) /\ D \subseteq Seq(Word)
      /\ \A q \in D \union {p} : Len(q) \in Nat
  BY DEF MetaTypes
<1>2. /\ g = [q \in D \union {p} |-> IF q \in D THEN f[q] + (IF q = p THEN 1 ELSE 0) ELSE 1]
  BY DEF Counted
<1>3. g \in [D \union {p} -> Nat] /\ DOMAIN g = D \union {p} /\ IsFiniteSet(D \union {p})
  BY <1>1, <1>2, FS_AddElement
<1>4. Stats = SumFunctionOnSet(w, D) /\ Stats' = SumFunctionOnSet(v, D \union {p})
  BY <1>3 DEF Stats
<1>5. Ints(w, D) /\ Ints(v, D \union {p}) /\ Ints(v, D)
  BY <1>1, <1>3 DEF Ints
<1>6. \A q \in D \ {p} : v[q] = w[q]
  BY <1>1, <1>2
<1>7. \A a, b \in Int : (a + 1) * b = a * b + b /\ 1 * b = b
  OBVIOUS
<1>8. p \in D => v[p] = w[p] + Len(p) - 1 /\ w[p] \in Int
  <2>1. ASSUME p \in D PROVE v[p] = (f[p] + 1) * (Len(p) - 1) /\ w[p] = f[p] * (Len(p) - 1)
    BY <1>1, <1>2, <2>1
  <2>2. p \in D => f[p] \in Int /\ Len(p) - 1 \in Int /\ f[p] * (Len(p) - 1) \in Int
    BY <1>1
  <2> DEFINE b == Len(p) - 1
  <2>3. p \in D => /\ f[p] \in Int /\ b \in Int /\ f[p] * b \in Int
                  /\ v[p] = (f[p] + 1) * b /\ w[p] = f[p] * b
    BY <2>1, <2>2
  <2> HIDE DEF v, w, b
  <2>4. p \in D => v[p] = w[p] + b /\ w[p] \in Int
    BY <1>7, <2>3
  <2> QED
    BY <1>1, <2>4 DEF b
<1>9. p \notin D => v[p] = Len(p) - 1
  BY <1>1, <1>2
<1> HIDE DEF v, w, g, f
<1>10. SumFunctionOnSet(v, D \union {p}) = SumFunctionOnSet(w, D) + Len(p) - 1
  <2>1. CASE p \in D
    <3>1. D \union {p} = D /\ IsFiniteSet(D \ {p}) /\ Ints(w, D \ {p})
      BY <1>1, <1>5, <2>1, FS_Subset DEF Ints
    <3>2. SumFunctionOnSet(v, D \ {p}) = SumFunctionOnSet(w, D \ {p})
      BY <1>6, <3>1, SumAgrees
    <3>3. /\ SumFunctionOnSet(w, D \ {p}) \in Int
          /\ SumFunctionOnSet(w, D) = w[p] + SumFunctionOnSet(w, D \ {p})
      BY <1>1, <1>5, <2>1, SumTakesOut
    <3>4. SumFunctionOnSet(v, D) = v[p] + SumFunctionOnSet(v, D \ {p})
      BY <1>1, <1>5, <2>1, SumTakesOut
    <3> QED
      BY <1>1, <1>8, <2>1, <3>1, <3>2, <3>3, <3>4
  <2>2. CASE p \notin D
    <3>1. SumFunctionOnSet(v, D) = SumFunctionOnSet(w, D)
      BY <1>1, <1>5, <1>6, <2>2, SumAgrees
    <3>2. v[p] \in Int
      BY <1>5 DEF Ints
    <3>3. /\ SumFunctionOnSet(v, D) \in Int
          /\ SumFunctionOnSet(v, D \union {p}) = v[p] + SumFunctionOnSet(v, D)
      BY <1>1, <1>5, <2>2, <3>2, SumAdds
    <3> QED
      BY <1>1, <1>9, <2>2, <3>1, <3>3
  <2> QED
    BY <2>1, <2>2
<1> QED
  BY <1>1, <1>3, <1>4, <1>10 DEF g, f

LEMMA StatsIsInt == MetaTypes => Stats \in Int
<1> SUFFICES ASSUME MetaTypes PROVE Stats \in Int
  OBVIOUS
<1> DEFINE w == [q \in DOMAIN metaTokens |-> metaTokens[q] * (Len(q) - 1)]
<1>1. Ints(w, DOMAIN metaTokens) /\ IsFiniteSet(DOMAIN metaTokens)
  BY DEF Ints, MetaTypes
<1> QED
  BY <1>1, SumTakesOut DEF Stats

LEMMA StatsStays == metaTokens' = metaTokens => Stats' = Stats
BY DEF Stats

LEMMA MetaInvInit == MetaInit => MetaInv
<1> SUFFICES ASSUME MetaInit PROVE MetaInv
  OBVIOUS
<1>1. DOMAIN metaTokens = {} /\ DOMAIN compressed = {}
  BY DEF MetaInit
<1>2. IsFiniteSet(DOMAIN metaTokens)
  BY <1>1, FS_EmptySet
<1>3. Stats = 0
  BY <1>1, SumOfNone DEF Stats
<1> QED
  BY <1>1, <1>2, <1>3 DEF MetaInit, MetaInv, MetaTypes, MarkersAreKnown, ExpandsToText, TableAddsUp

\* A step of the loop that adds the items d, which stand for the words from
\* nextWord to n, and saves what it shortens the text by.
Adds(d, n) ==
  /\ metaPc = "compress" /\ metaPc' = "compress"
  /\ words' = words /\ totalSaved' = totalSaved
  /\ nextWord - 1 <= n /\ n <= Len(words)
  /\ compressed' = compressed \o d /\ nextWord' = n + 1
  /\ Expanded(d) = SubSeq(words, nextWord, n)
  /\ metaSaved' = metaSaved + (n - nextWord + 1) - Len(d)
  /\ \A j \in DOMAIN d : d[j].marker => d[j].words \in DOMAIN metaTokens'
TableGrows ==
  /\ metaTokens' \in [DOMAIN metaTokens' -> Nat] /\ IsFiniteSet(DOMAIN metaTokens')
  /\ DOMAIN metaTokens' \subseteq Seq(Word) /\ DOMAIN metaTokens \subseteq DOMAIN metaTokens'
  /\ Stats' = Stats + metaSaved' - metaSaved

LEMMA AddsKeeps ==
  ASSUME MetaInv, NEW d \in Seq(MetaItem), NEW n \in Int, Adds(d, n), TableGrows
  PROVE  MetaInv'
<1>1. /\ words \in Seq(Word) /\ compressed \in Seq(MetaItem) /\ Len(words) \in Nat
      /\ nextWord \in Nat /\ 1 <= nextWord /\ nextWord <= Len(words) + 1
      /\ metaSaved \in Int /\ totalSaved \in Int
      /\ Len(d) \in Nat /\ Len(compressed) \in Nat
  BY DEF MetaInv, MetaTypes
<1>2. /\ compressed' \in Seq(MetaItem) /\ Len(compressed') = Len(compressed) + Len(d)
      /\ \A j \in DOMAIN compressed' :
           \/ j \in DOMAIN compressed /\ compressed'[j] = compressed[j]
           \/ j - Len(compressed) \in DOMAIN d /\ compressed'[j] = d[j - Len(compressed)]
  <2>1. compressed' = compressed \o d
    BY DEF Adds
  <2>2. /\ DOMAIN compressed = 1..Len(compressed) /\ DOMAIN d = 1..Len(d)
        /\ compressed \o d \in Seq(MetaItem) /\ Len(compressed \o d) = Len(compressed) + Len(d)
        /\ \A j \in 1..(Len(compressed) + Len(d)) :
             (compressed \o d)[j] = IF j <= Len(compressed) THEN compressed[j]
                                                            ELSE d[j - Len(compressed)]
    BY <1>1, ConcatProperties
  <2>3. DOMAIN (compressed \o d) = 1..(Len(compressed) + Len(d))
    BY <2>2
  <2>4. ASSUME NEW j \in 1..(Len(compressed) + Len(d))
        PROVE  j \in 1..Len(compressed) \/ (~(j <= Len(compressed)) /\ j - Len(compressed) \in 1..Len(d))
    BY <1>1
  <2>5. \A j \in 1..Len(compressed) : j <= Len(compressed) /\ j \in 1..(Len(compressed) + Len(d))
    BY <1>1
  <2> QED
    BY <2>1, <2>2, <2>3, <2>4, <2>5
<1>3. /\ nextWord' = n + 1 /\ nextWord - 1 <= n /\ n <= Len(words)
      /\ metaSaved' = metaSaved + (n - nextWord + 1) - Len(d)
  BY DEF Adds
<1>4. nextWord' \in 1..(Len(words) + 1) /\ metaSaved' \in Int /\ nextWord' - 1 = n
  <2>1. 1 <= n + 1 /\ n + 1 <= Len(words) + 1 /\ (n + 1) - 1 = n
    BY <1>1, <1>3
  <2>2. metaSaved + (n - nextWord + 1) - Len(d) \in Int
    BY <1>1
  <2> QED
    BY <1>3, <2>1, <2>2
<1>5. MetaTypes'
  BY <1>1, <1>2, <1>4 DEF MetaTypes, Adds, TableGrows
<1>6. MarkersAreKnown'
  BY <1>2 DEF MarkersAreKnown, MetaInv, Adds, TableGrows
<1>7. ExpandsToText'
  <2>1. Expanded(compressed \o d) = Expanded(compressed) \o Expanded(d)
    BY <1>1, ExpandedOfConcat
  <2>2. SubSeq(words, 1, nextWord - 1) \o SubSeq(words, nextWord, n) = SubSeq(words, 1, n)
    <3>1. /\ 1 \in 1..(Len(words) + 1) /\ nextWord - 1 \in (1 - 1)..Len(words)
          /\ n \in (nextWord - 1)..Len(words) /\ (nextWord - 1) + 1 = nextWord
      BY <1>1, <1>3
    <3>2. SubSeq(words, 1, nextWord - 1) \o SubSeq(words, (nextWord - 1) + 1, n)
            = SubSeq(words, 1, n)
      BY <1>1, <3>1, ConcatAdjacentSubSeq
    <3> QED
      BY <3>1, <3>2
  <2>3. Expanded(compressed)' = Expanded(compressed')
    BY DEF Expanded
  <2>4. Expanded(compressed) = SubSeq(words, 1, nextWord - 1)
    BY DEF MetaInv, ExpandsToText, Adds
  <2>5. Expanded(compressed)' = SubSeq(words', 1, nextWord' - 1)
    BY <1>4, <2>1, <2>2, <2>3, <2>4 DEF Adds
  <2>6. metaSaved = nextWord - 1 - Len(compressed)
    BY DEF MetaInv, ExpandsToText, Adds
  <2>7. metaSaved' = nextWord' - 1 - Len(compressed')
    BY <1>1, <1>2, <1>3, <1>4, <2>6
  <2> QED
    BY <2>5, <2>7 DEF ExpandsToText, Adds
<1>8. TableAddsUp'
  <2>1. Stats = totalSaved + metaSaved /\ Stats' = Stats + metaSaved' - metaSaved
    BY DEF MetaInv, TableAddsUp, Adds, TableGrows
  <2>2. Stats' = totalSaved + metaSaved'
    BY <1>1, <1>4, <2>1
  <2> QED
    BY <2>2 DEF TableAddsUp, Adds
<1> QED
  BY <1>5, <1>6, <1>7, <1>8 DEF MetaInv

LEMMA ReplaceKeeps == MetaInv /\ Replace => MetaInv'
<1> SUFFICES ASSUME MetaInv, Replace PROVE MetaInv'
  OBVIOUS
<1> DEFINE m == Max(Repeated)
           p == Pattern(nextWord, m)
           n == nextWord + m - 1
           d == <<Marker(p)>>
<1>1. /\ words \in Seq(Word) /\ compressed \in Seq(MetaItem) /\ Len(words) \in Nat
      /\ nextWord \in Nat /\ 1 <= nextWord /\ metaSaved \in Int /\ MetaTypes
  BY DEF MetaInv, MetaTypes
<1>2. m \in Nat /\ m > 0 /\ n <= Len(words)
  <2>1. Repeated \in SUBSET (MinPattern..WindowSize) /\ Repeated # {}
    BY DEF Repeated, Replace
  <2>2. IsFiniteSet(Repeated) /\ Repeated \in SUBSET Int
    <3>1. IsFiniteSet(MinPattern..WindowSize) /\ MinPattern..WindowSize \subseteq Int
      BY FS_Interval
    <3> QED
      BY <2>1, <3>1, FS_Subset
  <2>3. m \in Repeated
    BY <2>1, <2>2, MaxProperties
  <2> HIDE DEF m
  <2> QED
    BY <2>3 DEF Repeated
<1>3. /\ metaPc = "compress" /\ metaPc' = "compress" /\ words' = words /\ totalSaved' = totalSaved
      /\ compressed' = Append(compressed, Marker(p)) /\ metaTokens' = Counted(p)
      /\ metaSaved' = metaSaved + Len(p) - 1 /\ nextWord' = nextWord + Len(p)
  BY DEF Replace, Compressing
<1> HIDE DEF m
<1>4. n \in Int /\ p \in Seq(Word) /\ Len(p) = m /\ p = SubSeq(words, nextWord, n)
  <2>1. nextWord \in Int /\ n \in Int /\ nextWord <= n /\ n - nextWord + 1 = m
    BY <1>1, <1>2
  <2>2. \A j \in nextWord..n : words[j] \in Word
    BY <1>1, <1>2
  <2>3. /\ SubSeq(words, nextWord, n) \in Seq(Word)
        /\ Len(SubSeq(words, nextWord, n)) = n - nextWord + 1
    BY <2>1, <2>2, SubSeqProperties
  <2> QED
    BY <2>1, <2>3 DEF Pattern
<1> HIDE DEF p
<1>5. /\ d \in Seq(MetaItem) /\ Len(d) = 1 /\ DOMAIN d = {1} /\ d[1].words = p
      /\ compressed' = compressed \o d
  <2>1. Marker(p) \in MetaItem /\ Marker(p).words = p
    BY <1>4 DEF Marker, MetaItem
  <2> QED
    BY <1>1, <1>3, <2>1
<1>6. Expanded(d) = p
  <2>1. [j \in DOMAIN d |-> d[j].words] = <<p>>
    BY <1>5
  <2> QED
    BY <1>4, <2>1, FlattenSeqOfOne DEF Expanded
<1> HIDE DEF d
<1>7. /\ metaTokens' \in [DOMAIN metaTokens' -> Nat]
      /\ DOMAIN metaTokens' = DOMAIN metaTokens \union {p}
      /\ IsFiniteSet(DOMAIN metaTokens') /\ DOMAIN metaTokens' \subseteq Seq(Word)
      /\ Stats' = Stats + Len(p) - 1
  BY <1>1, <1>3, <1>4, StatsOfCounted
<1>8. Adds(d, n)
  <2>1. nextWord - 1 <= n /\ nextWord' = n + 1
    BY <1>1, <1>2, <1>3, <1>4
  <2>2. metaSaved' = metaSaved + (n - nextWord + 1) - Len(d)
    BY <1>1, <1>2, <1>3, <1>4, <1>5
  <2> HIDE DEF n
  <2> QED
    BY <1>2, <1>3, <1>4, <1>5, <1>6, <1>7, <2>1, <2>2 DEF Adds
<1>9. TableGrows
  <2>1. Stats \in Int /\ metaSaved \in Int
    BY <1>1, StatsIsInt DEF MetaTypes
  <2>2. Len(p) \in Nat
    BY <1>4
  <2>3. metaSaved' = metaSaved + Len(p) - 1 /\ Stats' = Stats + Len(p) - 1
    BY <1>3, <1>7
  <2> HIDE DEF p
  <2>4. Stats' = Stats + metaSaved' - metaSaved
    BY <2>1, <2>2, <2>3
  <2> QED
    BY <1>7, <2>4 DEF TableGrows
<1> HIDE DEF n
<1> QED
  BY <1>4, <1>5, <1>8, <1>9, AddsKeeps

\* Copied words, up to word n, and nothing saved.
LEMMA CopyKeeps ==
  ASSUME MetaInv, NEW n \in Int, nextWord <= n, n <= Len(words), metaPc = "compress",
         compressed' = compressed \o AsItems(SubSeq(words, nextWord, n)), nextWord' = n + 1,
         UNCHANGED <<metaPc, words, totalSaved, metaSaved, metaTokens>>
  PROVE  MetaInv'
<1> DEFINE s == SubSeq(words, nextWord, n)
           d == AsItems(s)
<1>1. /\ words \in Seq(Word) /\ Len(words) \in Nat /\ nextWord \in Nat /\ 1 <= nextWord
      /\ metaSaved \in Int /\ MetaTypes
  BY DEF MetaInv, MetaTypes
<1>2. s \in Seq(Word) /\ Len(s) = n - nextWord + 1
  <2>1. nextWord \in Int /\ \A j \in nextWord..n : words[j] \in Word
    BY <1>1
  <2> QED
    BY <2>1, SubSeqProperties
<1>3. /\ d \in Seq(MetaItem) /\ Len(d) = n - nextWord + 1 /\ Expanded(d) = s
      /\ \A j \in DOMAIN d : ~d[j].marker
  BY <1>2, ExpandedOfWords
<1>4. Adds(d, n)
  <2>1. nextWord - 1 <= n
    BY <1>1
  <2>2. metaSaved' = metaSaved + (n - nextWord + 1) - (n - nextWord + 1)
    BY <1>1
  <2>3. compressed' = compressed \o d
    OBVIOUS
  <2> HIDE DEF d
  <2>4. metaSaved' = metaSaved + (n - nextWord + 1) - Len(d)
    BY <1>3, <2>2
  <2> QED
    BY <1>3, <2>1, <2>3, <2>4 DEF Adds
<1>5. TableGrows
  <2>1. Stats' = Stats + metaSaved' - metaSaved
    BY <1>1, StatsIsInt, StatsStays
  <2> QED
    BY <1>1, <2>1 DEF TableGrows, MetaTypes
<1> HIDE DEF d
<1> QED
  BY <1>3, <1>4, <1>5, AddsKeeps

LEMMA CopyWordKeeps == MetaInv /\ CopyWord => MetaInv'
<1> SUFFICES ASSUME MetaInv, CopyWord PROVE MetaInv'
  OBVIOUS
<1>1. /\ words \in Seq(Word) /\ nextWord \in Nat /\ 1 <= nextWord /\ nextWord <= Len(words)
      /\ compressed \in Seq(MetaItem) /\ words[nextWord] \in Word
  BY DEF MetaInv, MetaTypes, CopyWord, Compressing
<1>2. SubSeq(words, nextWord, nextWord) = <<words[nextWord]>>
  <2>1. /\ nextWord \in Int /\ nextWord - nextWord + 1 = 1 /\ nextWord + 1 - 1 = nextWord
        /\ \A j \in nextWord..nextWord : words[j] \in Word
    BY <1>1
  <2>2. /\ SubSeq(words, nextWord, nextWord) \in Seq(Word)
        /\ Len(SubSeq(words, nextWord, nextWord)) = 1
        /\ SubSeq(words, nextWord, nextWord)[1] = words[nextWord]
    BY <2>1, SubSeqProperties
  <2>3. PICK u \in Seq(Word) : u = SubSeq(words, nextWord, nextWord)
    BY <2>2
  <2>4. Len(u) = 1 /\ u[1] = words[nextWord]
    BY <2>2, <2>3
  <2>5. u = <<words[nextWord]>>
    BY <1>1, <2>4
  <2> QED
    BY <2>3, <2>5
<1>3. AsItems(<<words[nextWord]>>) = <<Plain(words[nextWord])>>
  BY DEF AsItems
<1>4. compressed' = compressed \o AsItems(SubSeq(words, nextWord, nextWord))
  <2>1. Plain(words[nextWord]) \in MetaItem
    BY <1>1 DEF Plain, MetaItem
  <2> QED
    BY <1>1, <1>2, <1>3, <2>1, AppendIsConcat DEF CopyWord
<1> QED
  BY <1>1, <1>4, CopyKeeps DEF CopyWord, Compressing

LEMMA CopyRestKeeps == MetaInv /\ CopyRest => MetaInv'
<1> SUFFICES ASSUME MetaInv, CopyRest PROVE MetaInv'
  OBVIOUS
<1>1. Len(words) \in Int /\ nextWord <= Len(words) /\ metaPc = "compress"
  BY DEF MetaInv, MetaTypes, CopyRest, Compressing
<1>2. compressed' = compressed \o AsItems(SubSeq(words, nextWord, Len(words)))
  BY DEF CopyRest, From
<1>3. /\ nextWord' = Len(words) + 1
      /\ UNCHANGED <<metaPc, words, totalSaved, metaSaved, metaTokens>>
  BY DEF CopyRest
<1>4. PICK n : n = Len(words)
  OBVIOUS
<1>5. /\ n \in Int /\ nextWord <= n /\ n <= Len(words) /\ nextWord' = n + 1
      /\ compressed' = compressed \o AsItems(SubSeq(words, nextWord, n))
  BY <1>1, <1>2, <1>3, <1>4
<1> QED
  BY <1>1, <1>3, <1>5, CopyKeeps

LEMMA ApplyKeeps == ASSUME NEW t \in Seq(Word), MetaInv, MetaApply(t) PROVE MetaInv'
<1>1. /\ metaPc = "idle" /\ words' = t /\ nextWord' = 1 /\ metaSaved' = 0
      /\ metaTokens' = metaTokens /\ totalSaved' = totalSaved /\ Len(t) \in Nat
  BY DEF MetaApply
<1>2. MetaTypes /\ Stats = totalSaved /\ Stats' = Stats /\ totalSaved \in Int
  <2>1. MetaTypes /\ TableAddsUp /\ totalSaved \in Int
    BY DEF MetaInv, MetaTypes
  <2> QED
    BY <1>1, <2>1, StatsStays DEF TableAddsUp
<1>3. CASE Len(t) < MinPattern
  <2>1. metaPc' = "done" /\ compressed' = AsItems(t)
    BY <1>3 DEF MetaApply
  <2>2. /\ AsItems(t) \in Seq(MetaItem) /\ Len(AsItems(t)) = Len(t) /\ Expanded(AsItems(t)) = t
        /\ \A j \in DOMAIN AsItems(t) : ~AsItems(t)[j].marker
    BY ExpandedOfWords
  <2>3. Expanded(compressed)' = Expanded(compressed')
    BY DEF Expanded
  <2>4. MetaTypes'
    BY <1>1, <1>2, <2>1, <2>2 DEF MetaTypes
  <2>5. MarkersAreKnown' /\ TableAddsUp'
    BY <1>1, <1>2, <2>1, <2>2 DEF MarkersAreKnown, TableAddsUp
  <2>6. ExpandsToText'
    BY <1>1, <2>1, <2>2, <2>3 DEF ExpandsToText
  <2> QED
    BY <2>4, <2>5, <2>6 DEF MetaInv
<1>4. CASE ~(Len(t) < MinPattern)
  <2>1. metaPc' = "compress" /\ compressed' = << >>
    BY <1>4 DEF MetaApply
  <2>2. Expanded(compressed)' = << >>
    BY <2>1 DEF Expanded, FlattenSeq
  <2>3. SubSeq(t, 1, 0) = << >>
    BY SubSeqEmpty
  <2>4. MetaTypes'
    BY <1>1, <1>2, <2>1 DEF MetaTypes
  <2>5. MarkersAreKnown' /\ TableAddsUp'
    BY <1>1, <1>2, <2>1 DEF MarkersAreKnown, TableAddsUp
  <2>6. ExpandsToText'
    <3>1. nextWord' - 1 = 0 /\ Len(compressed') = 0
      BY <1>1, <2>1
    <3>2. SubSeq(words', 1, nextWord' - 1) = SubSeq(t, 1, 0)
      BY <1>1, <3>1
    <3>3. metaSaved' = nextWord' - 1 - Len(compressed')
      BY <1>1, <3>1
    <3> QED
      BY <2>1, <2>2, <2>3, <3>2, <3>3 DEF ExpandsToText
  <2> QED
    BY <2>4, <2>5, <2>6 DEF MetaInv
<1> QED
  BY <1>3, <1>4

LEMMA CompressEndsKeeps == MetaInv /\ CompressEnds => MetaInv'
<1> SUFFICES ASSUME MetaInv, CompressEnds PROVE MetaInv'
  OBVIOUS
<1>1. /\ metaPc = "compress" /\ metaPc' = "done" /\ totalSaved' = totalSaved + metaSaved
      /\ UNCHANGED <<metaTokens, words, nextWord, compressed, metaSaved>>
      /\ nextWord > Len(words)
  BY DEF CompressEnds, metaCallVars
<1>2. /\ MetaTypes /\ words \in Seq(Word) /\ Len(words) \in Nat /\ totalSaved \in Int
      /\ metaSaved \in Int /\ nextWord \in 1..(Len(words) + 1)
  BY DEF MetaInv, MetaTypes
<1>3. nextWord - 1 = Len(words)
  BY <1>1, <1>2
<1>4. SubSeq(words, 1, Len(words)) = words
  BY <1>2, SubSeqFull
<1>5. MetaTypes' /\ MarkersAreKnown'
  BY <1>1, <1>2 DEF MetaInv, MetaTypes, MarkersAreKnown
<1>6. ExpandsToText'
  <2>1. Expanded(compressed)' = Expanded(compressed)
    BY <1>1 DEF Expanded
  <2> QED
    BY <1>1, <1>3, <1>4, <2>1 DEF MetaInv, ExpandsToText
<1>7. TableAddsUp'
  <2>1. Stats' = Stats /\ Stats = totalSaved + metaSaved
    BY <1>1, StatsStays DEF MetaInv, TableAddsUp
  <2> QED
    BY <1>1, <1>2, <2>1 DEF TableAddsUp
<1> QED
  BY <1>5, <1>6, <1>7 DEF MetaInv

LEMMA MetaReturnKeeps == MetaInv /\ MetaReturn => MetaInv'
<1> SUFFICES ASSUME MetaInv, MetaReturn PROVE MetaInv'
  OBVIOUS
<1>1. Stats' = Stats
  BY StatsStays DEF MetaReturn
<1> QED
  BY <1>1 DEF MetaReturn, MetaInv, MetaTypes, MarkersAreKnown, ExpandsToText, TableAddsUp

LEMMA MetaInvariant == MetaSpec => []MetaInv
<1>1. MetaInv /\ [MetaNext]_metaVars => MetaInv'
  <2> SUFFICES ASSUME MetaInv, [MetaNext]_metaVars PROVE MetaInv'
    OBVIOUS
  <2>1. CASE UNCHANGED metaVars
    <3>1. UNCHANGED <<metaPc, metaTokens, words, nextWord, compressed, metaSaved, totalSaved>>
      BY <2>1 DEF metaVars, metaCallVars
    <3>2. Stats' = Stats /\ Expanded(compressed)' = Expanded(compressed)
      BY <3>1, StatsStays DEF Expanded
    <3> QED
      BY <3>1, <3>2 DEF MetaInv, MetaTypes, MarkersAreKnown, ExpandsToText, TableAddsUp
  <2>2. CASE \E t \in SeqOf(Word, MaxWords) : MetaApply(t)
    <3>1. SeqOf(Word, MaxWords) \subseteq Seq(Word)
      BY DEF SeqOf
    <3> QED
      BY <2>2, <3>1, ApplyKeeps
  <2> QED
    BY <2>1, <2>2, ReplaceKeeps, CopyWordKeeps, CopyRestKeeps, CompressEndsKeeps, MetaReturnKeeps
    DEF MetaNext, MetaSpent
<1> QED
  BY MetaInvInit, <1>1, PTL DEF MetaSpec

\* Whatever texts one filter compresses, with any window, pattern length and
\* limit: expanding the markers gives the text back, each call reports the
\* words it saved, and Stats adds up to what all calls reported.
THEOREM MetaTokensAreLossless == MetaSpec => []Lossless
<1>1. MetaInv => Lossless
  <2> SUFFICES ASSUME MetaInv, metaPc = "done"
        PROVE  /\ Decompress(compressed) = words
               /\ metaSaved = Len(words) - Len(compressed) /\ totalSaved = Stats
    BY DEF Lossless
  <2>1. Decompress(compressed) = Expanded(compressed)
    <3>1. [j \in DOMAIN compressed |->
             IF ~compressed[j].marker \/ compressed[j].words \in DOMAIN metaTokens
               THEN compressed[j].words ELSE <<compressed[j]>>]
          = [j \in DOMAIN compressed |-> compressed[j].words]
      BY DEF MetaInv, MarkersAreKnown
    <3> QED
      BY <3>1 DEF Decompress, Expanded
  <2>2. totalSaved = Stats
    BY DEF MetaInv, MetaTypes, TableAddsUp
  <2> QED
    BY <2>1, <2>2 DEF MetaInv, ExpandsToText
<1> QED
  BY MetaInvariant, <1>1, PTL

HIDE MetaAssumption

(***************************************************************************)
(* The TF-IDF filter of layer 0.                                           *)
(***************************************************************************)

TFTypes ==
  /\ tfPc \in {"split", "keep", "addBack", "rebuild", "done"}
  /\ lines \in Seq(TextLines)
  /\ score \in [DOMAIN score -> Nat] /\ Range(Written(lines)) \subseteq DOMAIN score
  /\ threshold \in Nat

\* The units that were not left out.
Chosen == DOMAIN units \ removed

\* What is kept are the texts of the chosen units, each as often as it was
\* chosen; all that are worth it are, and no other scores higher.
KeptAreChosen ==
  tfPc \in {"addBack", "rebuild"} =>
    /\ removed \subseteq DOMAIN units
    /\ kept \in Seq(TextLines) /\ Len(kept) = Cardinality(Chosen)
    /\ Range(kept) = {units[j] : j \in Chosen}
    /\ \A j \in DOMAIN units : Worth(units[j]) => j \in Chosen
    /\ \A j \in removed, k \in Chosen :
         score[units[j]] <= score[units[k]] \/ units[k] \in structural

EnoughIsKept == tfPc = "rebuild" => Len(kept) >= Share(Len(units))

TFInv ==
  /\ TFTypes
  /\ units = Written(lines) => KeptAreChosen /\ EnoughIsKept /\ LinesAreKept

USE TFIDFAssumption

LEMMA WrittenProperties ==
  ASSUME NEW ls \in Seq(TextLines)
  PROVE  /\ Written(ls) \in Seq(TextLines)
         /\ Range(Written(ls)) = Range(ls) \ {Blank}
         /\ ToSet(ls) = Range(ls)
<1>1. ToSet(ls) = Range(ls)
  BY DEF ToSet, Range
<1>2. /\ Selected(ls, ToSet(ls) \ {Blank}) \in Seq(TextLines)
      /\ Range(Selected(ls, ToSet(ls) \ {Blank})) = Range(ls) \intersect (ToSet(ls) \ {Blank})
  BY SelectedProperties
<1> QED
  BY <1>1, <1>2 DEF Written

LEMMA UnitTypes ==
  ASSUME TFTypes, units = Written(lines)
  PROVE  /\ units \in Seq(TextLines) /\ DOMAIN units = 1..Len(units) /\ Len(units) \in Nat
         /\ IsFiniteSet(DOMAIN units) /\ Cardinality(DOMAIN units) = Len(units)
         /\ \A j \in DOMAIN units : units[j] \in DOMAIN score /\ score[units[j]] \in Nat
<1>1. units \in Seq(TextLines)
  BY WrittenProperties DEF TFTypes
<1>2. DOMAIN units = 1..Len(units) /\ Len(units) \in Nat
  BY <1>1
<1>3. IsFiniteSet(1..Len(units)) /\ Cardinality(1..Len(units)) = Len(units)
  BY <1>2, FS_Interval
<1>4. \A j \in DOMAIN units : units[j] \in Range(Written(lines))
  BY DEF Range
<1> QED
  BY <1>1, <1>2, <1>3, <1>4 DEF TFTypes

LEMMA ShareIsAShare == \A n \in Nat : Share(n) \in Nat /\ Share(n) <= n
BY DEF Share

\* When the input is returned, nothing is left out.
LEMMA AllReturned ==
  TFTypes /\ units = Written(lines) /\ output = lines => LinesAreKept
<1> SUFFICES ASSUME TFTypes, units = Written(lines), output = lines PROVE LinesAreKept
  OBVIOUS
<1>1. lines \in Seq(TextLines) /\ \A j \in DOMAIN units : units[j] \in ToSet(output)
  <2>1. lines \in Seq(TextLines)
    BY DEF TFTypes
  <2>2. Range(units) \subseteq ToSet(lines)
    BY <2>1, WrittenProperties
  <2> QED
    BY <2>1, <2>2 DEF Range
<1>2. Len(Written(output)) >= Share(Len(units))
  BY UnitTypes, ShareIsAShare
<1> QED
  BY <1>1, <1>2 DEF LinesAreKept

LEMMA SplitKeeps == TFInv /\ Split => TFInv'
<1> SUFFICES ASSUME TFInv, Split PROVE TFInv'
  OBVIOUS
<1>1. TFTypes' /\ tfPc' \in {"keep", "done"} /\ (tfPc' = "done" => output' = lines')
  BY DEF TFInv, TFTypes, Split
<1>2. (TFTypes /\ units = Written(lines) /\ output = lines => LinesAreKept)'
  BY AllReturned, PTL
<1> QED
  BY <1>1, <1>2 DEF TFInv, KeptAreChosen, EnoughIsKept, LinesAreKept

LEMMA KeepWorthyKeeps == TFInv /\ KeepWorthy => TFInv'
<1> SUFFICES ASSUME TFInv, KeepWorthy PROVE TFInv'
  OBVIOUS
<1>1. /\ TFTypes /\ TFTypes' /\ tfPc' = "addBack" /\ units' = units /\ lines' = lines
      /\ score' = score /\ structural' = structural /\ threshold' = threshold
  BY DEF TFInv, TFTypes, KeepWorthy
<1>2. ASSUME units = Written(lines) PROVE KeptAreChosen'
  <2> DEFINE good == {u \in ToSet(units) : Worth(u)}
             at == {j \in DOMAIN units : units[j] \in good}
  <2>1. /\ units \in Seq(TextLines)
        /\ \A j \in DOMAIN units : score[units[j]] \in Nat
    BY <1>1, <1>2, UnitTypes
  <2>2. \A j \in DOMAIN units : units[j] \in good <=> Worth(units[j])
    BY DEF ToSet
  <2>3. kept' = Selected(units, good) /\ removed' = DOMAIN units \ at
    BY <2>2 DEF KeepWorthy
  <2>4. Chosen' = at
    BY <1>1, <2>3 DEF Chosen
  <2>5. /\ kept' \in Seq(TextLines) /\ Len(kept') = Cardinality(at)
        /\ Range(kept') = Range(units) \intersect good
    <3> HIDE DEF good
    <3>1. /\ Selected(units, good) \in Seq(TextLines)
          /\ Range(Selected(units, good)) = Range(units) \intersect good
      BY <2>1, SelectedProperties
    <3>2. Len(Selected(units, good)) = Cardinality(at)
      BY <2>1, LenOfSelected
    <3> QED
      BY <2>3, <3>1, <3>2
  <2>6. Range(kept') = {units[j] : j \in at}
    <3>1. Range(units) \intersect good = {units[j] : j \in at}
      BY DEF Range
    <3> QED
      BY <2>5, <3>1
  <2>7. ASSUME NEW j \in DOMAIN units \ at, NEW k \in at
        PROVE  score[units[j]] <= score[units[k]] \/ units[k] \in structural
    <3>1. score[units[j]] \in Nat /\ score[units[k]] \in Nat /\ threshold \in Nat
      BY <1>1, <2>1 DEF TFTypes
    <3> QED
      BY <2>2, <3>1 DEF Worth
  <2> HIDE DEF good, at
  <2>8. removed' \subseteq DOMAIN units
    BY <2>3
  <2>9. \A j \in DOMAIN units : Worth(units[j]) => j \in at
    BY <2>2 DEF at
  <2> QED
    BY <1>1, <2>3, <2>4, <2>5, <2>6, <2>7, <2>8, <2>9 DEF KeptAreChosen, Worth
<1> QED
  BY <1>1, <1>2 DEF TFInv, EnoughIsKept, LinesAreKept

LEMMA AddBackKeeps == TFInv /\ AddBack => TFInv'
<1> SUFFICES ASSUME TFInv, AddBack PROVE TFInv'
  OBVIOUS
<1>1. /\ TFTypes /\ TFTypes' /\ tfPc = "addBack" /\ tfPc' = "addBack" /\ units' = units
      /\ lines' = lines /\ score' = score /\ structural' = structural /\ threshold' = threshold
  BY DEF TFInv, TFTypes, AddBack
<1>2. ASSUME units = Written(lines) PROVE KeptAreChosen'
  <2>1. PICK j \in removed :
          /\ \A k \in removed : score[units[k]] <= score[units[j]]
          /\ kept' = Append(kept, units[j]) /\ removed' = removed \ {j}
    BY DEF AddBack
  <2>2. /\ removed \subseteq DOMAIN units
        /\ kept \in Seq(TextLines) /\ Len(kept) = Cardinality(Chosen)
        /\ Range(kept) = {units[k] : k \in Chosen}
        /\ \A k \in DOMAIN units : Worth(units[k]) => k \in Chosen
        /\ \A k \in removed, m \in Chosen :
             score[units[k]] <= score[units[m]] \/ units[m] \in structural
    BY <1>1, <1>2 DEF TFInv, KeptAreChosen
  <2>3. /\ units \in Seq(TextLines) /\ IsFiniteSet(DOMAIN units) /\ units[j] \in TextLines
    <3>1. units \in Seq(TextLines) /\ IsFiniteSet(DOMAIN units)
      BY <1>1, <1>2, UnitTypes
    <3> QED
      BY <2>2, <3>1
  <2>4. Chosen' = Chosen \union {j} /\ j \notin Chosen /\ IsFiniteSet(Chosen)
    BY <1>1, <2>1, <2>2, <2>3, FS_Subset DEF Chosen
  <2>5. kept' \in Seq(TextLines) /\ Len(kept') = Cardinality(Chosen')
    <3>1. Cardinality(Chosen \union {j}) = Cardinality(Chosen) + 1
      BY <2>4, FS_AddElement
    <3> QED
      BY <2>1, <2>2, <2>3, <2>4, <3>1
  <2>6. Range(kept') = {units[k] : k \in Chosen'}
    <3>1. Range(kept') = Range(kept) \union {units[j]}
      BY <2>1, <2>2, <2>3, RangeProperties
    <3> QED
      BY <2>2, <2>4, <3>1
  <2>7. /\ removed' \subseteq DOMAIN units
        /\ \A k \in DOMAIN units : Worth(units[k]) => k \in Chosen'
        /\ \A k \in removed', m \in Chosen' :
             score[units[k]] <= score[units[m]] \/ units[m] \in structural
    BY <2>1, <2>2, <2>4
  <2> QED
    BY <1>1, <2>5, <2>6, <2>7 DEF KeptAreChosen, Worth
<1> QED
  BY <1>1, <1>2 DEF TFInv, EnoughIsKept, LinesAreKept

LEMMA EnoughKeeps == TFInv /\ EnoughKept => TFInv'
<1> SUFFICES ASSUME TFInv, EnoughKept PROVE TFInv'
  OBVIOUS
<1>1. /\ TFTypes /\ TFTypes' /\ tfPc = "addBack" /\ tfPc' = "rebuild" /\ units' = units
      /\ lines' = lines /\ score' = score /\ structural' = structural /\ threshold' = threshold
      /\ kept' = kept /\ removed' = removed
      /\ Len(kept) >= Share(Len(units)) \/ removed = {}
  BY DEF TFInv, TFTypes, EnoughKept
<1>2. ASSUME units = Written(lines) PROVE KeptAreChosen' /\ EnoughIsKept'
  <2>1. KeptAreChosen
    BY <1>2 DEF TFInv
  <2>2. removed = {} => Chosen = DOMAIN units
    BY DEF Chosen
  <2>3. removed = {} => Len(kept) >= Share(Len(units))
    BY <1>1, <1>2, <2>1, <2>2, UnitTypes, ShareIsAShare DEF KeptAreChosen
  <2> QED
    BY <1>1, <2>1, <2>3 DEF KeptAreChosen, Chosen, Worth, EnoughIsKept
<1> QED
  BY <1>1, <1>2 DEF TFInv, LinesAreKept

\* The lines rebuilt are those kept and the blank ones.
LEMMA RebuildKeeps == TFInv /\ reconstructInOrder => TFInv'
<1> SUFFICES ASSUME TFInv, reconstructInOrder PROVE TFInv'
  OBVIOUS
<1> DEFINE K == ToSet(kept)
           rebuilt == Selected(lines, K \union {Blank})
<1>1. /\ TFTypes /\ TFTypes' /\ tfPc = "rebuild" /\ tfPc' = "done" /\ units' = units
      /\ lines' = lines /\ score' = score /\ structural' = structural /\ threshold' = threshold
      /\ output' = lines \/ output' = rebuilt
  BY DEF TFInv, TFTypes, reconstructInOrder
<1>2. CASE output' = lines
  <2>1. (TFTypes /\ units = Written(lines) /\ output = lines => LinesAreKept)'
    BY AllReturned, PTL
  <2> QED
    BY <1>1, <1>2, <2>1 DEF TFInv, KeptAreChosen, EnoughIsKept
<1>3. ASSUME output' = rebuilt, units = Written(lines) PROVE LinesAreKept'
  <2>1. /\ removed \subseteq DOMAIN units
        /\ kept \in Seq(TextLines) /\ Len(kept) = Cardinality(Chosen)
        /\ K = {units[j] : j \in Chosen}
        /\ \A j \in DOMAIN units : Worth(units[j]) => j \in Chosen
        /\ \A j \in removed, k \in Chosen :
             score[units[j]] <= score[units[k]] \/ units[k] \in structural
        /\ Len(kept) >= Share(Len(units))
    BY <1>1, <1>3 DEF TFInv, KeptAreChosen, EnoughIsKept, ToSet, Range
  <2>2. /\ units \in Seq(TextLines) /\ Len(units) \in Nat
        /\ lines \in Seq(TextLines) /\ Range(units) = Range(lines) \ {Blank}
    BY <1>1, <1>3, UnitTypes, WrittenProperties DEF TFTypes
  <2> HIDE DEF K
  <2>3. rebuilt \in Seq(TextLines) /\ Range(rebuilt) = Range(lines) \intersect (K \union {Blank})
    BY <2>2, SelectedProperties
  <2>4. ToSet(rebuilt) = Range(rebuilt)
    BY DEF ToSet, Range
  <2>5. \A j \in DOMAIN units : units[j] \in ToSet(rebuilt) <=> units[j] \in K
    <3>1. \A j \in DOMAIN units : units[j] \in Range(lines) /\ units[j] # Blank
      BY <2>2 DEF Range
    <3> HIDE DEF rebuilt
    <3> QED
      BY <2>3, <2>4, <3>1
  \* As many lines as were kept, and more if one stands in the text twice.
  <2>6. Len(Written(rebuilt)) >= Share(Len(units))
    <3> DEFINE at == {j \in DOMAIN units : units[j] \in K}
               N == Range(lines) \ {Blank}
    <3>1. Written(rebuilt) = Selected(units, K)
      <4>1. Written(rebuilt)
              = Selected(lines, (K \union {Blank}) \intersect (ToSet(rebuilt) \ {Blank}))
        <5> DEFINE X == ToSet(rebuilt) \ {Blank}
        <5>1. Written(rebuilt) = Selected(rebuilt, X)
          BY DEF Written
        <5> HIDE DEF X
        <5>2. Selected(rebuilt, X) = Selected(lines, (K \union {Blank}) \intersect X)
          BY <2>2, SelectedTwice
        <5> QED
          BY <5>1, <5>2 DEF X
      <4>2. Written(lines) = Selected(lines, N)
        BY <2>2, WrittenProperties DEF Written
      <4>3. Selected(units, K) = Selected(lines, N \intersect K)
        BY <1>3, <2>2, <4>2, SelectedTwice
      <4>4. Range(lines) \intersect ((K \union {Blank}) \intersect (ToSet(rebuilt) \ {Blank}))
              = Range(lines) \intersect (N \intersect K)
        BY <2>3, <2>4
      <4> HIDE DEF rebuilt, N
      <4>5. Selected(lines, (K \union {Blank}) \intersect (ToSet(rebuilt) \ {Blank}))
              = Selected(lines, N \intersect K)
        BY <2>2, <4>4, SelectedAgrees
      <4> QED
        BY <4>1, <4>3, <4>5
    <3>2. IsFiniteSet(at) /\ Len(Selected(units, K)) = Cardinality(at)
      BY <2>2, LenOfSelected
    <3>3. Chosen \subseteq at
      BY <2>1 DEF Chosen
    <3> HIDE DEF at, rebuilt
    <3>4. /\ Cardinality(Chosen) <= Cardinality(at)
          /\ Cardinality(Chosen) \in Nat /\ Cardinality(at) \in Nat
      BY <3>2, <3>3, FS_Subset, FS_CardinalityType
    <3>5. Share(Len(units)) \in Nat
      BY <2>2, ShareIsAShare
    <3> QED
      BY <2>1, <3>1, <3>2, <3>4, <3>5
  <2> HIDE DEF rebuilt
  <2>7. \A j \in DOMAIN units : Worth(units[j]) => units[j] \in ToSet(rebuilt)
    BY <2>1, <2>5
  <2>8. ASSUME NEW j \in DOMAIN units, NEW k \in DOMAIN units,
               units[j] \notin ToSet(rebuilt), units[k] \in ToSet(rebuilt)
        PROVE  score[units[j]] <= score[units[k]] \/ units[k] \in structural
    <3>1. j \in removed
      BY <2>1, <2>5, <2>8 DEF Chosen
    <3>2. PICK m \in Chosen : units[m] = units[k]
      BY <2>1, <2>5, <2>8
    <3>3. score[units[j]] <= score[units[m]] \/ units[m] \in structural
      BY <2>1, <3>1, <3>2
    <3> QED
      BY <3>2, <3>3
  <2> QED
    BY <1>1, <1>3, <2>6, <2>7, <2>8 DEF LinesAreKept, Worth, Written
<1> QED
  BY <1>1, <1>2, <1>3 DEF TFInv, KeptAreChosen, EnoughIsKept

LEMMA TFInvariant == TFSpec => []TFInv
<1>1. TFInit => TFInv
  <2> SUFFICES ASSUME TFInit PROVE TFInv
    OBVIOUS
  <2>1. lines \in Seq(TextLines)
    BY DEF TFInit, SeqOf
  <2>2. score \in [DOMAIN score -> Nat] /\ Range(Written(lines)) \subseteq DOMAIN score
    BY DEF TFInit, ToSet, Range
  <2> QED
    BY <2>1, <2>2 DEF TFInit, TFInv, TFTypes, KeptAreChosen, EnoughIsKept, LinesAreKept
<1>2. TFInv /\ [TFNext]_tfVars => TFInv'
  <2> SUFFICES ASSUME TFInv, [TFNext]_tfVars PROVE TFInv'
    OBVIOUS
  <2>1. CASE UNCHANGED tfVars
    BY <2>1 DEF tfVars, TFInv, TFTypes, KeptAreChosen, Chosen, Worth, EnoughIsKept, LinesAreKept,
                Written
  <2> QED
    BY <2>1, SplitKeeps, KeepWorthyKeeps, AddBackKeeps, EnoughKeeps, RebuildKeeps
    DEF TFNext, TFDone
<1> QED
  BY <1>1, <1>2, PTL DEF TFSpec

\* Whatever the scores, the threshold and the text: when the units are lines,
\* at least 30 % of them are returned, all that are worth it, and none that is
\* left out scores higher than one that was added back (Apply).
THEOREM BestLinesAreKept == TFSpec => []LinesAreKept
<1>1. TFInv => LinesAreKept
  BY DEF TFInv, LinesAreKept
<1> QED
  BY TFInvariant, <1>1, PTL

HIDE TFIDFAssumption

(***************************************************************************)
(* The clusters of layer 35.                                               *)
(***************************************************************************)

Cluster == [core : Unit, items : SUBSET Unit]
Clustering == clusterPc \in {"seed", "join"}

ClusterTypes ==
  /\ clusterPc \in {"seed", "join", "done"}
  /\ maxCores \in Nat
  /\ likeness \in [Pair -> 0..SimLevels]
  /\ repScore \in [Unit -> Int]
  /\ assigned \in SUBSET Unit
  /\ joinAt \in Nat \ {0}
  /\ members \in SUBSET Unit
  /\ clusters \in Seq(Cluster)
  /\ clusterPc = "join" => seed \in Unit /\ seed \in members
  /\ clusterPc # "join" => members = {} /\ joinAt = 1

\* While the seed collects its members, the scores still count the seed.
ScoresAreExact ==
  /\ clusterPc = "seed" => \A k \in Free : repScore[k] = Similarity(k, Free)
  /\ clusterPc = "join" => \A k \in Free : repScore[k] = Similarity(k, Free \union {seed})

\* The units taken are in one cluster each, the one in the making included.
Partition ==
  Clustering =>
    /\ \A k \in Unit : k \in assigned <=>
         k \in members \/ \E c \in DOMAIN clusters : k \in clusters[c].items
    /\ \A c \in DOMAIN clusters : clusters[c].items \intersect members = {}
    /\ \A c, d \in DOMAIN clusters :
         c # d => clusters[c].items \intersect clusters[d].items = {}

\* A member is similar to its core.
MembersAreSimilar ==
  /\ \A c \in DOMAIN clusters : \A k \in clusters[c].items :
       sim(clusters[c].core, k) >= SimilarityThreshold
  /\ clusterPc = "join" => \A k \in members : sim(seed, k) >= SimilarityThreshold

\* No unit left would fit into a cluster that is complete, and none before
\* joinAt into the one in the making.
SeedsAreApart ==
  Clustering =>
    /\ \A c \in DOMAIN clusters : \A k \in Free :
         sim(clusters[c].core, k) < SimilarityThreshold
    /\ \A c, d \in DOMAIN clusters : c < d =>
         sim(clusters[c].core, clusters[d].core) < SimilarityThreshold
    /\ clusterPc = "join" =>
         /\ \A c \in DOMAIN clusters : sim(clusters[c].core, seed) < SimilarityThreshold
         /\ \A k \in Free : k < joinAt => sim(seed, k) < SimilarityThreshold

WithinCores ==
  /\ clusterPc = "seed" => Len(clusters) <= maxCores
  /\ clusterPc = "join" => Len(clusters) < maxCores

\* The answer.
ClustersAreDone ==
  clusterPc = "done" =>
    /\ \A k \in Unit : \E c \in DOMAIN clusters : k \in clusters[c].items
    /\ \A c, d \in DOMAIN clusters :
         c # d => clusters[c].items \intersect clusters[d].items = {}
    /\ \A c, d \in DOMAIN clusters :
         c < d /\ c <= maxCores =>
           sim(clusters[c].core, clusters[d].core) < SimilarityThreshold

ClusterInv ==
  /\ ClusterTypes /\ ScoresAreExact /\ Partition /\ MembersAreSimilar
  /\ SeedsAreApart /\ WithinCores /\ ClustersAreDone

USE SemanticAssumption

LEMMA SimilarityTypes ==
  ASSUME ClusterTypes
  PROVE  /\ \A j, k \in Unit : sim(j, k) \in 0..SimLevels /\ sim(j, j) >= SimilarityThreshold
         /\ \A k \in Unit : Ints([j \in Unit |-> sim(k, j)], Unit)
         /\ IsFiniteSet(Unit)
<1>1. ASSUME NEW j \in Unit, NEW k \in Unit
      PROVE  sim(j, k) \in 0..SimLevels /\ sim(j, j) >= SimilarityThreshold
  <2>1. j < k => <<j, k>> \in Pair
    BY DEF Pair
  <2>2. k < j => <<k, j>> \in Pair
    BY DEF Pair
  <2>3. j < k \/ k < j \/ j = k
    BY DEF Unit
  <2>4. SimLevels \in 0..SimLevels
    OBVIOUS
  <2>5. \A p \in Pair : likeness[p] \in 0..SimLevels
    BY DEF ClusterTypes
  <2>6. sim(j, k) \in 0..SimLevels
    BY <2>1, <2>2, <2>3, <2>4, <2>5 DEF sim
  <2>7. sim(j, j) = SimLevels
    BY DEF sim
  <2> QED
    BY <2>6, <2>7
<1>2. \A k \in Unit : Ints([j \in Unit |-> sim(k, j)], Unit)
  BY <1>1 DEF Ints
<1>3. IsFiniteSet(Unit)
  BY FS_Interval DEF Unit
<1> QED
  BY <1>1, <1>2, <1>3

\* Without j, unit k is similar to the others by so much less.
LEMMA SimilarityWithout ==
  ASSUME ClusterTypes, NEW U \in SUBSET Unit, NEW k \in U, NEW j \in U, j # k
  PROVE  Similarity(k, U \ {j}) = Similarity(k, U) - sim(k, j)
<1> DEFINE w == [m \in Unit |-> sim(k, m)]
           S == U \ {k}
<1>1. Ints(w, S) /\ IsFiniteSet(S)
  BY SimilarityTypes, FS_Subset DEF Ints
<1>2. j \in S /\ w[j] = sim(k, j) /\ sim(k, j) \in Int
  BY SimilarityTypes
<1>3. /\ SumFunctionOnSet(w, S \ {j}) \in Int
      /\ SumFunctionOnSet(w, S) = w[j] + SumFunctionOnSet(w, S \ {j})
  BY <1>1, <1>2, SumTakesOut
<1>4. (U \ {j}) \ {k} = S \ {j}
  OBVIOUS
<1>5. /\ Similarity(k, U) = SumFunctionOnSet(w, S)
      /\ Similarity(k, U \ {j}) = SumFunctionOnSet(w, S \ {j})
  BY <1>4 DEF Similarity
<1> HIDE DEF w, S
<1> QED
  BY <1>2, <1>3, <1>5

LEMMA SimilarityIsInt ==
  ASSUME ClusterTypes, NEW U \in SUBSET Unit, NEW k \in Unit
  PROVE  Similarity(k, U) \in Int
<1> DEFINE w == [m \in Unit |-> sim(k, m)]
           S == U \ {k}
<1>1. Ints(w, S) /\ IsFiniteSet(S)
  BY SimilarityTypes, FS_Subset DEF Ints
<1>2. SumFunctionOnSet(w, S) \in Int
  BY <1>1, SumTakesOut
<1> QED
  BY <1>2 DEF Similarity

\* The matrix is computed once.
LEMMA SimilarityStays ==
  ASSUME likeness' = likeness
  PROVE  /\ \A j, k : sim(j, k)' = sim(j, k)
         /\ \A k, U : Similarity(k, U)' = Similarity(k, U)
<1>1. \A j, k : sim(j, k)' = sim(j, k)
  BY DEF sim
<1>2. ASSUME NEW k PROVE [j \in Unit |-> sim(k, j)]' = [j \in Unit |-> sim(k, j)]
  BY <1>1
<1>3. ASSUME NEW k, NEW U PROVE Similarity(k, U)' = Similarity(k, U)
  BY <1>2 DEF Similarity
<1> QED
  BY <1>1, <1>3

LEMMA ClusterInvInit == ClusterInit => ClusterInv
<1> SUFFICES ASSUME ClusterInit PROVE ClusterInv
  OBVIOUS
<1>1. clusters = << >> /\ DOMAIN clusters = {} /\ Len(clusters) = 0
  BY DEF ClusterInit
<1>2. \A j \in Unit, k \in Unit : sim(j, k) \in 0..SimLevels
  <2>1. \A p \in Pair : likeness[p] \in 0..SimLevels
    BY DEF ClusterInit
  <2>2. ASSUME NEW j \in Unit, NEW k \in Unit PROVE sim(j, k) \in 0..SimLevels
    <3>1. j < k => <<j, k>> \in Pair
      BY DEF Pair
    <3>2. k < j => <<k, j>> \in Pair
      BY DEF Pair
    <3>3. j < k \/ k < j \/ j = k
      BY DEF Unit
    <3>4. SimLevels \in 0..SimLevels
      OBVIOUS
    <3> QED
      BY <2>1, <3>1, <3>2, <3>3, <3>4 DEF sim
  <2> QED
    BY <2>2
<1>3. ASSUME NEW k \in Unit PROVE Similarity(k, Unit) \in Int
  <2> DEFINE w == [m \in Unit |-> sim(k, m)]
  <2>1. Ints(w, Unit \ {k})
    BY <1>2 DEF Ints
  <2>2. IsFiniteSet(Unit \ {k})
    <3>1. IsFiniteSet(Unit)
      BY FS_Interval DEF Unit
    <3> QED
      BY <3>1, FS_Subset
  <2>3. SumFunctionOnSet(w, Unit \ {k}) \in Int
    BY <2>1, <2>2, SumTakesOut
  <2> QED
    BY <2>3 DEF Similarity
<1>4. ClusterTypes
  BY <1>1, <1>3 DEF ClusterInit, ClusterTypes
<1>5. ScoresAreExact
  <2>1. Free = Unit
    BY DEF ClusterInit, Free
  <2> QED
    BY <2>1 DEF ClusterInit, ScoresAreExact
<1> QED
  BY <1>1, <1>4, <1>5
  DEF ClusterInit, ClusterInv, Partition, MembersAreSimilar, SeedsAreApart, WithinCores,
      ClustersAreDone, ClusterTypes

\* The first of the best of the units left is one of them.
LEMMA SeedIsFree ==
  ASSUME ClusterTypes, Free # {}
  PROVE  Min({k \in Free : \A j \in Free : repScore[j] <= repScore[k]}) \in Free
<1> DEFINE Best == {k \in Free : \A j \in Free : repScore[j] <= repScore[k]}
<1>1. Free \subseteq Unit /\ IsFiniteSet(Free) /\ Ints(repScore, Free)
  BY SimilarityTypes, FS_Subset DEF Free, Ints, ClusterTypes
<1>2. Best # {}
  BY <1>1, Heaviest
<1>3. Best \in SUBSET Nat
  <2>1. Best \subseteq Unit
    BY <1>1
  <2>2. Unit \subseteq Nat
    BY DEF Unit
  <2> QED
    BY <2>1, <2>2
<1>4. Min(Best) \in Best
  BY <1>2, <1>3, MinProperties
<1> QED
  BY <1>4

LEMMA PickSeedKeeps == ClusterInv /\ PickSeed => ClusterInv'
<1> SUFFICES ASSUME ClusterInv, PickSeed PROVE ClusterInv'
  OBVIOUS
<1> USE DEF ClusterInv
<1>1. seed' \in Free /\ seed' \in Unit /\ Free \subseteq Unit
  BY SeedIsFree DEF PickSeed, Free
<1>2. /\ clusterPc = "seed" /\ clusterPc' = "join" /\ members = {} /\ members' = {seed'}
      /\ clusters' = clusters /\ repScore' = repScore /\ likeness' = likeness
      /\ maxCores' = maxCores /\ joinAt' = 1 /\ assigned' = assigned \union {seed'}
  BY DEF PickSeed, ClusterTypes
<1>3. Free' = Free \ {seed'} /\ Free' \union {seed'} = Free
  BY <1>1, <1>2 DEF Free
<1>4. \A j, k : sim(j, k)' = sim(j, k)
  BY <1>2, SimilarityStays
<1>5. ClusterTypes'
  BY <1>1, <1>2 DEF ClusterTypes
<1>6. ScoresAreExact'
  <2>1. ASSUME NEW k \in Free' PROVE repScore'[k] = Similarity(k, Free \union {seed})'
    <3>1. Similarity(k, Free \union {seed})' = Similarity(k, Free' \union {seed'})
      BY <1>2, SimilarityStays
    <3>2. repScore[k] = Similarity(k, Free)
      BY <1>2, <1>3 DEF ScoresAreExact
    <3> QED
      BY <1>2, <1>3, <3>1, <3>2
  <2> QED
    BY <1>2, <2>1 DEF ScoresAreExact
<1>7. Partition'
  <2>1. \A c \in DOMAIN clusters : seed' \notin clusters[c].items
    BY <1>1, <1>2 DEF Partition, Clustering, Free
  <2> QED
    BY <1>1, <1>2, <2>1 DEF Partition, Clustering
<1>8. MembersAreSimilar'
  <2>1. sim(seed', seed') >= SimilarityThreshold
    BY <1>1, SimilarityTypes
  <2> QED
    BY <1>2, <1>4, <2>1 DEF MembersAreSimilar
<1>9. SeedsAreApart'
  <2>1. \A k \in Free' : ~(k < 1)
    BY <1>1, <1>3 DEF Unit
  <2> QED
    BY <1>1, <1>2, <1>3, <1>4, <2>1 DEF SeedsAreApart, Clustering
<1>10. WithinCores' /\ ClustersAreDone'
  BY <1>2 DEF PickSeed, Full, WithinCores, ClustersAreDone, ClusterTypes
<1> QED
  BY <1>5, <1>6, <1>7, <1>8, <1>9, <1>10

LEMMA JoinKeeps == ClusterInv /\ Join => ClusterInv'
<1> SUFFICES ASSUME ClusterInv, Join PROVE ClusterInv'
  OBVIOUS
<1> USE DEF ClusterInv
<1>1. /\ clusterPc = "join" /\ clusterPc' = "join" /\ joinAt \in Unit /\ joinAt' = joinAt + 1
      /\ clusters' = clusters /\ seed' = seed /\ likeness' = likeness /\ maxCores' = maxCores
      /\ seed \in Unit /\ seed \in members
  BY DEF Join, ClusterTypes
<1>2. \A j, k : sim(j, k)' = sim(j, k)
  BY <1>1, SimilarityStays
<1>3. WithinCores' /\ ClustersAreDone'
  BY <1>1 DEF WithinCores, ClustersAreDone
<1>4. CASE joinAt \in Free /\ sim(seed, joinAt) >= SimilarityThreshold
  <2>1. /\ members' = members \union {joinAt}
        /\ assigned' = assigned \union {joinAt}
        /\ repScore' = ScoresWithout(joinAt, Unit \ assigned')
    BY <1>4 DEF Join
  <2>2. Free' = Free \ {joinAt} /\ Free \subseteq Unit /\ Free' = Unit \ assigned'
    BY <2>1 DEF Free
  <2>3. repScore' \in [Unit -> Int]
    <3>1. \A k \in Unit : repScore[k] \in Int /\ sim(k, joinAt) \in Int
      BY <1>1, SimilarityTypes DEF ClusterTypes
    <3> QED
      BY <2>1, <3>1 DEF ScoresWithout
  <2>4. ClusterTypes'
    <3>1. joinAt' \in Nat \ {0}
      BY <1>1 DEF Unit
    <3> QED
      BY <1>1, <2>1, <2>3, <3>1 DEF ClusterTypes
  <2>5. ScoresAreExact'
    <3>1. ASSUME NEW k \in Free' PROVE repScore'[k] = Similarity(k, Free \union {seed})'
      <4> DEFINE U == Free \union {seed}
      <4>1. Similarity(k, Free \union {seed})' = Similarity(k, Free' \union {seed})
        BY <1>1, SimilarityStays
      <4>2. seed \notin Free
        BY <1>1 DEF Partition, Clustering, Free
      <4>3. U \in SUBSET Unit /\ k \in U /\ joinAt \in U /\ joinAt # k
        BY <1>1, <1>4, <2>2
      <4>4. U \ {joinAt} = Free' \union {seed}
        BY <1>4, <2>2, <4>2
      <4>5. Similarity(k, U \ {joinAt}) = Similarity(k, U) - sim(k, joinAt)
        BY <4>3, SimilarityWithout
      <4>6. repScore[k] = Similarity(k, U)
        BY <1>1, <2>2 DEF ScoresAreExact
      <4>7. repScore'[k] = repScore[k] - sim(k, joinAt)
        BY <2>1, <2>2 DEF ScoresWithout
      <4> QED
        BY <4>1, <4>4, <4>5, <4>6, <4>7
    <3> QED
      BY <1>1, <3>1 DEF ScoresAreExact
  <2>6. Partition'
    <3>1. \A c \in DOMAIN clusters : joinAt \notin clusters[c].items
      BY <1>1, <1>4 DEF Partition, Clustering, Free
    <3> QED
      BY <1>1, <2>1, <3>1 DEF Partition, Clustering
  <2>7. MembersAreSimilar'
    BY <1>1, <1>2, <1>4, <2>1 DEF MembersAreSimilar
  <2>8. SeedsAreApart'
    <3>1. \A k \in Free' : k < joinAt + 1 => k < joinAt
      BY <1>1, <2>2 DEF Unit
    <3> QED
      BY <1>1, <1>2, <2>2, <3>1 DEF SeedsAreApart, Clustering
  <2> QED
    BY <1>3, <2>4, <2>5, <2>6, <2>7, <2>8
<1>5. CASE ~(joinAt \in Free /\ sim(seed, joinAt) >= SimilarityThreshold)
  <2>1. members' = members /\ assigned' = assigned /\ repScore' = repScore
    BY <1>5 DEF Join
  <2>2. Free' = Free /\ Free \subseteq Unit
    BY <2>1 DEF Free
  <2>3. ClusterTypes' /\ Partition' /\ MembersAreSimilar'
    BY <1>1, <1>2, <2>1, SMTT(30) DEF ClusterTypes, Partition, Clustering, MembersAreSimilar
  <2>4. ScoresAreExact'
    <3>1. \A k : Similarity(k, Free \union {seed})' = Similarity(k, Free' \union {seed})
      BY <1>1, SimilarityStays
    <3> QED
      BY <1>1, <2>1, <2>2, <3>1 DEF ScoresAreExact
  <2>5. SeedsAreApart'
    <3>1. \A k \in Free : k < joinAt + 1 => k < joinAt \/ k = joinAt
      BY <1>1, <2>2 DEF Unit
    <3>2. joinAt \in Free => sim(seed, joinAt) < SimilarityThreshold
      BY <1>1, <1>5, SimilarityTypes
    <3> QED
      BY <1>1, <1>2, <2>2, <3>1, <3>2 DEF SeedsAreApart, Clustering
  <2> QED
    BY <1>3, <2>3, <2>4, <2>5
<1> QED
  BY <1>4, <1>5

LEMMA CloseClusterKeeps == ClusterInv /\ CloseCluster => ClusterInv'
<1> SUFFICES ASSUME ClusterInv, CloseCluster PROVE ClusterInv'
  OBVIOUS
<1> USE DEF ClusterInv
<1> DEFINE n == Len(clusters)
           new == [core |-> seed, items |-> members]
<1>1. /\ clusterPc = "join" /\ clusterPc' = "seed" /\ members' = {} /\ joinAt' = 1
      /\ likeness' = likeness /\ maxCores' = maxCores /\ assigned' = assigned
      /\ seed \in Unit /\ seed \in members /\ members \in SUBSET Unit
      /\ repScore' = ScoresWithout(seed, Free) /\ joinAt \in Nat \ {0} /\ joinAt \notin Unit
  BY DEF CloseCluster, ClusterTypes
<1>2. \A j, k : sim(j, k)' = sim(j, k)
  BY <1>1, SimilarityStays
<1>3. Free' = Free /\ Free \subseteq Unit /\ seed \notin Free
  BY <1>1 DEF Free, Partition, Clustering
<1>4. /\ clusters \in Seq(Cluster) /\ clusters' \in Seq(Cluster)
      /\ n \in Nat /\ DOMAIN clusters = 1..n
      /\ DOMAIN clusters' = 1..(n + 1) /\ Len(clusters') = n + 1
      /\ clusters'[n + 1] = new /\ \A c \in 1..n : clusters'[c] = clusters[c]
  <2>1. clusters' = Append(clusters, new) /\ clusters \in Seq(Cluster) /\ new \in Cluster
    BY <1>1 DEF CloseCluster, Cluster, ClusterTypes
  <2> HIDE DEF new
  <2> QED
    BY <2>1
<1>5. new.core = seed /\ new.items = members
  OBVIOUS
<1> HIDE DEF n, new
<1>6. \A c \in DOMAIN clusters' : c \in 1..n \/ c = n + 1
  BY <1>4
<1>7. ClusterTypes'
  <2>1. \A k \in Unit : repScore[k] \in Int /\ sim(k, seed) \in Int
    BY <1>1, SimilarityTypes DEF ClusterTypes
  <2>2. repScore' \in [Unit -> Int]
    BY <1>1, <2>1 DEF ScoresWithout
  <2> QED
    BY <1>1, <1>4, <2>2 DEF ClusterTypes
<1>8. ScoresAreExact'
  <2>1. ASSUME NEW k \in Free' PROVE repScore'[k] = Similarity(k, Free)'
    <3> DEFINE U == Free \union {seed}
    <3>1. Similarity(k, Free)' = Similarity(k, Free')
      BY <1>1, SimilarityStays
    <3>2. U \in SUBSET Unit /\ k \in U /\ seed \in U /\ seed # k /\ U \ {seed} = Free
      BY <1>1, <1>3
    <3>3. Similarity(k, U \ {seed}) = Similarity(k, U) - sim(k, seed)
      BY <3>2, SimilarityWithout
    <3>4. repScore[k] = Similarity(k, U)
      BY <1>1, <1>3 DEF ScoresAreExact
    <3>5. repScore'[k] = repScore[k] - sim(k, seed)
      BY <1>1, <1>3 DEF ScoresWithout
    <3> QED
      BY <1>3, <3>1, <3>2, <3>3, <3>4, <3>5
  <2> QED
    BY <1>1, <2>1 DEF ScoresAreExact
<1>9. Partition'
  <2>1. ASSUME NEW k \in Unit
        PROVE  k \in assigned' <=> \E c \in DOMAIN clusters' : k \in clusters'[c].items
    BY <1>1, <1>4, <1>5, <1>6 DEF Partition, Clustering
  <2>2. ASSUME NEW c \in DOMAIN clusters', NEW d \in DOMAIN clusters', c # d
        PROVE  clusters'[c].items \intersect clusters'[d].items = {}
    BY <1>1, <1>4, <1>5, <1>6, <2>2 DEF Partition, Clustering
  <2> QED
    BY <1>1, <2>1, <2>2 DEF Partition
<1>10. MembersAreSimilar'
  <2>1. ASSUME NEW c \in DOMAIN clusters', NEW k \in clusters'[c].items
        PROVE  sim(clusters'[c].core, k) >= SimilarityThreshold
    BY <1>1, <1>4, <1>5, <1>6 DEF MembersAreSimilar
  <2> QED
    BY <1>1, <1>2, <2>1 DEF MembersAreSimilar
<1>11. SeedsAreApart'
  <2>1. \A k \in Free : k < joinAt
    BY <1>1, <1>3 DEF Unit
  <2>2. ASSUME NEW c \in DOMAIN clusters', NEW k \in Free
        PROVE  sim(clusters'[c].core, k) < SimilarityThreshold
    BY <1>1, <1>4, <1>5, <1>6, <2>1 DEF SeedsAreApart, Clustering
  <2>3. ASSUME NEW c \in DOMAIN clusters', NEW d \in DOMAIN clusters', c < d
        PROVE  sim(clusters'[c].core, clusters'[d].core) < SimilarityThreshold
    <3>1. c \in 1..n
      BY <1>4, <2>3
    <3> QED
      BY <1>1, <1>4, <1>5, <1>6, <2>3, <3>1 DEF SeedsAreApart, Clustering
  <2> QED
    BY <1>1, <1>2, <1>3, <2>2, <2>3 DEF SeedsAreApart
<1>12. WithinCores' /\ ClustersAreDone'
  BY <1>1, <1>4 DEF WithinCores, ClustersAreDone, ClusterTypes, n
<1> QED
  BY <1>7, <1>8, <1>9, <1>10, <1>11, <1>12

LEMMA MergeKeeps == ClusterInv /\ MergeToCores => ClusterInv'
<1> SUFFICES ASSUME ClusterInv, MergeToCores PROVE ClusterInv'
  OBVIOUS
<1> USE DEF ClusterInv
<1>1. /\ clusterPc = "done" /\ clusterPc' = "seed" /\ members' = {} /\ joinAt' = 1
      /\ likeness' = likeness /\ maxCores' = maxCores /\ assigned' = {} /\ clusters' = << >>
      /\ repScore' = [k \in Unit |-> Similarity(k, Unit)]
  BY DEF MergeToCores, ClusterTypes
<1>2. \A k \in Unit : Similarity(k, Unit) \in Int
  BY SimilarityIsInt
<1>3. ClusterTypes'
  BY <1>1, <1>2 DEF ClusterTypes
<1>4. ScoresAreExact'
  <2>1. Free' = Unit
    BY <1>1 DEF Free
  <2>2. \A k : Similarity(k, Free)' = Similarity(k, Free')
    BY <1>1, SimilarityStays
  <2> QED
    BY <1>1, <2>1, <2>2 DEF ScoresAreExact
<1>5. DOMAIN clusters' = {} /\ Len(clusters') = 0
  BY <1>1
<1> QED
  BY <1>1, <1>3, <1>4, <1>5
  DEF Partition, MembersAreSimilar, SeedsAreApart, WithinCores, ClustersAreDone, ClusterTypes

LEMMA AddRemainingKeeps == ClusterInv /\ AddRemaining => ClusterInv'
<1> SUFFICES ASSUME ClusterInv, AddRemaining PROVE ClusterInv'
  OBVIOUS
<1> USE DEF ClusterInv
<1> DEFINE all == [k \in Unit |-> k]
           left == Selected(all, Free)
           single == [j \in DOMAIN left |-> [core |-> left[j], items |-> {left[j]}]]
           n == Len(clusters)
           m == Len(left)
<1>1. /\ clusterPc = "seed" /\ clusterPc' = "done" /\ members = {} /\ members' = {}
      /\ joinAt = 1 /\ joinAt' = 1 /\ likeness' = likeness /\ maxCores' = maxCores
      /\ assigned' = assigned /\ repScore' = repScore /\ clusters' = clusters \o single
      /\ Free = {} \/ n >= maxCores
  BY DEF AddRemaining, ClusterTypes, Full
<1>2. \A j, k : sim(j, k)' = sim(j, k)
  BY <1>1, SimilarityStays
<1>3. /\ left \in Seq(Unit) /\ m \in Nat /\ DOMAIN left = 1..m
      /\ \A j \in 1..m : left[j] \in Free
      /\ \A k \in Free : \E j \in 1..m : left[j] = k
      /\ \A j, k \in 1..m : left[j] = left[k] => j = k
  <2>1. all \in Seq(Unit) /\ IsInjective(all) /\ Range(all) = Unit
    <3>1. all \in Seq(Unit)
      BY IsASeq DEF Unit
    <3>2. DOMAIN all = Unit /\ \A k \in Unit : all[k] = k
      OBVIOUS
    <3> QED
      BY <3>1, <3>2 DEF IsInjective, Range
  <2>2. Free \subseteq Unit
    BY DEF Free
  <2> HIDE DEF all
  <2>3. left \in Seq(Unit) /\ Range(left) = Free /\ IsInjective(left)
    <3>1. /\ left \in Seq(Unit) /\ Range(left) = Range(all) \intersect Free
          /\ IsInjective(all) => IsInjective(left)
      BY <2>1, SelectedProperties
    <3> HIDE DEF left
    <3> QED
      BY <2>1, <2>2, <3>1
  <2> HIDE DEF left
  <2>4. m \in Nat /\ DOMAIN left = 1..m
    BY <2>3
  <2> QED
    BY <2>3, <2>4 DEF Range, IsInjective
<1>4. /\ clusters \in Seq(Cluster) /\ n \in Nat /\ DOMAIN clusters = 1..n
      /\ \A c \in 1..n : clusters[c] \in Cluster
  BY DEF ClusterTypes
<1>5. Free \subseteq Unit
  BY DEF Free
<1> HIDE DEF left
<1>6. /\ single \in Seq(Cluster) /\ Len(single) = m /\ DOMAIN single = 1..m
      /\ \A j \in 1..m : single[j].core = left[j] /\ single[j].items = {left[j]}
  <2>1. \A j \in 1..m : [core |-> left[j], items |-> {left[j]}] \in Cluster
    BY <1>3, <1>5 DEF Cluster
  <2> QED
    BY <1>3, <2>1
<1> HIDE DEF single, n, m
<1>7. /\ clusters' \in Seq(Cluster) /\ DOMAIN clusters' = 1..(n + m)
      /\ \A c \in 1..n : clusters'[c] = clusters[c]
      /\ \A j \in 1..m : clusters'[n + j].core = left[j] /\ clusters'[n + j].items = {left[j]}
  BY <1>1, <1>3, <1>4, <1>6 DEF n
<1>8. \A c \in DOMAIN clusters' : c \in 1..n \/ \E j \in 1..m : c = n + j
  <2>1. ASSUME NEW c \in 1..(n + m), c \notin 1..n PROVE c - n \in 1..m /\ c = n + (c - n)
    BY <1>3, <1>4, <2>1
  <2> QED
    BY <1>7, <2>1
<1>9. ClusterTypes'
  BY <1>1, <1>7 DEF ClusterTypes
<1>10. MembersAreSimilar'
  <2>1. ASSUME NEW c \in DOMAIN clusters', NEW k \in clusters'[c].items
        PROVE  sim(clusters'[c].core, k) >= SimilarityThreshold
    <3>1. CASE c \in 1..n
      BY <1>4, <1>7, <3>1 DEF MembersAreSimilar
    <3>2. CASE \E j \in 1..m : c = n + j
      <4>1. PICK j \in 1..m : c = n + j
        BY <3>2
      <4>2. k = left[j] /\ clusters'[c].core = k /\ k \in Unit
        BY <1>3, <1>5, <1>7, <4>1
      <4> QED
        BY <4>2, SimilarityTypes
    <3> QED
      BY <1>8, <3>1, <3>2
  <2> QED
    BY <1>1, <1>2, <2>1 DEF MembersAreSimilar
<1>11. \A k \in Unit : \E c \in DOMAIN clusters' : k \in clusters'[c].items
  <2> SUFFICES ASSUME NEW k \in Unit PROVE \E c \in DOMAIN clusters' : k \in clusters'[c].items
    OBVIOUS
  <2>1. CASE k \in Free
    <3>1. PICK j \in 1..m : left[j] = k
      BY <1>3, <2>1
    <3>2. n + j \in DOMAIN clusters'
      BY <1>3, <1>4, <1>7
    <3> QED
      BY <1>7, <3>1, <3>2
  <2>2. CASE k \notin Free
    <3>1. PICK c \in DOMAIN clusters : k \in clusters[c].items
      BY <1>1, <2>2 DEF Partition, Clustering, Free
    <3>2. c \in DOMAIN clusters'
      BY <1>3, <1>4, <1>7
    <3> QED
      BY <1>4, <1>7, <3>1, <3>2
  <2> QED
    BY <2>1, <2>2
<1>12. ASSUME NEW c \in DOMAIN clusters', NEW d \in DOMAIN clusters', c # d
       PROVE  clusters'[c].items \intersect clusters'[d].items = {}
  <2>1. \A x \in 1..n, j \in 1..m : left[j] \notin clusters[x].items
    BY <1>1, <1>3, <1>4 DEF Partition, Clustering, Free
  <2>2. CASE c \in 1..n /\ d \in 1..n
    BY <1>1, <1>4, <1>7, <1>12, <2>2 DEF Partition, Clustering
  <2>3. CASE c \in 1..n /\ \E j \in 1..m : d = n + j
    BY <1>7, <2>1, <2>3
  <2>4. CASE d \in 1..n /\ \E j \in 1..m : c = n + j
    BY <1>7, <2>1, <2>4
  <2>5. CASE (\E j \in 1..m : c = n + j) /\ (\E j \in 1..m : d = n + j)
    <3>1. PICK x \in 1..m, y \in 1..m : c = n + x /\ d = n + y
      BY <2>5
    <3>2. left[x] # left[y]
      BY <1>3, <1>12, <3>1
    <3> QED
      BY <1>7, <3>1, <3>2
  <2> QED
    BY <1>8, <2>2, <2>3, <2>4, <2>5
<1>13. ASSUME NEW c \in DOMAIN clusters', NEW d \in DOMAIN clusters', c < d, c <= maxCores
       PROVE  sim(clusters'[c].core, clusters'[d].core) < SimilarityThreshold
  <2>1. CASE d \in 1..n
    <3>1. c \in 1..n
      BY <1>4, <1>7, <1>13, <2>1
    <3> QED
      BY <1>1, <1>4, <1>7, <1>13, <2>1, <3>1 DEF SeedsAreApart, Clustering
  <2>2. CASE \E j \in 1..m : d = n + j
    <3>1. PICK j \in 1..m : d = n + j
      BY <2>2
    <3>2. left[j] \in Free /\ Free # {}
      BY <1>3
    <3>3. c \in 1..n
      BY <1>1, <1>3, <1>4, <1>7, <1>13, <3>2 DEF ClusterTypes
    <3> QED
      BY <1>1, <1>4, <1>7, <3>1, <3>2, <3>3 DEF SeedsAreApart, Clustering
  <2> QED
    BY <1>8, <2>1, <2>2
<1>14. ClustersAreDone'
  BY <1>1, <1>2, <1>11, <1>12, <1>13 DEF ClustersAreDone
<1> QED
  BY <1>1, <1>9, <1>10, <1>14
  DEF ScoresAreExact, Partition, Clustering, SeedsAreApart, WithinCores

LEMMA ClusterInvariant == ClusterSpec => []ClusterInv
<1>1. ClusterInv /\ [ClusterNext]_clusterVars => ClusterInv'
  <2> SUFFICES ASSUME ClusterInv, [ClusterNext]_clusterVars PROVE ClusterInv'
    OBVIOUS
  <2>1. CASE UNCHANGED clusterVars
    <3>1. /\ clusterPc' = clusterPc /\ maxCores' = maxCores /\ likeness' = likeness
          /\ repScore' = repScore /\ assigned' = assigned /\ seed' = seed /\ joinAt' = joinAt
          /\ members' = members /\ clusters' = clusters
      BY <2>1 DEF clusterVars
    <3>2. /\ \A j, k : sim(j, k)' = sim(j, k)
          /\ \A k : /\ Similarity(k, Free)' = Similarity(k, Free')
                   /\ Similarity(k, Free \union {seed})' = Similarity(k, Free' \union {seed'})
          /\ Free' = Free
      BY <3>1, SimilarityStays DEF Free
    <3>3. ScoresAreExact'
      BY <3>1, <3>2 DEF ClusterInv, ScoresAreExact
    <3> QED
      BY <3>1, <3>2, <3>3
      DEF ClusterInv, ClusterTypes, Partition, Clustering, MembersAreSimilar, SeedsAreApart,
          WithinCores, ClustersAreDone
  <2> QED
    BY <2>1, PickSeedKeeps, JoinKeeps, CloseClusterKeeps, AddRemainingKeeps, MergeKeeps
    DEF ClusterNext
<1> QED
  BY ClusterInvInit, <1>1, PTL DEF ClusterSpec

\* The scores kept up to date are those computed anew whenever a seed is
\* picked, and the clusters returned partition the units, with members that
\* are similar to their core and seeds that are not similar to one another
\* (greedySeedCluster), for every number of units, matrix and limit.
THEOREM ClustersAreExact == ClusterSpec => []ClusteringIsExact
<1>1. ClusterInv => ClusteringIsExact
  <2> SUFFICES ASSUME ClusterInv PROVE ClusteringIsExact
    OBVIOUS
  <2>1. ASSUME clusterPc = "done", NEW k \in Unit
        PROVE  Cardinality({c \in DOMAIN clusters : k \in clusters[c].items}) = 1
    <3>1. PICK c \in DOMAIN clusters : k \in clusters[c].items
      BY <2>1 DEF ClusterInv, ClustersAreDone
    <3>2. {d \in DOMAIN clusters : k \in clusters[d].items} = {c}
      BY <2>1, <3>1 DEF ClusterInv, ClustersAreDone
    <3> QED
      BY <3>2, FS_Singleton
  <2> QED
    BY <2>1 DEF ClusterInv, ClusteringIsExact, ScoresAreExact, MembersAreSimilar, ClustersAreDone
<1> QED
  BY ClusterInvariant, <1>1, PTL
=============================================================================
