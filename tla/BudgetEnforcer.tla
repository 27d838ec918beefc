--------------------------- MODULE BudgetEnforcer ---------------------------
(***************************************************************************)
(* internal/filter/budget.go: BudgetEnforcer.Apply on a text of lines.  A  *)
(* line is its token count and the band its score falls in: "critical"     *)
(* (score >= 0.8), "important" (>= 0.5) or "plain".  A text that fits is   *)
(* passed through; of one that does not, selectLines keeps some lines, in  *)
(* the passes that are the values of applyPc.  The 50 tokens kept back, 5  *)
(* header and footer lines and the 3 lines a gap may have without a marker *)
(* are parameters.                                                         *)
(***************************************************************************)
EXTENDS Integers, SequencesExt, FiniteSetsExt

CONSTANTS
  Texts,        \* the texts given to Apply
  LineBudgets,      \* f.budget, 0 for no limit
  Reserve,      \* tokens kept back for the truncation marker
  Edge,         \* lines kept at either end
  SmallGap,     \* longest gap shown as an empty line
  MarkerTokens  \* size of "... [n lines omitted]" and of the truncation marker

\* A line that scores at least 0.5 is not empty.
Line == [band : {"critical", "important"}, tokens : Nat \ {0}]
          \union [band : {"plain"}, tokens : Nat]

ASSUME EnforcerAssumption ==
  /\ Texts \subseteq Seq(Line)
  /\ LineBudgets \subseteq Nat /\ Reserve \in Nat
  /\ Edge \in Nat \ {0} /\ SmallGap \in Nat /\ MarkerTokens \in Nat

VARIABLES
  applyPc,       \* "apply", "sum", "select", "build", "done"
  text, lineBudget,
  keep,     \* indices with decisions[i].keep
  current,  \* currentTokens
  i,        \* next index of the pass in progress
  last,     \* lastKept, 0 for none
  out       \* the result, as items

enforcerVars == <<applyPc, text, lineBudget, keep, current, i, last, out>>

Target == lineBudget - Reserve

\* The first and second pass of selectLines: what is kept whatever it costs.
Critical == {j \in DOMAIN text : text[j].band = "critical"}
Structural == {j \in DOMAIN text : j <= Edge \/ j > Len(text) - Edge}
Mandatory == Critical \union Structural

\* An item of the output: line n of the text, or a stand-in for n lines.
Item(kind, n) == [kind |-> kind, n |-> n]

\* Tokens of a text and of a result; joining costs nothing.
TextTokens(t) == FoldLeft(LAMBDA n, l : n + l.tokens, 0, t)
ItemTokens(o) ==
  CASE o.kind = "line" -> text[o.n].tokens
    [] o.kind = "blank" -> 0
    [] OTHER -> MarkerTokens
OutTokens(items) == FoldLeft(LAMBDA n, o : n + ItemTokens(o), 0, items)

EnforcerInit ==
  /\ applyPc = "apply"
  /\ text \in Texts /\ lineBudget \in LineBudgets
  /\ keep = {} /\ current = 0 /\ i = 1 /\ last = 0 /\ out = << >>

\* Apply: no budget, or the text fits.
PassThrough ==
  /\ applyPc = "apply"
  /\ lineBudget = 0 \/ TextTokens(text) <= lineBudget
  /\ keep' = DOMAIN text
  /\ out' = [j \in DOMAIN text |-> Item("line", j)]
  /\ applyPc' = "done"
  /\ UNCHANGED <<text, lineBudget, current, i, last>>

\* Mutant: the structural pass overwrites the decisions of the first.
MarkStructuralOnly ==
  /\ applyPc = "apply"
  /\ lineBudget > 0 /\ TextTokens(text) > lineBudget
  /\ keep' = Structural
  /\ applyPc' = "sum"
  /\ UNCHANGED <<text, lineBudget, current, i, last, out>>

\* Apply calls enforceBudget: the first two passes of selectLines.
Mark ==
  /\ applyPc = "apply"
  /\ lineBudget > 0 /\ TextTokens(text) > lineBudget
  /\ keep' = Mandatory
  /\ applyPc' = "sum"
  /\ UNCHANGED <<text, lineBudget, current, i, last, out>>

\* "Calculate tokens used by already-kept lines".
Sum ==
  /\ applyPc = "sum"
  /\ i <= Len(text)
  /\ current' = IF i \in keep THEN current + text[i].tokens ELSE current
  /\ i' = i + 1
  /\ UNCHANGED <<applyPc, text, lineBudget, keep, last, out>>

SumEnd ==
  /\ applyPc = "sum"
  /\ i > Len(text)
  /\ applyPc' = "select" /\ i' = 1
  /\ UNCHANGED <<text, lineBudget, keep, current, last, out>>

\* Mutant: a line is added as long as the target is not reached yet.
SelectOvershoots ==
  /\ applyPc = "select"
  /\ i <= Len(text) /\ current < Target
  /\ IF i \notin keep /\ text[i].band # "plain"
       THEN keep' = keep \union {i} /\ current' = current + text[i].tokens
       ELSE UNCHANGED <<keep, current>>
  /\ i' = i + 1
  /\ UNCHANGED <<applyPc, text, lineBudget, last, out>>

\* Third pass: add an important line if it fits.
Select ==
  /\ applyPc = "select"
  /\ i <= Len(text) /\ current < Target
  /\ IF i \notin keep /\ text[i].band # "plain" /\ current + text[i].tokens <= Target
       THEN keep' = keep \union {i} /\ current' = current + text[i].tokens
       ELSE UNCHANGED <<keep, current>>
  /\ i' = i + 1
  /\ UNCHANGED <<applyPc, text, lineBudget, last, out>>

\* Mutant: the pass stops one line short of the target.
SelectEndEarly ==
  /\ applyPc = "select"
  /\ i > Len(text) \/ current + 1 >= Target
  /\ applyPc' = "build" /\ i' = 1
  /\ UNCHANGED <<text, lineBudget, keep, current, last, out>>

SelectEnd ==
  /\ applyPc = "select"
  /\ i > Len(text) \/ current >= Target
  /\ applyPc' = "build" /\ i' = 1
  /\ UNCHANGED <<text, lineBudget, keep, current, last, out>>

\* Mutant: the gap is taken from the previous line instead of the last kept.
GapOffByOne(g) == IF g > SmallGap THEN <<Item("marker", g + 1)>> ELSE <<Item("blank", g)>>

\* What stands for g skipped lines.
Gap(g) == IF g > SmallGap THEN <<Item("marker", g)>> ELSE <<Item("blank", g)>>

\* "Build result, with ellipsis for gaps".
Build ==
  /\ applyPc = "build"
  /\ i <= Len(text)
  /\ IF i \in keep
       THEN /\ out' = out \o (IF last > 0 /\ i - last > 1 THEN Gap(i - last - 1) ELSE << >>)
                          \o <<Item("line", i)>>
            /\ last' = i
       ELSE UNCHANGED <<out, last>>
  /\ i' = i + 1
  /\ UNCHANGED <<applyPc, text, lineBudget, keep, current>>

\* enforceBudget adds the truncation marker if the result is smaller.
BuildEnd ==
  /\ applyPc = "build"
  /\ i > Len(text)
  /\ out' = IF TextTokens(text) > OutTokens(out) THEN Append(out, Item("truncated", 0)) ELSE out
  /\ applyPc' = "done"
  /\ UNCHANGED <<text, lineBudget, keep, current, i, last>>

\* The result is returned.  The enforcer keeps nothing between calls, so a
\* second call on the same text stands for any other.
EnforcerReturn ==
  /\ applyPc = "done"
  /\ applyPc' = "apply"
  /\ keep' = {} /\ current' = 0 /\ i' = 1 /\ last' = 0 /\ out' = << >>
  /\ UNCHANGED <<text, lineBudget>>

EnforcerNext ==
  \/ PassThrough \/ Mark \/ Sum \/ SumEnd \/ Select \/ SelectEnd
  \/ Build \/ BuildEnd \/ EnforcerReturn

EnforcerSpec == EnforcerInit /\ [][EnforcerNext]_enforcerVars

-----------------------------------------------------------------------------
\* "Always keep critical lines": no line that scores 0.8 or more is lost,
\* whatever the budget and whatever the later passes decide.
CriticalSurvives ==
  applyPc = "done" => \A j \in Critical : \E k \in DOMAIN out : out[k] = Item("line", j)

\* The optional lines never push the kept lines over the target: if any was
\* added, all that is kept fits.
OptionalFits ==
  applyPc \in {"select", "build"} /\ keep # Mandatory => current <= Target

\* No room is wasted: an important line is dropped only if it does not fit
\* into what is left of the target in the end.
DroppedDoesNotFit ==
  applyPc = "build" =>
    \A j \in DOMAIN text \ keep :
      text[j].band # "plain" => current + text[j].tokens > Target

\* The reader can tell what is missing: two lines stand side by side only if
\* they did in the text, and a stand-in between two lines is exact about how
\* many are left out, or an empty line for a few.
OmissionsShown ==
  \A k \in 1..(Len(out) - 1) :
    /\ out[k].kind = "line" /\ out[k + 1].kind = "line" => out[k + 1].n = out[k].n + 1
    /\ out[k].kind \in {"marker", "blank"} =>
         /\ k > 1 /\ out[k - 1].kind = "line" /\ out[k + 1].kind = "line"
         /\ out[k].n = out[k + 1].n - out[k - 1].n - 1
         /\ out[k].kind = "blank" <=> out[k].n <= SmallGap

\* selectLines makes good use of the budget: what it adds to the mandatory
\* lines stays within the target, and what it leaves out did not fit.
SelectionIsGreedy == OptionalFits /\ DroppedDoesNotFit

\* The result of Apply keeps what matters and shows what is missing.
OutputIsFaithful == CriticalSurvives /\ OmissionsShown

EnforcerTypeOK ==
  /\ applyPc \in {"apply", "sum", "select", "build", "done"}
  /\ text \in Seq(Line) /\ lineBudget \in Nat
  /\ keep \subseteq DOMAIN text
  /\ current \in Nat
  /\ i \in 1..(Len(text) + 1)
  /\ last \in 0..Len(text)
  /\ out \in Seq([kind : {"line", "marker", "blank", "truncated"}, n : Nat])
=============================================================================
