------------------------- MODULE MCPipelineManager -------------------------
(***************************************************************************)
(* The manager used by goroutines at once, with one request of each kind,  *)
(* or by one goroutine that makes a longer choice of requests one after    *)
(* the other, while the clock behind the names of tee files goes on.       *)
(***************************************************************************)
EXTENDS PipelineManager

CONSTANTS l1, l2, l3  \* lines

VARIABLE usage

Lines == {l1, l2, l3}
Weight == [l \in Lines |-> CASE l = l1 -> 1 [] l = l2 -> 2 [] l = l3 -> 3]

Request(entry, text, m, q, bud, isErr) ==
  [entry |-> entry, text |-> text, mode |-> m, query |-> q, budget |-> bud,
   cmd |-> "git", isErr |-> isErr]

\* One request of each kind: two on the same text, one that is streamed.
MixedRequests ==
  { Request("Process", <<l1>>, "minimal", "none", 0, FALSE),
    Request("ProcessWithQuery", <<l1>>, "minimal", "debug", 0, FALSE),
    Request("ProcessWithBudget", <<l1, l2>>, "aggressive", "none", 1, FALSE) }

\* Two budgets on one text, with and without streaming.
BudgetRequests ==
  { Request("ProcessWithBudget", <<l1>>, "minimal", "none", 1, FALSE),
    Request("ProcessWithBudget", <<l1>>, "minimal", "none", 2, FALSE),
    Request("ProcessWithBudget", <<l1, l1>>, "minimal", "none", 2, FALSE) }

\* Two budgets on one text, the same output of a failed command, texts cut
\* before, at and within a line that is too long, and one that is refused.
SequentialRequests ==
  { Request("ProcessWithBudget", <<l1>>, "minimal", "none", 1, FALSE),
    Request("ProcessWithBudget", <<l1>>, "minimal", "none", 2, TRUE),
    Request("ProcessWithBudget", <<l1, l1, l1>>, "minimal", "none", 1, FALSE),
    Request("ProcessWithBudget", <<l1, l2, l1>>, "minimal", "none", 2, FALSE),
    Request("ProcessWithBudget", <<l1, l3, l1>>, "minimal", "none", 2, FALSE),
    Request("ProcessWithBudget", <<l3, l3>>, "minimal", "none", 2, FALSE) }

AllRequests == MixedRequests \union SequentialRequests

MCInit ==
  /\ Init
  /\ usage \in {"concurrent", "sequential"}
  /\ \A p \in Proc : req[p] \in IF usage = "concurrent" THEN MixedRequests ELSE SequentialRequests
  /\ IF usage = "concurrent" THEN validates ELSE \A p, q \in Proc : req[p] = req[q]

Concurrent ==
  /\ usage = "concurrent"
  /\ \E p \in Proc : Serve(p) \/ \E r \in MixedRequests : Start(p, r)

Sequential ==
  /\ usage = "sequential"
  /\ \/ LET p == CHOOSE p \in Proc : TRUE
        IN  Serve(p) \/ \E r \in SequentialRequests : Start(p, r)
     \/ Tick

MCNext == (Concurrent \/ Sequential) /\ UNCHANGED usage

\* Requests with budgets only, as the constant Requests gives them.
BudgetSpec ==
  /\ Init /\ usage = "budgets"
  /\ [][Next /\ UNCHANGED usage]_<<vars, usage>>

MCSpec == MCInit /\ [][MCNext]_<<vars, usage>>
=============================================================================
