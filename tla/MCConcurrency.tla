---------------------------- MODULE MCConcurrency ----------------------------
(***************************************************************************)
(* The components that run on several goroutines or processes and share no *)
(* state with each other, and that promise to get to an end: the usage     *)
(* tracker, the chunk pipeline, the command executor and the wrapped       *)
(* provider.  The variable part says which of them a behaviour is about;   *)
(* the others stay in an initial state.                                    *)
(***************************************************************************)
EXTENDS Tracker, MCStreamingPipeline, Executor, ProviderWithBreaker

VARIABLE part

Part == {"tracker", "stream", "exec", "provider"}

allVars == <<part, vars, streamVars, execVars, providerVars>>

AllInit ==
  /\ part \in Part
  /\ Init /\ StreamInit /\ ExecInit /\ ProviderInit
  /\ part # "provider" => op = [c \in Callers |-> "complete"]

OnTracker(A) ==
  /\ part = "tracker" /\ A
  /\ UNCHANGED <<part, streamVars, execVars, providerVars>>
OnStream(A) ==
  /\ part = "stream" /\ A
  /\ UNCHANGED <<part, vars, execVars, providerVars>>
OnExec(A) ==
  /\ part = "exec" /\ A
  /\ UNCHANGED <<part, vars, streamVars, providerVars>>
OnProvider(A) ==
  /\ part = "provider" /\ A
  /\ UNCHANGED <<part, vars, streamVars, execVars>>

AllNext ==
  \/ OnTracker(Next) \/ OnStream(StreamNext) \/ OnExec(ExecNext)
  \/ OnProvider(ProviderNext)

\* The goroutines of the part under test: recorders, workers or callers.
Goroutine == Recorder \union Worker \union Callers

Goes(g) ==
  \/ OnTracker(g \in Recorder /\ (Insert(g) \/ InsertFails(g) \/ CheckClosed(g) \/ Trigger(g)))
  \/ OnStream(g \in Worker /\ StreamWork(g))
  \/ OnProvider(g \in Callers /\ (Proceed(g) \/ \E o \in Ops : Call(g, o)))

\* The fairness of the components' own specifications.  The part never changes,
\* so fairness of a disjunction over the parts is fairness of each; and a caller
\* is either inside a method or about to call one.
AllFair ==
  /\ \A g \in Goroutine : WF_allVars(Goes(g))
  /\ \A g \in Gen : WF_allVars(OnTracker(Work(g)))
  /\ \A c \in Closer : WF_allVars(OnTracker(CloseGlobal(c)))
  /\ \A s \in Stream : WF_allVars(OnExec(Copy(s)))
  /\ WF_allVars(OnTracker(Exit) \/ OnStream(StreamCollector) \/ OnExec(Child))
  /\ WF_allVars(\/ OnTracker(Close("main")) \/ OnStream(StreamReader)
                \/ OnExec(Run) \/ OnProvider(ClockTick))

AllSpec == AllInit /\ [][AllNext]_allVars /\ AllFair

=============================================================================
