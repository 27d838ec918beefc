------------------------ MODULE ProviderWithBreaker ------------------------
(***************************************************************************)
(* internal/llmproviders/provider.go: concurrent callers of one provider   *)
(* wrapped by WrapProvider.  Complete retries with backoff, Embed tries    *)
(* once, StreamComplete asks the breaker but reports no outcome to it.     *)
(* The provider itself is external: any call may succeed, fail with a      *)
(* client error (isClientError) or fail with a transient one.              *)
(***************************************************************************)
EXTENDS CircuitBreaker, FiniteSets

CONSTANTS
  Callers,    \* goroutines sharing the wrapped provider
  Ops,        \* the methods they call, a subset of AllOps
  MaxRetries, \* pw.maxRetry
  Outcomes    \* what the provider can answer, a subset of AllOutcomes

AllOps      == {"complete", "stream", "embed"}
AllOutcomes == {"ok", "clientError", "transient"}

ASSUME ProviderConfig ==
  /\ Ops \subseteq AllOps
  /\ Outcomes \subseteq AllOutcomes
  /\ MaxRetries \in Nat
  /\ IsFiniteSet(Callers)

VARIABLES
  callerPc,       \* [Callers -> {"idle", "allow", "calling", "backoff"}]
  op,       \* the method each caller is in
  attempt,  \* the loop variable of Complete
  calls,    \* history: provider calls made by the current method call
  streamProbes  \* history: of the probes of the current test, those of streams

callerVars == <<callerPc, op, attempt, calls, streamProbes>>
providerVars == <<breakerVars, callerVars>>

ProviderInit ==
  /\ BreakerInit
  /\ callerPc = [c \in Callers |-> "idle"]
  /\ op \in [Callers -> Ops]
  /\ attempt = [c \in Callers |-> 0]
  /\ calls = [c \in Callers |-> 0]
  /\ streamProbes = 0

-----------------------------------------------------------------------------
\* A caller enters Complete, StreamComplete or Embed.
Call(c, o) ==
  /\ callerPc[c] = "idle"
  /\ callerPc' = [callerPc EXCEPT ![c] = "allow"]
  /\ op' = [op EXCEPT ![c] = o]
  /\ attempt' = [attempt EXCEPT ![c] = 0]
  /\ calls' = [calls EXCEPT ![c] = 0]
  /\ UNCHANGED <<breakerVars, streamProbes>>

\* pw.breaker.Allow(); ErrOpen is returned to the caller at once.
Admitted(c) ==
  /\ callerPc[c] = "allow"
  /\ AllowNil
  /\ callerPc' = [callerPc EXCEPT ![c] = "calling"]
  /\ calls' = [calls EXCEPT ![c] = @ + 1]
  /\ streamProbes' = LET mine == IF op[c] = "stream" THEN 1 ELSE 0
                     IN  CASE state = Open     -> mine
                           [] state = HalfOpen -> streamProbes + mine
                           [] state = Closed   -> 0
  /\ UNCHANGED <<op, attempt>>

\* Mutant: an open circuit sends the caller round the loop again.
RejectedSpins(c) ==
  /\ callerPc[c] = "allow"
  /\ AllowErrOpen
  /\ UNCHANGED callerVars

Rejected(c) ==
  /\ callerPc[c] = "allow"
  /\ AllowErrOpen
  /\ callerPc' = [callerPc EXCEPT ![c] = "idle"]
  /\ UNCHANGED <<op, attempt, calls, streamProbes>>

\* Mutant: Embed returns its answer without telling the breaker.
SucceedEmbedSilent(c) ==
  /\ callerPc[c] = "calling" /\ op[c] # "stream" /\ "ok" \in Outcomes
  /\ IF op[c] = "complete" THEN RecordSuccess ELSE UNCHANGED breakerVars
  /\ callerPc' = [callerPc EXCEPT ![c] = "idle"]
  /\ UNCHANGED <<op, attempt, calls, streamProbes>>

\* The provider answers; Complete and Embed report the outcome.
Succeed(c) ==
  /\ callerPc[c] = "calling"
  /\ op[c] # "stream"
  /\ "ok" \in Outcomes
  /\ RecordSuccess
  /\ callerPc' = [callerPc EXCEPT ![c] = "idle"]
  /\ UNCHANGED <<op, attempt, calls, streamProbes>>

\* A 4xx answer of Complete, or any failure of Embed: no retry.
FailForGood(c) ==
  /\ callerPc[c] = "calling"
  /\ \/ op[c] = "complete" /\ "clientError" \in Outcomes
     \/ op[c] = "embed" /\ Outcomes \cap {"clientError", "transient"} # {}
  /\ RecordFailure
  /\ callerPc' = [callerPc EXCEPT ![c] = "idle"]
  /\ UNCHANGED <<op, attempt, calls, streamProbes>>

\* Mutant: <= for < in the test for a remaining attempt.
FailTransientOffByOne(c) ==
  /\ callerPc[c] = "calling" /\ op[c] = "complete" /\ "transient" \in Outcomes
  /\ RecordFailure
  /\ callerPc' = [callerPc EXCEPT ![c] = IF attempt[c] <= MaxRetries THEN "backoff" ELSE "idle"]
  /\ UNCHANGED <<op, attempt, calls, streamProbes>>

\* A transient failure of Complete: back off while attempts remain.
FailTransient(c) ==
  /\ callerPc[c] = "calling"
  /\ op[c] = "complete"
  /\ "transient" \in Outcomes
  /\ RecordFailure
  /\ callerPc' = [callerPc EXCEPT ![c] = IF attempt[c] < MaxRetries THEN "backoff" ELSE "idle"]
  /\ UNCHANGED <<op, attempt, calls, streamProbes>>

\* StreamComplete hands the provider's channel back, whatever comes of it.
StreamReturned(c) ==
  /\ callerPc[c] = "calling"
  /\ op[c] = "stream"
  /\ callerPc' = [callerPc EXCEPT ![c] = "idle"]
  /\ UNCHANGED <<breakerVars, op, attempt, calls, streamProbes>>

\* time.After(delay) fires: next iteration of the loop.
Retry(c) ==
  /\ callerPc[c] = "backoff"
  /\ callerPc' = [callerPc EXCEPT ![c] = "allow"]
  /\ attempt' = [attempt EXCEPT ![c] = @ + 1]
  /\ UNCHANGED <<breakerVars, op, calls, streamProbes>>

\* ctx.Done() wins the select.
Cancelled(c) ==
  /\ callerPc[c] = "backoff"
  /\ callerPc' = [callerPc EXCEPT ![c] = "idle"]
  /\ UNCHANGED <<breakerVars, op, attempt, calls, streamProbes>>

ClockTick == BreakerTick /\ UNCHANGED callerVars

\* What a caller already inside a method does next.
Proceed(c) ==
  \/ Admitted(c) \/ Rejected(c)
  \/ Succeed(c) \/ FailForGood(c) \/ FailTransient(c) \/ StreamReturned(c)
  \/ Retry(c) \/ Cancelled(c)

ProviderNext ==
  \/ \E c \in Callers : Proceed(c)
  \/ \E c \in Callers, o \in Ops : Call(c, o)
  \/ ClockTick

ProviderSpec == ProviderInit /\ [][ProviderNext]_providerVars

\* HTTP clients carry timeouts and backoffs are timers, so a started method
\* goes on; time passes.
ProviderFairness ==
  /\ \A c \in Callers : WF_providerVars(Proceed(c))
  /\ WF_providerVars(ClockTick)

\* A provider in use: callers keep coming back.
Demand == \A c \in Callers : WF_providerVars(\E o \in Ops : Call(c, o))

ProviderFairSpec == ProviderSpec /\ ProviderFairness /\ Demand

-----------------------------------------------------------------------------
ProviderTypeOK ==
  /\ BreakerTypeOK
  /\ callerPc \in [Callers -> {"idle", "allow", "calling", "backoff"}]
  /\ op \in [Callers -> Ops]
  /\ attempt \in [Callers -> 0..MaxRetries]
  /\ calls \in [Callers -> 0..(MaxRetries + 1)]
  /\ streamProbes \in Nat

\* One method call reaches the provider at most MaxRetries + 1 times, and a
\* call that backs off still has an attempt left: the loop of Complete and the
\* breaker never combine into an extra request.
RetryBudget ==
  \A c \in Callers :
    /\ callerPc[c] \in {"calling", "backoff"} => calls[c] = attempt[c] + 1
    /\ callerPc[c] = "backoff" => attempt[c] < MaxRetries
    /\ calls[c] <= MaxRetries + 1

\* The callers that will tell the breaker what became of their request.
InFlight == {c \in Callers : callerPc[c] = "calling" /\ op[c] # "stream"}

\* No probe is lost on the way back, whatever the thresholds: every request let
\* through since HalfOpen was entered has been counted as a success, is still
\* with the provider and will be reported, or was a stream's, which Allow lets
\* through and nobody reports.
ProbesAreAccounted ==
  state = HalfOpen => probes <= successes + Cardinality(InFlight) + streamProbes

\* Every started method returns: neither the retry loop nor the breaker can
\* hold a caller forever.
MethodReturns == \A c \in Callers : callerPc[c] # "idle" ~> callerPc[c] = "idle"

\* An open circuit is tested again: failures that arrive late, from requests
\* let through before it opened, push lastFailure forward only finitely often.
OpenIsTested == state = Open ~> state = HalfOpen

\* A circuit under test is decided: HalfOpen leads back to Closed or Open if
\* any request but a stream's was let through to test it.
TestIsDecided == state = HalfOpen /\ probes > streamProbes ~> state # HalfOpen
=============================================================================
