------------------------ MODULE CircuitBreakerProofs ------------------------
(***************************************************************************)
(* The breaker for every threshold and timeout, and the wrapped provider   *)
(* for any number of callers and retries.                                  *)
(***************************************************************************)
EXTENDS ProviderWithBreaker, FiniteSetTheorems, TLAPS

\* Type correctness needs the other two: a failure in Closed keeps the count
\* within bounds only because Closed means it is below the threshold, and a
\* third probe is excluded only by what ProbeBudget says of the semaphore.
BreakerInv == BreakerTypeOK /\ TrippedIffThreshold /\ ProbeBudget

\* A fresh breaker (New) satisfies the inductive invariant.
LEMMA BreakerInitInv == BreakerInit => BreakerInv
  BY BreakerConfig
  DEF BreakerInit, BreakerInv, BreakerTypeOK, TrippedIffThreshold, ProbeBudget,
      Closed, Open, HalfOpen

\* Every method of the breaker, and the clock, preserve the inductive invariant.
LEMMA BreakerStepInv == BreakerInv /\ [BreakerNext]_breakerVars => BreakerInv'
<1> SUFFICES ASSUME BreakerInv, [BreakerNext]_breakerVars PROVE BreakerInv'
  OBVIOUS
<1> USE BreakerConfig
    DEF BreakerInv, BreakerTypeOK, TrippedIffThreshold, ProbeBudget,
        Closed, Open, HalfOpen
<1>1. CASE AllowNil
  BY <1>1 DEF AllowNil, breakerVars
<1>2. CASE AllowErrOpen
  BY <1>2 DEF AllowErrOpen, breakerVars
<1>3. CASE RecordSuccess
  <2>1. CASE state = HalfOpen /\ successes + 1 >= SuccessThreshold
    BY <1>3, <2>1 DEF RecordSuccess
  <2>2. CASE state = HalfOpen /\ ~(successes + 1 >= SuccessThreshold)
    BY <1>3, <2>2 DEF RecordSuccess
  <2>3. CASE state # HalfOpen
    BY <1>3, <2>3 DEF RecordSuccess, breakerVars
  <2> QED BY <2>1, <2>2, <2>3
<1>4. CASE RecordFailure
  BY <1>4 DEF RecordFailure
<1>5. CASE Reset
  BY <1>5 DEF Reset
<1>6. CASE BreakerTick
  BY <1>6 DEF BreakerTick
<1>7. CASE UNCHANGED breakerVars
  BY <1>7 DEF breakerVars
<1> QED
  BY <1>1, <1>2, <1>3, <1>4, <1>5, <1>6, <1>7 DEF BreakerNext

\* Whatever the order in which goroutines call Allow, RecordSuccess,
\* RecordFailure and Reset, the breaker is tripped exactly at the threshold
\* and lets at most two requests test a recovery.
THEOREM BreakerCorrect ==
  BreakerSpec => [](BreakerTypeOK /\ TrippedIffThreshold /\ ProbeBudget)
<1>1. BreakerSpec => []BreakerInv
  BY BreakerInitInv, BreakerStepInv, PTL DEF BreakerSpec
<1> QED
  BY <1>1, PTL DEF BreakerInv

-----------------------------------------------------------------------------
\* A step of the wrapped provider is a breaker method, a tick, or leaves the
\* breaker alone.
LEMMA ProviderStepIsBreakerStep == [ProviderNext]_providerVars => [BreakerNext]_breakerVars
<1> SUFFICES ASSUME [ProviderNext]_providerVars PROVE [BreakerNext]_breakerVars
  OBVIOUS
<1> USE DEF BreakerNext, callerVars
<1>1. ASSUME NEW c \in Callers, Proceed(c) PROVE [BreakerNext]_breakerVars
  BY <1>1 DEF Proceed, Admitted, Rejected, Succeed, FailForGood, FailTransient,
              StreamReturned, Retry, Cancelled
<1>2. ASSUME NEW c \in Callers, NEW o \in Ops, Call(c, o)
      PROVE  [BreakerNext]_breakerVars
  BY <1>2 DEF Call
<1>3. CASE ClockTick
  BY <1>3 DEF ClockTick
<1>4. CASE UNCHANGED providerVars
  BY <1>4 DEF providerVars
<1> QED
  BY <1>1, <1>2, <1>3, <1>4 DEF ProviderNext

\* Complete, StreamComplete and Embed use the breaker only through its
\* methods: the wrapped provider implements the breaker's specification.
LEMMA ProviderImplementsBreaker == ProviderSpec => BreakerSpec
<1>1. ProviderInit => BreakerInit
  BY DEF ProviderInit
<1> QED
  BY <1>1, ProviderStepIsBreakerStep, PTL DEF ProviderSpec, BreakerSpec

\* The breaker's properties therefore hold of the wrapped provider, for any
\* number of concurrent callers.
THEOREM ProviderBreakerSafe == ProviderSpec => [](TrippedIffThreshold /\ ProbeBudget)
  BY ProviderImplementsBreaker, BreakerCorrect, PTL

-----------------------------------------------------------------------------
\* The inductive invariant of the retry loop: RetryBudget bounds the calls
\* only together with what "allow" knows of them, one fewer than an attempt
\* in flight.
RetryInv ==
  /\ ProviderTypeOK
  /\ RetryBudget
  /\ \A c \in Callers : callerPc[c] = "allow" => calls[c] = attempt[c]

\* Every step of a caller preserves RetryInv.
LEMMA RetryStepInv == RetryInv /\ BreakerInv /\ [ProviderNext]_providerVars => RetryInv'
<1> SUFFICES ASSUME RetryInv, BreakerInv, [ProviderNext]_providerVars PROVE RetryInv'
  OBVIOUS
<1>0. BreakerTypeOK'
  BY BreakerStepInv, ProviderStepIsBreakerStep DEF BreakerInv
<1> USE ProviderConfig DEF RetryInv, ProviderTypeOK, RetryBudget
<1>1. ASSUME NEW c \in Callers, Proceed(c) PROVE RetryInv'
  <2>1. CASE Admitted(c)
    <3>1. attempt[c] \in 0..MaxRetries /\ calls[c] = attempt[c]
      BY <2>1 DEF Admitted
    <3>2. callerPc' \in [Callers -> {"idle", "allow", "calling", "backoff"}]
      BY <2>1 DEF Admitted
    <3>3. calls' \in [Callers -> 0..(MaxRetries + 1)]
      BY <2>1, <3>1 DEF Admitted
    <3>4. attempt' = attempt /\ op' = op
      BY <2>1 DEF Admitted
    <3>5. ASSUME NEW d \in Callers
          PROVE  /\ callerPc'[d] \in {"calling", "backoff"} => calls'[d] = attempt'[d] + 1
                 /\ callerPc'[d] = "backoff" => attempt'[d] < MaxRetries
                 /\ callerPc'[d] = "allow" => calls'[d] = attempt'[d]
                 /\ calls'[d] <= MaxRetries + 1
      BY <2>1, <3>1, <3>3, <3>4 DEF Admitted
    <3>6. streamProbes' \in Nat
      BY <2>1 DEF Admitted, BreakerTypeOK, Closed, Open, HalfOpen
    <3> QED
      BY <1>0, <3>1, <3>2, <3>3, <3>4, <3>5, <3>6
  <2>2. CASE Rejected(c)
    BY <1>0, <2>2 DEF Rejected
  <2>3. CASE Succeed(c)
    BY <1>0, <2>3 DEF Succeed
  <2>4. CASE FailForGood(c)
    BY <1>0, <2>4 DEF FailForGood
  <2>5. CASE FailTransient(c)
    BY <1>0, <2>5 DEF FailTransient
  <2>6. CASE StreamReturned(c)
    BY <1>0, <2>6 DEF StreamReturned
  <2>7. CASE Retry(c)
    BY <1>0, <2>7 DEF Retry
  <2>8. CASE Cancelled(c)
    BY <1>0, <2>8 DEF Cancelled
  <2> QED
    BY <1>1, <2>1, <2>2, <2>3, <2>4, <2>5, <2>6, <2>7, <2>8 DEF Proceed
<1>2. ASSUME NEW c \in Callers, NEW o \in Ops, Call(c, o) PROVE RetryInv'
  BY <1>0, <1>2 DEF Call
<1>3. CASE ClockTick
  BY <1>0, <1>3 DEF ClockTick, callerVars
<1>4. CASE UNCHANGED providerVars
  BY <1>0, <1>4 DEF providerVars, callerVars
<1> QED
  BY <1>1, <1>2, <1>3, <1>4 DEF ProviderNext

\* No interleaving of callers, retries and breaker trips makes one method call
\* send more than MaxRetries + 1 requests.
THEOREM RetryBudgetHolds == ProviderSpec => [](ProviderTypeOK /\ RetryBudget)
<1>1. ProviderInit => RetryInv
  <2> SUFFICES ASSUME ProviderInit PROVE RetryInv
    OBVIOUS
  <2>1. streamProbes \in Nat
    BY DEF ProviderInit
  <2> QED
    BY <2>1, BreakerInitInv, ProviderConfig
    DEF ProviderInit, RetryInv, ProviderTypeOK, RetryBudget, BreakerInv
<1>2. ProviderSpec => []BreakerInv
  BY ProviderImplementsBreaker, BreakerInitInv, BreakerStepInv, PTL DEF BreakerSpec
<1>3. ProviderSpec => []RetryInv
  BY <1>1, <1>2, RetryStepInv, PTL DEF ProviderSpec
<1> QED
  BY <1>3, PTL DEF RetryInv

-----------------------------------------------------------------------------
\* Requests in flight can be counted, and a request that leaves or joins them
\* changes the count by one.
LEMMA InFlightCount ==
  /\ IsFiniteSet(InFlight)
  /\ Cardinality(InFlight) \in Nat
  /\ \A c \in InFlight : Cardinality(InFlight \ {c}) = Cardinality(InFlight) - 1
  /\ \A c : c \notin InFlight =>
       Cardinality(InFlight \cup {c}) = Cardinality(InFlight) + 1
<1>1. IsFiniteSet(InFlight)
  BY ProviderConfig, FS_Subset DEF InFlight
<1> QED
  BY <1>1, FS_CardinalityType, FS_RemoveElement, FS_AddElement

\* A step preserves the account of the probes: admission adds a probe to the
\* requests in flight or to the streams, a success moves it to successes or
\* ends the test, and a failure ends it.
LEMMA AccountStep ==
  ASSUME ProbesAreAccounted, ProviderTypeOK, ProviderTypeOK',
         [ProviderNext]_providerVars
  PROVE  ProbesAreAccounted'
<1> SUFFICES ASSUME state' = HalfOpen
             PROVE  probes' <= successes' + Cardinality(InFlight') + streamProbes'
  BY DEF ProbesAreAccounted
<1> DEFINE n == Cardinality(InFlight)
<1>0. n \in Nat
  BY InFlightCount
<1>1. /\ probes \in Nat /\ successes \in Nat /\ streamProbes \in Nat
      /\ state = HalfOpen => probes <= successes + n + streamProbes
  BY DEF ProbesAreAccounted, ProviderTypeOK, BreakerTypeOK
<1>same. ASSUME InFlight' = InFlight, UNCHANGED <<state, probes, successes, streamProbes>>
         PROVE  probes' <= successes' + Cardinality(InFlight') + streamProbes'
  BY <1>same, <1>1
<1>2. ASSUME NEW c \in Callers, Proceed(c)
      PROVE  probes' <= successes' + Cardinality(InFlight') + streamProbes'
  <2>1. CASE Admitted(c)
    <3> DEFINE mine == IF op[c] = "stream" THEN 1 ELSE 0
    <3>1. op' = op /\ callerPc' = [callerPc EXCEPT ![c] = "calling"] /\ c \notin InFlight
      BY <2>1 DEF Admitted, InFlight
    <3>2. Cardinality(InFlight') = n + (1 - mine)
      <4>1. CASE op[c] = "stream"
        <5>1. InFlight' = InFlight
          BY <3>1, <4>1 DEF InFlight, ProviderTypeOK
        <5> QED
          BY <5>1, <4>1, <1>0
      <4>2. CASE op[c] # "stream"
        <5>1. InFlight' = InFlight \cup {c}
          BY <3>1, <4>2 DEF InFlight, ProviderTypeOK
        <5>2. Cardinality(InFlight \cup {c}) = n + 1
          BY <3>1, InFlightCount
        <5> QED
          BY <5>1, <5>2, <4>2, <1>0
      <4> QED
        BY <4>1, <4>2
    <3>3. CASE state = Open
      <4>1. probes' = 1 /\ successes' = 0 /\ streamProbes' = mine
        BY <2>1, <3>3 DEF Admitted, AllowNil, Open, Closed, HalfOpen
      <4> QED
        BY <4>1, <3>2, <1>0
    <3>4. CASE state = HalfOpen
      <4>1. probes' = probes + 1 /\ successes' = successes
        BY <2>1, <3>4 DEF Admitted, AllowNil, Open, Closed, HalfOpen
      <4>2. streamProbes' = streamProbes + mine
        BY <2>1, <3>4 DEF Admitted, Open, Closed, HalfOpen
      <4> HIDE DEF n
      <4> QED
        BY <4>1, <4>2, <3>2, <3>4, <1>0, <1>1
    <3>5. CASE state = Closed
      BY <2>1, <3>5 DEF Admitted, AllowNil, breakerVars, Open, Closed, HalfOpen
    <3> QED
      BY <3>3, <3>4, <3>5 DEF ProviderTypeOK, BreakerTypeOK
  <2>2. CASE Succeed(c)
    <3>1. /\ state = HalfOpen
          /\ probes' = probes /\ successes' = successes + 1
          /\ streamProbes' = streamProbes
      BY <2>2 DEF Succeed, RecordSuccess, breakerVars, Open, Closed, HalfOpen
    <3>2. InFlight' = InFlight \ {c} /\ c \in InFlight
      BY <2>2 DEF Succeed, InFlight, ProviderTypeOK
    <3>3. Cardinality(InFlight') = n - 1
      BY <3>2, InFlightCount
    <3> HIDE DEF n
    <3> QED
      BY <3>1, <3>3, <1>0, <1>1
  <2>3. CASE FailForGood(c) \/ FailTransient(c)
    BY <2>3 DEF FailForGood, FailTransient, RecordFailure, Open, Closed, HalfOpen
  <2>4. CASE Rejected(c)
    <3>1. InFlight' = InFlight
      BY <2>4 DEF Rejected, InFlight, ProviderTypeOK
    <3> QED
      BY <2>4, <3>1, <1>same DEF Rejected, AllowErrOpen, breakerVars
  <2>5. CASE StreamReturned(c) \/ Retry(c) \/ Cancelled(c)
    <3>1. InFlight' = InFlight
      BY <2>5 DEF StreamReturned, Retry, Cancelled, InFlight, ProviderTypeOK
    <3> QED
      BY <2>5, <3>1, <1>same DEF StreamReturned, Retry, Cancelled, breakerVars
  <2> QED
    BY <1>2, <2>1, <2>2, <2>3, <2>4, <2>5 DEF Proceed
<1>3. ASSUME NEW c \in Callers, NEW o \in Ops, Call(c, o)
      PROVE  probes' <= successes' + Cardinality(InFlight') + streamProbes'
  <2>1. InFlight' = InFlight
    BY <1>3 DEF Call, InFlight, ProviderTypeOK
  <2> QED
    BY <1>3, <2>1, <1>same DEF Call, breakerVars
<1>4. CASE ClockTick
  <2>1. InFlight' = InFlight
    BY <1>4 DEF ClockTick, callerVars, InFlight
  <2> QED
    BY <1>4, <2>1, <1>same DEF ClockTick, BreakerTick, callerVars
<1>5. CASE UNCHANGED providerVars
  <2>1. InFlight' = InFlight
    BY <1>5 DEF providerVars, callerVars, InFlight
  <2> QED
    BY <1>5, <2>1, <1>same DEF providerVars, callerVars, breakerVars
<1> QED
  BY <1>2, <1>3, <1>4, <1>5 DEF ProviderNext

\* For every threshold, and any number of callers and retries, a probe of a
\* recovery test is a success already counted, a request still in flight that
\* will be reported, or a stream.
THEOREM ProbesAreAccountedHolds == ProviderSpec => []ProbesAreAccounted
<1>1. ProviderSpec => []ProviderTypeOK
  BY RetryBudgetHolds, PTL
<1>2. ProviderInit => ProbesAreAccounted
  BY DEF ProviderInit, BreakerInit, ProbesAreAccounted, Closed, HalfOpen
<1>3. ProbesAreAccounted /\ ProviderTypeOK /\ ProviderTypeOK' /\ [ProviderNext]_providerVars
        => ProbesAreAccounted'
  BY AccountStep
<1> QED
  BY <1>1, <1>2, <1>3, PTL DEF ProviderSpec
=============================================================================
