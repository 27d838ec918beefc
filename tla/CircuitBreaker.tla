--------------------------- MODULE CircuitBreaker ---------------------------
(***************************************************************************)
(* internal/circuitbreaker/breaker.go: the breaker every LLM provider is   *)
(* wrapped in.  Each method takes b.mu for its whole body, so one method   *)
(* is one action.  Callers are arbitrary here: any sequence of Allow,      *)
(* RecordSuccess, RecordFailure and Reset; ProviderWithBreaker.tla gives   *)
(* the callers the program has.                                            *)
(***************************************************************************)
EXTENDS Naturals

CONSTANTS
  FailureThreshold,  \* consecutive failures that open the circuit
  SuccessThreshold,  \* successes in HalfOpen that close it
  RecoveryTimeout    \* ticks the circuit stays open

\* New replaces a configured value <= 0 by a positive default.
ASSUME BreakerConfig ==
  /\ FailureThreshold \in Nat \ {0}
  /\ SuccessThreshold \in Nat \ {0}
  /\ RecoveryTimeout \in Nat \ {0}

VARIABLES
  state,      \* b.state
  failures,   \* b.failures
  successes,  \* b.successes
  elapsed,    \* time.Since(b.lastFailure), saturating at RecoveryTimeout + 1
  allowed,    \* len(b.allowed), the one-slot semaphore of HalfOpen
  probes      \* history: requests let through since HalfOpen was entered

breakerVars == <<state, failures, successes, elapsed, allowed, probes>>

Closed   == "closed"
Open     == "open"
HalfOpen == "halfopen"

BreakerInit ==
  /\ state = Closed
  /\ failures = 0
  /\ successes = 0
  /\ elapsed = RecoveryTimeout + 1   \* the zero time.Time is long past
  /\ allowed = 0
  /\ probes = 0

-----------------------------------------------------------------------------
\* Mutant: a full semaphore lets the request through all the same.
AllowNilUnlimited ==
  \/ state = Closed /\ UNCHANGED breakerVars
  \/ /\ state = Open /\ elapsed > RecoveryTimeout
     /\ state' = HalfOpen /\ successes' = 0 /\ probes' = 1
     /\ UNCHANGED <<failures, elapsed, allowed>>
  \/ /\ state = HalfOpen
     /\ allowed' = 1 /\ probes' = probes + 1
     /\ UNCHANGED <<state, failures, successes, elapsed>>

\* Allow() returning nil.
AllowNil ==
  \/ /\ state = Closed
     /\ UNCHANGED breakerVars
  \/ /\ state = Open
     /\ elapsed > RecoveryTimeout
     /\ state' = HalfOpen
     /\ successes' = 0
     /\ probes' = 1
     /\ UNCHANGED <<failures, elapsed, allowed>>
  \/ /\ state = HalfOpen
     /\ allowed = 0
     /\ allowed' = 1
     /\ probes' = probes + 1
     /\ UNCHANGED <<state, failures, successes, elapsed>>

\* Mutant: a rejected request counts as a fresh failure.
AllowErrOpenRefreshes ==
  /\ \/ state = Open /\ elapsed <= RecoveryTimeout
     \/ state = HalfOpen /\ allowed = 1
  /\ elapsed' = 0
  /\ UNCHANGED <<state, failures, successes, allowed, probes>>

\* Allow() returning ErrOpen.
AllowErrOpen ==
  /\ \/ state = Open /\ elapsed <= RecoveryTimeout
     \/ state = HalfOpen /\ allowed = 1
  /\ UNCHANGED breakerVars

\* Mutant: closing the circuit keeps the old failure count.
RecordSuccessKeepsFailures ==
  \/ /\ state = HalfOpen
     /\ IF successes + 1 >= SuccessThreshold
          THEN state' = Closed /\ successes' = 0 /\ probes' = 0
          ELSE successes' = successes + 1 /\ UNCHANGED <<state, probes>>
     /\ UNCHANGED <<failures, elapsed, allowed>>
  \/ /\ state = Closed /\ failures' = 0
     /\ UNCHANGED <<state, successes, elapsed, allowed, probes>>
  \/ state = Open /\ UNCHANGED breakerVars

\* Mutant: > for >= where successes meets the threshold.
RecordSuccessOffByOne ==
  \/ /\ state = HalfOpen
     /\ IF successes >= SuccessThreshold
          THEN state' = Closed /\ failures' = 0 /\ successes' = 0 /\ probes' = 0
          ELSE successes' = successes + 1 /\ UNCHANGED <<state, failures, probes>>
     /\ UNCHANGED <<elapsed, allowed>>
  \/ /\ state = Closed /\ failures' = 0
     /\ UNCHANGED <<state, successes, elapsed, allowed, probes>>
  \/ state = Open /\ UNCHANGED breakerVars

RecordSuccess ==
  \/ /\ state = HalfOpen
     /\ IF successes + 1 >= SuccessThreshold
          THEN /\ state' = Closed
               /\ failures' = 0
               /\ successes' = 0
               /\ probes' = 0
          ELSE /\ successes' = successes + 1
               /\ UNCHANGED <<state, failures, probes>>
     /\ UNCHANGED <<elapsed, allowed>>
  \/ /\ state = Closed
     /\ failures' = 0
     /\ UNCHANGED <<state, successes, elapsed, allowed, probes>>
  \/ /\ state = Open
     /\ UNCHANGED breakerVars

RecordFailure ==
  /\ elapsed' = 0
  /\ \/ /\ state = Closed
        /\ failures' = failures + 1
        /\ state' = IF failures + 1 >= FailureThreshold THEN Open ELSE Closed
        /\ UNCHANGED <<successes, probes>>
     \/ /\ state = HalfOpen
        /\ state' = Open
        /\ successes' = 0
        /\ probes' = 0
        /\ UNCHANGED failures
     \/ /\ state = Open
        /\ UNCHANGED <<state, failures, successes, probes>>
  /\ UNCHANGED allowed

Reset ==
  /\ state' = Closed
  /\ failures' = 0
  /\ successes' = 0
  /\ probes' = 0
  /\ UNCHANGED <<elapsed, allowed>>

\* The clock; only the comparison of elapsed with RecoveryTimeout is observed.
BreakerTick ==
  /\ elapsed <= RecoveryTimeout
  /\ elapsed' = elapsed + 1
  /\ UNCHANGED <<state, failures, successes, allowed, probes>>

BreakerNext ==
  AllowNil \/ AllowErrOpen \/ RecordSuccess \/ RecordFailure \/ Reset \/ BreakerTick

\* What a breaker does whoever calls it.
BreakerSpec == BreakerInit /\ [][BreakerNext]_breakerVars

-----------------------------------------------------------------------------
BreakerTypeOK ==
  /\ state \in {Closed, Open, HalfOpen}
  /\ failures \in 0..FailureThreshold
  /\ successes \in 0..(SuccessThreshold - 1)
  /\ elapsed \in 0..(RecoveryTimeout + 1)
  /\ allowed \in 0..1
  /\ probes \in 0..2

\* The breaker is tripped exactly while its failure count stands at the
\* threshold: no call order lets it trip early, stay closed at the threshold,
\* or come back to Closed with an old count (RecordSuccess, RecordFailure).
TrippedIffThreshold == state = Closed <=> failures < FailureThreshold

\* While recovery is being tested Allow lets through the request that moved
\* the breaker to HalfOpen and, if the semaphore was still free, one more:
\* never a third, because nothing drains b.allowed.
ProbeBudget ==
  IF state = HalfOpen THEN probes \in 1..(1 + allowed) ELSE probes = 0
=============================================================================
