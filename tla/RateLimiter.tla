---------------------------- MODULE RateLimiter ----------------------------
(***************************************************************************)
(* internal/httpmw/middleware.go: the rate limiter in front of the         *)
(* dashboard and the server.  Each client has a count and the time its     *)
(* window ends; a goroutine removes clients whose window has ended.        *)
(***************************************************************************)
EXTENDS Integers, Sequences, FiniteSets

CONSTANTS
  Client,
  Requests,  \* allowed per window
  Window,    \* its length
  MaxTime,   \* bound on the clock
  MaxCount   \* bound on the requests counted in one window

ASSUME LimiterAssumption ==
  Requests \in Nat /\ Window \in Nat \ {0} /\ MaxTime \in Nat /\ MaxCount \in Nat

VARIABLES
  time,
  clients,   \* rl.clients: per client its count and resetAt
  served,    \* history: the times of the requests of each client let through
  refused    \* the client whose request was refused in the last step, if any

limiterVars == <<time, clients, served, refused>>

Unknown == [count |-> 0, resetAt |-> -1]
NoClient == {}

LimiterInit ==
  /\ time = 0
  /\ clients = [c \in Client |-> Unknown]
  /\ served = [c \in Client |-> << >>] /\ refused = NoClient

\* The entry a request is counted in: a new one if there is none or the
\* window has ended.  An unknown client has an end before all times.
Entry(c) ==
  IF time > clients[c].resetAt
    THEN [count |-> 1, resetAt |-> time + Window]
    ELSE [clients[c] EXCEPT !.count = @ + 1]

\* Middleware, up to the unlock and the decision.
Middleware(c) ==
  /\ Entry(c).count <= MaxCount
  /\ clients' = [clients EXCEPT ![c] = Entry(c)]
  /\ IF Entry(c).count <= Requests
       THEN served' = [served EXCEPT ![c] = Append(@, time)] /\ refused' = NoClient
       ELSE refused' = {c} /\ UNCHANGED served
  /\ UNCHANGED time

\* Mutant: clients are removed whose window has not ended.
CleanupAll ==
  /\ \E c \in Client : clients[c] # Unknown
  /\ clients' = [c \in Client |-> Unknown]
  /\ refused' = NoClient
  /\ UNCHANGED <<time, served>>

\* The ticker of the goroutine: it fires at any time a window apart, and what
\* it does depends on the ends only.
Cleanup ==
  /\ \E c \in Client : clients[c] # Unknown
  /\ clients' = [c \in Client |-> IF time > clients[c].resetAt THEN Unknown ELSE clients[c]]
  /\ refused' = NoClient
  /\ UNCHANGED <<time, served>>

LimiterTick ==
  /\ time < MaxTime
  /\ time' = time + 1
  /\ refused' = NoClient
  /\ UNCHANGED <<clients, served>>

\* The bound on the clock is reached.
LimiterSpent == time = MaxTime /\ UNCHANGED limiterVars

LimiterNext == (\E c \in Client : Middleware(c)) \/ Cleanup \/ LimiterTick \/ LimiterSpent

LimiterSpec == LimiterInit /\ [][LimiterNext]_limiterVars

-----------------------------------------------------------------------------
\* The requests of c let through between two times.
ServedIn(c, from, to) == {i \in DOMAIN served[c] : served[c][i] \in from..to}

\* The limit is per window and windows follow the requests, so in no interval
\* as long as a window does a client get more than twice its share, wherever
\* the interval lies and whenever the goroutine cleans up; and a request is
\* refused only when the share was used within the last window.
ShareIsKept ==
  /\ \A c \in Client, from \in 0..time :
       Cardinality(ServedIn(c, from, from + Window)) <= 2 * Requests
  /\ \A c \in refused : Cardinality(ServedIn(c, time - Window, time)) >= Requests
=============================================================================
