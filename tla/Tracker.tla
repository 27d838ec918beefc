------------------------------ MODULE Tracker ------------------------------
(***************************************************************************)
(* internal/tracking/tracker.go and cmd/tokman/main.go: the life of the    *)
(* global tracker.  Commands record through it, its worker goroutine       *)
(* cleans old rows up, and it is closed by main when the command returned  *)
(* or by the goroutine that waits for a signal.  A tracker is a            *)
(* generation g: closing the global one and recording again makes another. *)
(* A step is what a goroutine does between two points where it can be      *)
(* overtaken.                                                              *)
(***************************************************************************)
EXTENDS Integers, FiniteSets

CONSTANTS
  Recorder,   \* goroutines of the command that call TimedExecution.Track
  MaxTracks,  \* bound on the calls of Track
  MaxGen      \* bound on the trackers made

ASSUME TrackerAssumption ==
  MaxTracks \in Nat /\ MaxGen \in Nat \ {0}

Gen == 1..MaxGen
Closer == {"main", "signal"}
None == 0

VARIABLES
  process,    \* "running", "exited" or "panicked"
  executing,  \* commands.ExecuteContext has not returned
  global,     \* globalTracker
  made,       \* number of trackers made
  closed, chanOpen, buffered, worker, db,  \* per tracker: its flag, channel,
              \* whether the channel holds a trigger, its worker, its database
  rpc, rg,    \* recorders: where each is and the tracker it got
  cpc, cg,    \* closers, likewise
  once,       \* closeTrackerOnce: "free", "running" or "done"
  tracks,     \* calls of Track so far
  lost        \* a record was refused because its database was closed

trackerVars == <<closed, chanOpen, buffered, worker, db>>
recorderVars == <<rpc, rg, tracks, lost>>
closerVars == <<cpc, cg, once>>
vars == <<process, executing, global, made, trackerVars, recorderVars, closerVars>>

Init ==
  /\ process = "running" /\ executing = TRUE
  /\ global = None /\ made = 0
  /\ closed = [g \in Gen |-> FALSE]
  /\ chanOpen = [g \in Gen |-> FALSE]
  /\ buffered = [g \in Gen |-> FALSE]
  /\ worker = [g \in Gen |-> "none"]
  /\ db = [g \in Gen |-> "none"]
  /\ rpc = [r \in Recorder |-> "idle"] /\ rg = [r \in Recorder |-> None]
  /\ cpc = [c \in Closer |-> "idle"] /\ cg = [c \in Closer |-> None]
  /\ once = "free"
  /\ tracks = 0 /\ lost = FALSE

-----------------------------------------------------------------------------
\* Track calls getGlobalTracker, which makes a tracker if there is none: the
\* database is opened and the worker started (NewTracker).
MakeTracker ==
  LET g == made + 1
  IN  /\ g \in Gen
      /\ made' = g
      /\ chanOpen' = [chanOpen EXCEPT ![g] = TRUE]
      /\ worker' = [worker EXCEPT ![g] = "wait"]
      /\ db' = [db EXCEPT ![g] = "open"]
      /\ UNCHANGED <<closed, buffered>>

\* Mutant: the new tracker is not stored in globalTracker.
getGlobalTrackerForgets(r) ==
  /\ process = "running" /\ executing
  /\ rpc[r] = "idle" /\ tracks < MaxTracks
  /\ tracks' = tracks + 1
  /\ MakeTracker
  /\ rg' = [rg EXCEPT ![r] = made'] /\ rpc' = [rpc EXCEPT ![r] = "insert"]
  /\ UNCHANGED <<process, executing, global, lost, closerVars>>

getGlobalTracker(r) ==
  /\ process = "running" /\ executing
  /\ rpc[r] = "idle" /\ tracks < MaxTracks
  /\ tracks' = tracks + 1
  /\ IF global = None
       THEN MakeTracker /\ global' = made'
       ELSE UNCHANGED <<trackerVars, made, global>>
  /\ rg' = [rg EXCEPT ![r] = global'] /\ rpc' = [rpc EXCEPT ![r] = "insert"]
  /\ UNCHANGED <<process, executing, lost, closerVars>>

\* getGlobalTracker returns nil, for want of a path or of a database that
\* opens: Track gives up.
NoTracker(r) ==
  /\ process = "running" /\ executing
  /\ rpc[r] = "idle" /\ tracks < MaxTracks
  /\ global = None
  /\ tracks' = tracks + 1
  /\ UNCHANGED <<process, executing, global, made, trackerVars, rpc, rg, lost, closerVars>>

\* RecordContext: the INSERT fails on a closed database, and Track ignores
\* the error.
Insert(r) ==
  /\ process = "running" /\ rpc[r] = "insert"
  /\ IF db[rg[r]] = "open"
       THEN rpc' = [rpc EXCEPT ![r] = "check"] /\ UNCHANGED lost
       ELSE rpc' = [rpc EXCEPT ![r] = "idle"] /\ lost' = TRUE
  /\ UNCHANGED <<process, executing, global, made, trackerVars, rg, tracks, closerVars>>

\* The INSERT fails on an open database, a busy one or a full disk: Track
\* ignores this too.
InsertFails(r) ==
  /\ process = "running" /\ rpc[r] = "insert" /\ db[rg[r]] = "open"
  /\ rpc' = [rpc EXCEPT ![r] = "idle"]
  /\ UNCHANGED <<process, executing, global, made, trackerVars, rg, tracks, lost, closerVars>>

\* "if !t.closed.Load()".
CheckClosed(r) ==
  /\ process = "running" /\ rpc[r] = "check"
  /\ rpc' = [rpc EXCEPT ![r] = IF closed[rg[r]] THEN "idle" ELSE "send"]
  /\ UNCHANGED <<process, executing, global, made, trackerVars, rg, tracks, lost, closerVars>>

\* The select with a default; a send on a closed channel panics.
Trigger(r) ==
  /\ process = "running" /\ rpc[r] = "send"
  /\ IF chanOpen[rg[r]]
       THEN buffered' = [buffered EXCEPT ![rg[r]] = TRUE] /\ UNCHANGED process
       ELSE process' = "panicked" /\ UNCHANGED buffered
  /\ rpc' = [rpc EXCEPT ![r] = "idle"]
  /\ UNCHANGED <<executing, global, made, closed, chanOpen, worker, db, rg, tracks, lost,
                 closerVars>>

-----------------------------------------------------------------------------
\* cleanupWorker takes a trigger.
Receive(g) ==
  /\ process = "running" /\ worker[g] = "wait" /\ buffered[g]
  /\ buffered' = [buffered EXCEPT ![g] = FALSE]
  /\ worker' = [worker EXCEPT ![g] = "clean"]
  /\ UNCHANGED <<process, executing, global, made, closed, chanOpen, db, recorderVars, closerVars>>

\* cleanupOld: throttled, or a DELETE on the database.
cleanupOld(g) ==
  /\ process = "running" /\ worker[g] = "clean"
  /\ worker' = [worker EXCEPT ![g] = "wait"]
  /\ UNCHANGED <<process, executing, global, made, closed, chanOpen, buffered, db,
                 recorderVars, closerVars>>

\* The range loop ends when the channel is closed and empty.
WorkerEnds(g) ==
  /\ process = "running" /\ worker[g] = "wait" /\ ~chanOpen[g] /\ ~buffered[g]
  /\ worker' = [worker EXCEPT ![g] = "done"]
  /\ UNCHANGED <<process, executing, global, made, closed, chanOpen, buffered, db,
                 recorderVars, closerVars>>

-----------------------------------------------------------------------------
\* commands.ExecuteContext returns, with no call of Track in progress.
ExecuteReturns ==
  /\ process = "running" /\ executing
  /\ \A r \in Recorder : rpc[r] = "idle"
  /\ executing' = FALSE
  /\ UNCHANGED <<process, global, made, trackerVars, recorderVars, closerVars>>

\* closeTracker: main calls it after the command, the other goroutine on a
\* signal; sync.Once lets one in and makes the other wait.
closeTracker(c) ==
  /\ process = "running" /\ cpc[c] = "idle"
  /\ c = "main" => ~executing
  /\ once = "free"
  /\ once' = "running" /\ cpc' = [cpc EXCEPT ![c] = "take"]
  /\ UNCHANGED <<process, executing, global, made, trackerVars, recorderVars, cg>>

\* The other caller of the Once gets through when the first is done.
AlreadyClosed(c) ==
  /\ process = "running" /\ cpc[c] = "idle"
  /\ c = "main" => ~executing
  /\ once = "done"
  /\ cpc' = [cpc EXCEPT ![c] = "closed"]
  /\ UNCHANGED <<process, executing, global, made, trackerVars, recorderVars, cg, once>>

\* CloseGlobalTracker takes the tracker out of the global variable.
Take(c) ==
  /\ process = "running" /\ cpc[c] = "take"
  /\ cg' = [cg EXCEPT ![c] = global]
  /\ global' = None
  /\ IF global = None
       THEN cpc' = [cpc EXCEPT ![c] = "closed"] /\ once' = "done"
       ELSE cpc' = [cpc EXCEPT ![c] = "flag"] /\ UNCHANGED once
  /\ UNCHANGED <<process, executing, made, trackerVars, recorderVars>>

\* Tracker.Close, one line at a time.
SetClosed(c) ==
  /\ process = "running" /\ cpc[c] = "flag"
  /\ closed' = [closed EXCEPT ![cg[c]] = TRUE]
  /\ cpc' = [cpc EXCEPT ![c] = "chan"]
  /\ UNCHANGED <<process, executing, global, made, chanOpen, buffered, worker, db,
                 recorderVars, cg, once>>

\* Mutant: the channel is left open.
CloseChanForgets(c) ==
  /\ process = "running" /\ cpc[c] = "chan"
  /\ cpc' = [cpc EXCEPT ![c] = "db"]
  /\ UNCHANGED <<process, executing, global, made, trackerVars, recorderVars, cg, once>>

CloseChan(c) ==
  /\ process = "running" /\ cpc[c] = "chan"
  /\ chanOpen' = [chanOpen EXCEPT ![cg[c]] = FALSE]
  /\ cpc' = [cpc EXCEPT ![c] = "db"]
  /\ UNCHANGED <<process, executing, global, made, closed, buffered, worker, db,
                 recorderVars, cg, once>>

\* Mutant: the database is closed without waiting for the worker.
CloseDBAtOnce(c) ==
  /\ process = "running" /\ cpc[c] = "db"
  /\ db' = [db EXCEPT ![cg[c]] = "closed"]
  /\ cpc' = [cpc EXCEPT ![c] = "closed"] /\ once' = "done"
  /\ UNCHANGED <<process, executing, global, made, closed, chanOpen, buffered, worker,
                 recorderVars, cg>>

\* cleanupWg.Wait, then db.Close.
CloseDB(c) ==
  /\ process = "running" /\ cpc[c] = "db"
  /\ worker[cg[c]] = "done"
  /\ db' = [db EXCEPT ![cg[c]] = "closed"]
  /\ cpc' = [cpc EXCEPT ![c] = "closed"] /\ once' = "done"
  /\ UNCHANGED <<process, executing, global, made, closed, chanOpen, buffered, worker,
                 recorderVars, cg>>

\* os.Exit.
Exit ==
  /\ process = "running" /\ cpc["main"] = "closed"
  /\ process' = "exited"
  /\ UNCHANGED <<executing, global, made, trackerVars, recorderVars, closerVars>>

\* The process is gone.
Gone == process # "running" /\ UNCHANGED vars

Record(r) ==
  \/ getGlobalTracker(r) \/ NoTracker(r) \/ Insert(r) \/ InsertFails(r)
  \/ CheckClosed(r) \/ Trigger(r)
Work(g) == Receive(g) \/ cleanupOld(g) \/ WorkerEnds(g)
CloseGlobal(c) == Take(c) \/ SetClosed(c) \/ CloseChan(c) \/ CloseDB(c)
Close(c) == closeTracker(c) \/ AlreadyClosed(c) \/ CloseGlobal(c)

Next ==
  \/ \E r \in Recorder : Record(r)
  \/ \E g \in Gen : Work(g)
  \/ \E c \in Closer : Close(c)
  \/ ExecuteReturns \/ Exit \/ Gone

Spec == Init /\ [][Next]_vars

\* Goroutines that can run do.  Nothing makes a command return or a signal
\* arrive.
Fairness ==
  /\ \A r \in Recorder : WF_vars(Insert(r) \/ InsertFails(r) \/ CheckClosed(r) \/ Trigger(r))
  /\ \A g \in Gen : WF_vars(Work(g))
  /\ \A c \in Closer : WF_vars(CloseGlobal(c))
  /\ WF_vars(Close("main"))
  /\ WF_vars(Exit)

FairSpec == Spec /\ Fairness

-----------------------------------------------------------------------------
TypeOK ==
  /\ process \in {"running", "exited", "panicked"} /\ executing \in BOOLEAN
  /\ global \in 0..made /\ made \in 0..MaxGen
  /\ closed \in [Gen -> BOOLEAN] /\ chanOpen \in [Gen -> BOOLEAN]
  /\ buffered \in [Gen -> BOOLEAN]
  /\ worker \in [Gen -> {"none", "wait", "clean", "done"}]
  /\ db \in [Gen -> {"none", "open", "closed"}]
  /\ rpc \in [Recorder -> {"idle", "insert", "check", "send"}]
  /\ rg \in [Recorder -> 0..MaxGen]
  /\ cpc \in [Closer -> {"idle", "take", "flag", "chan", "db", "closed"}]
  /\ cg \in [Closer -> 0..MaxGen]
  /\ once \in {"free", "running", "done"}
  /\ tracks \in 0..MaxTracks /\ lost \in BOOLEAN

\* "Wait for cleanup goroutine to finish before closing DB": the worker never
\* runs its DELETE on a closed database, whoever closes it and when.
WorkerHasDB == \A g \in Gen : worker[g] = "clean" => db[g] = "open"

\* A command that no signal interrupts ends cleanly: no send met a closed
\* channel, which would end the process, no record was refused, and when the
\* process exits every database it opened is closed (main, RecordContext,
\* CloseGlobalTracker, Close).
CleanExit ==
  cpc["signal"] = "idle" =>
    /\ process # "panicked" /\ ~lost
    /\ process = "exited" => \A g \in Gen : db[g] # "open"

\* Once the command has returned, the process exits: Close does not wait for
\* a worker that waits for it.
ExitReached == ~executing ~> process # "running"
=============================================================================
