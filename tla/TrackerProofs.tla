--------------------------- MODULE TrackerProofs ---------------------------
(***************************************************************************)
(* The life of the tracker for any number of recording goroutines, records *)
(* and trackers.                                                           *)
(***************************************************************************)
EXTENDS Tracker, TLAPS

\* A worker that has not ended has an open database.
LiveWorker == \A g \in Gen : worker[g] \in {"wait", "clean"} => db[g] = "open"

WorkerInv == TypeOK /\ LiveWorker

USE TrackerAssumption

LEMMA TypeInit == Init => TypeOK
<1> SUFFICES ASSUME Init PROVE TypeOK
  OBVIOUS
<1>1. global \in 0..made /\ made \in 0..MaxGen /\ tracks \in 0..MaxTracks
  BY DEF Init, None
<1>2. rg \in [Recorder -> 0..MaxGen] /\ cg \in [Closer -> 0..MaxGen]
  BY DEF Init, None
<1>3. QED
  BY <1>1, <1>2, Zenon DEF Init, TypeOK

\* Every step keeps the types; a tracker in use is one that was made.
LEMMA TypeNext == TypeOK /\ [Next]_vars => TypeOK'
<1> SUFFICES ASSUME TypeOK, [Next]_vars PROVE TypeOK'
  OBVIOUS
<1> USE DEF TypeOK, trackerVars, recorderVars, closerVars, None
<1>1. ASSUME NEW r \in Recorder, getGlobalTracker(r) PROVE TypeOK'
  <2>1. CASE global = None
    <3> DEFINE g == made + 1
    <3>1. g \in Gen /\ made' = g /\ global' = g
      BY <1>1, <2>1 DEF getGlobalTracker, MakeTracker
    <3>2. made' \in 0..MaxGen /\ global' \in 0..made' /\ tracks' \in 0..MaxTracks
      BY <1>1, <3>1 DEF getGlobalTracker, Gen
    <3>3. rg' \in [Recorder -> 0..MaxGen]
      BY <1>1, <3>1, <3>2 DEF getGlobalTracker
    <3>4. chanOpen' \in [Gen -> BOOLEAN]
      BY <1>1, <2>1, <3>1, Zenon DEF getGlobalTracker, MakeTracker
    <3>5. /\ worker' \in [Gen -> {"none", "wait", "clean", "done"}]
          /\ db' \in [Gen -> {"none", "open", "closed"}]
          /\ rpc' \in [Recorder -> {"idle", "insert", "check", "send"}]
      BY <1>1, <2>1, <3>1 DEF getGlobalTracker, MakeTracker
    <3>6. QED
      BY <1>1, <2>1, <3>2, <3>3, <3>4, <3>5, Zenon DEF getGlobalTracker, MakeTracker
  <2>2. CASE global # None
    BY <1>1, <2>2 DEF getGlobalTracker, Gen
  <2>3. QED BY <2>1, <2>2
<1>2. ASSUME NEW r \in Recorder, Insert(r) PROVE TypeOK'
  BY <1>2 DEF Insert
<1>3. ASSUME NEW r \in Recorder, CheckClosed(r) \/ NoTracker(r) \/ InsertFails(r) PROVE TypeOK'
  BY <1>3 DEF CheckClosed, NoTracker, InsertFails
<1>4. ASSUME NEW r \in Recorder, Trigger(r) PROVE TypeOK'
  BY <1>4 DEF Trigger
<1>5. ASSUME NEW g \in Gen, Work(g) PROVE TypeOK'
  BY <1>5 DEF Work, Receive, cleanupOld, WorkerEnds
<1>6. ASSUME NEW c \in Closer, closeTracker(c) \/ AlreadyClosed(c) PROVE TypeOK'
  BY <1>6 DEF closeTracker, AlreadyClosed
<1>7. ASSUME NEW c \in Closer, Take(c) PROVE TypeOK'
  BY <1>7 DEF Take
<1>8. ASSUME NEW c \in Closer, SetClosed(c) \/ CloseChan(c) \/ CloseDB(c) PROVE TypeOK'
  BY <1>8 DEF SetClosed, CloseChan, CloseDB
<1>9. CASE ExecuteReturns
  BY <1>9 DEF ExecuteReturns
<1>10. CASE Exit
  BY <1>10 DEF Exit
<1>11. CASE Gone \/ UNCHANGED vars
  BY <1>11 DEF Gone, vars
<1>12. QED
  BY <1>1, <1>2, <1>3, <1>4, <1>5, <1>6, <1>7, <1>8, <1>9, <1>10, <1>11
    DEF Next, Record, Close, CloseGlobal

LEMMA WorkerNext == WorkerInv /\ [Next]_vars => WorkerInv'
<1> SUFFICES ASSUME WorkerInv, [Next]_vars PROVE LiveWorker'
  BY TypeNext DEF WorkerInv
<1> USE DEF WorkerInv, TypeOK, LiveWorker, trackerVars
<1>1. ASSUME NEW r \in Recorder, Record(r) PROVE LiveWorker'
  BY <1>1 DEF Record, getGlobalTracker, NoTracker, MakeTracker, Insert, InsertFails,
                CheckClosed, Trigger
<1>2. ASSUME NEW g \in Gen, Work(g) PROVE LiveWorker'
  BY <1>2 DEF Work, Receive, cleanupOld, WorkerEnds
<1>3. ASSUME NEW c \in Closer, Close(c) PROVE LiveWorker'
  BY <1>3 DEF Close, closeTracker, AlreadyClosed, CloseGlobal, Take, SetClosed, CloseChan, CloseDB
<1>4. CASE ExecuteReturns \/ Exit \/ Gone \/ UNCHANGED vars
  BY <1>4 DEF ExecuteReturns, Exit, Gone, vars
<1>5. QED
  BY <1>1, <1>2, <1>3, <1>4 DEF Next

\* The cleanup worker never meets a closed database, with or without signals.
THEOREM WorkerIsSafe == Spec => []WorkerHasDB
<1>1. Init => WorkerInv
  BY TypeInit DEF Init, WorkerInv, LiveWorker
<1>2. WorkerInv => WorkerHasDB
  BY DEF WorkerInv, LiveWorker, WorkerHasDB
<1>3. QED
  BY <1>1, <1>2, WorkerNext, PTL DEF Spec

-----------------------------------------------------------------------------
\* Until a signal is handled main is the only closer and comes after the
\* command: a recorder at work has the global tracker, which is open, and the
\* only open database is that of the global tracker or of the one main is
\* closing.
Quiet ==
  /\ process # "panicked" /\ ~lost
  /\ process = "exited" => cpc["main"] = "closed"
  /\ cpc["main"] # "idle" => ~executing
  /\ cpc["main"] = "idle" => once = "free"
  /\ \A r \in Recorder : rpc[r] # "idle" => executing /\ rg[r] = global /\ global # None
  /\ cpc["main"] = "idle" /\ global # None => chanOpen[global]
  /\ cpc["main"] \in {"idle", "take"} => \A g \in Gen : db[g] = "open" <=> g = global
  /\ cpc["main"] \in {"flag", "chan", "db"} => \A g \in Gen : db[g] = "open" => g = cg["main"]
  /\ cpc["main"] = "closed" => \A g \in Gen : db[g] # "open"

QuietInv == TypeOK /\ (cpc["signal"] = "idle" => Quiet)

\* A closer that is idle has not started closing; a signal once handled stays
\* handled.
LEMMA SignalStays == TypeOK /\ [Next]_vars /\ cpc'["signal"] = "idle" => cpc["signal"] = "idle"
<1> SUFFICES ASSUME TypeOK, [Next]_vars, cpc["signal"] # "idle" PROVE cpc'["signal"] # "idle"
  OBVIOUS
<1> USE DEF TypeOK, closerVars, Closer
<1>1. ASSUME NEW c \in Closer, Close(c) PROVE cpc'["signal"] # "idle"
  BY <1>1 DEF Close, CloseGlobal, closeTracker, AlreadyClosed, Take, SetClosed, CloseChan, CloseDB
<1>2. CASE ~\E c \in Closer : Close(c)
  BY <1>2 DEF Next, Record, Work, getGlobalTracker, NoTracker, Insert, InsertFails, CheckClosed, Trigger,
    Receive, cleanupOld, WorkerEnds, ExecuteReturns, Exit, Gone, vars
<1>3. QED BY <1>1, <1>2

LEMMA QuietNext == QuietInv /\ [Next]_vars => QuietInv'
<1> SUFFICES ASSUME QuietInv, [Next]_vars, cpc'["signal"] = "idle" PROVE Quiet'
  BY TypeNext DEF QuietInv
<1>0. TypeOK /\ Quiet /\ cpc["signal"] = "idle"
  BY SignalStays DEF QuietInv
<1> USE <1>0 DEF TypeOK, Quiet, trackerVars, recorderVars, closerVars, None
<1>1. ASSUME NEW r \in Recorder, getGlobalTracker(r) PROVE Quiet'
  <2>1. CASE global = None
    BY <1>1, <2>1 DEF getGlobalTracker, MakeTracker, Gen, Closer
  <2>2. CASE global # None
    BY <1>1, <2>2 DEF getGlobalTracker, Closer
  <2>3. QED BY <2>1, <2>2
<1>2. ASSUME NEW r \in Recorder, Insert(r) PROVE Quiet'
  <2>1. global \in Gen
    BY <1>2 DEF Insert, Gen
  <2>2. QED BY <1>2, <2>1 DEF Insert, Closer
<1>3. ASSUME NEW r \in Recorder, CheckClosed(r) \/ NoTracker(r) \/ InsertFails(r) PROVE Quiet'
  BY <1>3 DEF CheckClosed, NoTracker, InsertFails
<1>4. ASSUME NEW r \in Recorder, Trigger(r) PROVE Quiet'
  BY <1>4 DEF Trigger, Closer
<1>5. ASSUME NEW g \in Gen, Work(g) PROVE Quiet'
  BY <1>5 DEF Work, Receive, cleanupOld, WorkerEnds
<1>6. ASSUME NEW c \in Closer, closeTracker(c) \/ AlreadyClosed(c) PROVE Quiet'
  <2>1. c = "main"
    BY <1>6 DEF closeTracker, AlreadyClosed, Closer
  <2>2. QED BY <1>6, <2>1 DEF closeTracker, AlreadyClosed, Closer
<1>7. ASSUME NEW c \in Closer, Take(c) PROVE Quiet'
  BY <1>7 DEF Take, Closer, Gen
<1>8. ASSUME NEW c \in Closer, SetClosed(c) \/ CloseChan(c) PROVE Quiet'
  BY <1>8 DEF SetClosed, CloseChan, Closer
<1>9. ASSUME NEW c \in Closer, CloseDB(c) PROVE Quiet'
  BY <1>9 DEF CloseDB, Closer
<1>10. CASE ExecuteReturns \/ Exit
  BY <1>10 DEF ExecuteReturns, Exit
<1>11. CASE Gone \/ UNCHANGED vars
  BY <1>11 DEF Gone, vars
<1>12. QED
  BY <1>1, <1>2, <1>3, <1>4, <1>5, <1>6, <1>7, <1>8, <1>9, <1>10, <1>11
    DEF Next, Record, Close, CloseGlobal

\* A command that is not interrupted ends cleanly, however many goroutines of
\* it record: no send meets a closed channel, every record is written and no
\* database is left open when main calls os.Exit.
THEOREM UninterruptedExit == Spec => []CleanExit
<1>1. Init => QuietInv
  <2> SUFFICES ASSUME Init PROVE Quiet
    BY TypeInit DEF QuietInv
  <2>1. \A g \in Gen : db[g] # "open" /\ g # global
    BY DEF Init, Gen, None
  <2>2. QED
    BY <2>1 DEF Init, Quiet, Closer
<1>2. QuietInv => CleanExit
  BY DEF QuietInv, Quiet, CleanExit
<1>3. QED
  BY <1>1, <1>2, QuietNext, PTL DEF Spec
=============================================================================
