------------------------------ MODULE Executor ------------------------------
(***************************************************************************)
(* internal/commands/shared/executor.go: RunAndCapture starts a command,   *)
(* copies its standard output and its standard error on two goroutines,    *)
(* and calls Wait at once.  Wait closes the reading ends of the pipes when *)
(* the process has exited, whether or not the goroutines have read         *)
(* everything.  Data is counted in chunks.                                 *)
(***************************************************************************)
EXTENDS Integers, Sequences

CONSTANTS
  MaxOutput,   \* bound on the chunks the command writes to each stream
  PipeSize     \* chunks a pipe holds before a writer blocks

ASSUME ExecutorAssumption == MaxOutput \in Nat /\ PipeSize \in Nat \ {0}

Stream == {"stdout", "stderr"}

VARIABLES
  runPc,       \* RunAndCapture: "start", "wait", "collect" or "returned"
  child,       \* the command: "none", "running", "ok" or "failed"
  wants,       \* what the command writes to each stream before it exits
  emitted,     \* what it has written
  pipe,        \* written and not yet read
  readable,    \* the reading ends are open
  copyPc,      \* the goroutines: "none", "copy" or "done"
  captured,    \* stdoutBuf and stderrBuf
  errCh,       \* the results of the two copies
  received,    \* how many of them were taken
  waitErr      \* "none", "start", "exit" or "pipe"

execVars == <<runPc, child, wants, emitted, pipe, readable, copyPc, captured, errCh,
              received, waitErr>>

Nothing == [s \in Stream |-> 0]

ExecInit ==
  /\ runPc = "start" /\ child = "none"
  /\ wants = Nothing /\ emitted = Nothing /\ pipe = Nothing /\ captured = Nothing
  /\ readable = FALSE /\ copyPc = [s \in Stream |-> "none"]
  /\ errCh = << >> /\ received = 0 /\ waitErr = "none"

-----------------------------------------------------------------------------
\* No command, no pipe, or a command that does not start: an error at once.
StartFails ==
  /\ runPc = "start"
  /\ runPc' = "returned" /\ waitErr' = "start"
  /\ UNCHANGED <<child, wants, emitted, pipe, readable, copyPc, captured, errCh, received>>

Started(copying) ==
  /\ runPc = "start"
  /\ child' = "running"
  /\ wants' \in [Stream -> 0..MaxOutput]
  /\ readable' = TRUE
  /\ copyPc' = [s \in Stream |-> IF s \in copying THEN "copy" ELSE "none"]
  /\ runPc' = "wait"
  /\ UNCHANGED <<emitted, pipe, captured, errCh, received, waitErr>>

\* Mutant: only the standard output is read while the command runs.
StartReadsOne == Started({"stdout"})

\* The command starts and both goroutines are made.
StartCommand == Started(Stream)

-----------------------------------------------------------------------------
\* The command writes, and blocks while the pipe is full.
ChildWrites(s) ==
  /\ child = "running"
  /\ emitted[s] < wants[s] /\ pipe[s] < PipeSize
  /\ emitted' = [emitted EXCEPT ![s] = @ + 1]
  /\ pipe' = [pipe EXCEPT ![s] = @ + 1]
  /\ UNCHANGED <<runPc, child, wants, readable, copyPc, captured, errCh, received, waitErr>>

ChildExits ==
  /\ child = "running" /\ emitted = wants
  /\ child' \in {"ok", "failed"}
  /\ UNCHANGED <<runPc, wants, emitted, pipe, readable, copyPc, captured, errCh, received,
                 waitErr>>

-----------------------------------------------------------------------------
\* io.Copy reads some of what the pipe holds.
CopyReads(s) ==
  /\ copyPc[s] = "copy" /\ readable
  /\ \E n \in 1..pipe[s] :
       /\ pipe' = [pipe EXCEPT ![s] = @ - n]
       /\ captured' = [captured EXCEPT ![s] = @ + n]
  /\ UNCHANGED <<runPc, child, wants, emitted, readable, copyPc, errCh, received, waitErr>>

\* It ends at the end of the data, once the writing end is closed, or with an
\* error when the reading end was closed under it; errCh holds both results.
CopyEnds(s) ==
  /\ copyPc[s] = "copy"
  /\ \/ /\ readable /\ pipe[s] = 0 /\ child \in {"ok", "failed"}
        /\ errCh' = Append(errCh, "eof")
     \/ /\ ~readable
        /\ errCh' = Append(errCh, "closed")
  /\ copyPc' = [copyPc EXCEPT ![s] = "done"]
  /\ UNCHANGED <<runPc, child, wants, emitted, pipe, readable, captured, received, waitErr>>

-----------------------------------------------------------------------------
\* Wait: the process has exited and the reading ends are closed.
WaitReturns ==
  /\ runPc = "wait" /\ child \in {"ok", "failed"}
  /\ readable' = FALSE
  /\ waitErr' = IF child = "ok" THEN "none" ELSE "exit"
  /\ runPc' = "collect"
  /\ UNCHANGED <<child, wants, emitted, pipe, copyPc, captured, errCh, received>>

\* Mutant: the results of the copies are taken and forgotten.
CollectForgets ==
  /\ runPc = "collect" /\ errCh # << >>
  /\ errCh' = Tail(errCh) /\ received' = received + 1
  /\ runPc' = IF received + 1 = 2 THEN "returned" ELSE "collect"
  /\ UNCHANGED <<waitErr, child, wants, emitted, pipe, readable, copyPc, captured>>

\* "Check pipe errors": the first one becomes the error of the call unless
\* the command failed anyway; after two results the buffers are returned.
CollectCopy ==
  /\ runPc = "collect" /\ errCh # << >>
  /\ errCh' = Tail(errCh) /\ received' = received + 1
  /\ waitErr' = IF Head(errCh) = "closed" /\ waitErr = "none" THEN "pipe" ELSE waitErr
  /\ runPc' = IF received + 1 = 2 THEN "returned" ELSE "collect"
  /\ UNCHANGED <<child, wants, emitted, pipe, readable, copyPc, captured>>

ExecDone == runPc = "returned" /\ UNCHANGED execVars

Child == (\E s \in Stream : ChildWrites(s)) \/ ChildExits
Copy(s) == CopyReads(s) \/ CopyEnds(s)
Run == StartFails \/ StartCommand \/ WaitReturns \/ CollectCopy

ExecNext == Run \/ Child \/ (\E s \in Stream : Copy(s)) \/ ExecDone

ExecSpec == ExecInit /\ [][ExecNext]_execVars

\* Goroutines that can run do, and so does the command.
ExecFairSpec ==
  /\ ExecSpec
  /\ WF_execVars(Run) /\ WF_execVars(Child)
  /\ \A s \in Stream : WF_execVars(Copy(s))

-----------------------------------------------------------------------------
\* A call without an error returns everything the command wrote, and the
\* command exited with code 0: the two copies, Wait and the closing of the
\* pipes may come in any order (RunAndCapture).
SuccessIsComplete ==
  runPc = "returned" /\ waitErr = "none" => captured = emitted /\ child = "ok"

\* "Returns combined stdout and stderr": everything a started command wrote.
OutputComplete == runPc = "returned" /\ child # "none" => captured = emitted

\* A command that exits when it has written its output is not blocked on one
\* stream while the other is read, and RunAndCapture returns.
CommandReturns == child = "running" ~> runPc = "returned"
=============================================================================
