------------------------- MODULE ConcurrencyProofs -------------------------
(***************************************************************************)
(* The small components that several goroutines share, for every value of  *)
(* their constants: the command executor, the session tracker, the rate    *)
(* limiter and the parallel layers.  They share no variable, so each part  *)
(* below stands by itself.                                                 *)
(***************************************************************************)
EXTENDS Executor, SessionTracker, RateLimiter, ParallelPipeline, DataLemmas

-----------------------------------------------------------------------------
(* The command executor.                                                   *)

Exited == child \in {"ok", "failed"}

ExecTypes ==
  /\ runPc \in {"start", "wait", "collect", "returned"}
  /\ child \in {"none", "running", "ok", "failed"}
  /\ wants \in [Stream -> Nat] /\ emitted \in [Stream -> Nat]
  /\ pipe \in [Stream -> Nat] /\ captured \in [Stream -> Nat]
  /\ readable \in BOOLEAN
  /\ copyPc \in [Stream -> {"none", "copy", "done"}]
  /\ errCh \in Seq({"eof", "closed"})
  /\ received \in Nat
  /\ waitErr \in {"none", "start", "exit", "pipe"}

\* What the command wrote is in a buffer or still in a pipe.
Conserved == \A s \in Stream : captured[s] + pipe[s] = emitted[s]

\* A copy ends only when the command has exited, so nothing comes after it;
\* what it left in the pipe is accounted for by an error that is queued or
\* that the call has already taken over.
LossIsReported ==
  \A s \in Stream : copyPc[s] = "done" =>
    /\ Exited
    /\ pipe[s] > 0 => (\E i \in DOMAIN errCh : errCh[i] = "closed") \/ waitErr # "none"

Ended(s) == IF copyPc[s] = "done" THEN 1 ELSE 0

\* One result for each copy that has ended, queued or taken.
ResultsCounted == Len(errCh) + received = Ended("stdout") + Ended("stderr")

\* How far RunAndCapture is, and what it knows of the command.
RunStage ==
  /\ runPc = "start" => child = "none" /\ waitErr = "none" /\ received = 0
  /\ runPc = "wait" => readable /\ waitErr = "none" /\ received = 0
  /\ child = "running" => readable
  /\ child = "none" => \A s \in Stream : copyPc[s] = "none"
  /\ runPc = "collect" => received < 2 /\ Exited
  /\ runPc \in {"collect", "returned"} /\ waitErr = "none" => child = "ok"
  /\ runPc = "returned" => received = 2 \/ waitErr = "start"

ExecInv == ExecTypes /\ Conserved /\ LossIsReported /\ ResultsCounted /\ RunStage

USE ExecutorAssumption DEF Stream

LEMMA ExecStart == ExecInit => ExecInv
<1> SUFFICES ASSUME ExecInit PROVE ExecInv
  OBVIOUS
<1>1. ExecTypes
  <2>1. Nothing \in [Stream -> Nat] /\ errCh \in Seq({"eof", "closed"}) /\ received \in Nat
    BY DEF ExecInit, Nothing
  <2>2. copyPc \in [Stream -> {"none", "copy", "done"}]
    BY DEF ExecInit
  <2>3. QED
    BY <2>1, <2>2, Zenon DEF ExecInit, ExecTypes
<1>2. Conserved /\ LossIsReported /\ RunStage
  BY DEF ExecInit, Conserved, LossIsReported, RunStage, Exited, Nothing
<1>3. ResultsCounted
  BY DEF ExecInit, ResultsCounted, Ended
<1>4. QED
  BY <1>1, <1>2, <1>3 DEF ExecInv

LEMMA ExecStep == ExecInv /\ [ExecNext]_execVars => ExecInv'
<1> SUFFICES ASSUME ExecInv, [ExecNext]_execVars PROVE ExecInv'
  OBVIOUS
<1> USE DEF ExecInv
<1>1. CASE StartFails
  BY <1>1 DEF StartFails, ExecTypes, Conserved, LossIsReported, ResultsCounted, RunStage, Ended, Exited
<1>2. CASE StartCommand
  <2> USE <1>2 DEF StartCommand, Started
  <2>1. \A s \in Stream : copyPc[s] # "done"
    BY DEF RunStage, LossIsReported, Exited
  <2>2. ExecTypes'
    BY DEF ExecTypes
  <2>3. Conserved' /\ LossIsReported'
    BY DEF Conserved, LossIsReported, ExecTypes
  <2>4. ResultsCounted' /\ RunStage'
    BY <2>1 DEF ResultsCounted, RunStage, Ended, Exited, ExecTypes
  <2>5. QED
    BY <2>2, <2>3, <2>4
<1>3. ASSUME NEW s \in Stream, ChildWrites(s) PROVE ExecInv'
  <2> USE <1>3 DEF ChildWrites
  <2>1. ExecTypes'
    BY SMTT(30) DEF ExecTypes
  <2>2. Conserved'
    BY DEF Conserved, ExecTypes
  <2>3. LossIsReported' /\ ResultsCounted' /\ RunStage'
    BY DEF LossIsReported, ResultsCounted, RunStage, Ended, Exited, ExecTypes
  <2>4. QED
    BY <2>1, <2>2, <2>3
<1>4. CASE ChildExits
  BY <1>4 DEF ChildExits, ExecTypes, Conserved, LossIsReported, ResultsCounted, RunStage, Ended, Exited
<1>5. ASSUME NEW s \in Stream, CopyReads(s) PROVE ExecInv'
  <2> USE <1>5 DEF CopyReads
  <2>1. PICK n \in 1..pipe[s] : /\ pipe' = [pipe EXCEPT ![s] = @ - n]
                                /\ captured' = [captured EXCEPT ![s] = @ + n]
    OBVIOUS
  <2>2. ExecTypes'
    BY <2>1, SMTT(30) DEF ExecTypes
  <2>3. Conserved'
    BY <2>1 DEF Conserved, ExecTypes
  <2>4. LossIsReported' /\ ResultsCounted' /\ RunStage'
    BY <2>1 DEF LossIsReported, ResultsCounted, RunStage, Ended, Exited, ExecTypes
  <2>5. QED
    BY <2>2, <2>3, <2>4
<1>6. ASSUME NEW s \in Stream, CopyEnds(s) PROVE ExecInv'
  <2> USE <1>6 DEF CopyEnds
  <2>1. PICK e \in {"eof", "closed"} :
          /\ errCh' = Append(errCh, e)
          /\ e = "eof" => readable /\ pipe[s] = 0 /\ Exited
          /\ e = "closed" => ~readable
    BY DEF Exited
  <2>2. /\ errCh' \in Seq({"eof", "closed"}) /\ Len(errCh') = Len(errCh) + 1
        /\ \A i \in DOMAIN errCh : i \in DOMAIN errCh' /\ errCh'[i] = errCh[i]
        /\ Len(errCh') \in DOMAIN errCh' /\ errCh'[Len(errCh')] = e
    BY <2>1, AppendProperties DEF ExecTypes
  <2>3. Exited
    BY <2>1 DEF RunStage, Exited, ExecTypes, LossIsReported
  <2>4. ExecTypes'
    BY <2>2 DEF ExecTypes
  <2>5. Conserved' /\ RunStage'
    BY DEF Conserved, RunStage, Exited
  <2>6. LossIsReported'
    BY <2>1, <2>2, <2>3 DEF LossIsReported, Exited, ExecTypes
  <2>7. ResultsCounted'
    BY <2>2 DEF ResultsCounted, Ended, ExecTypes
  <2>8. QED
    BY <2>4, <2>5, <2>6, <2>7
<1>7. CASE WaitReturns
  <2> USE <1>7 DEF WaitReturns
  <2>1. ExecTypes' /\ Conserved'
    BY DEF ExecTypes, Conserved
  <2>2. LossIsReported'
    BY DEF LossIsReported, RunStage, Exited, ExecTypes
  <2>3. ResultsCounted' /\ RunStage'
    BY DEF ResultsCounted, RunStage, Ended, Exited, ExecTypes
  <2>4. QED
    BY <2>1, <2>2, <2>3
<1>8. CASE CollectCopy
  <2> USE <1>8 DEF CollectCopy
  <2>1. /\ errCh' \in Seq({"eof", "closed"}) /\ Len(errCh') = Len(errCh) - 1
        /\ \A i \in DOMAIN errCh : i # 1 => i - 1 \in DOMAIN errCh' /\ errCh'[i - 1] = errCh[i]
        /\ Head(errCh) = errCh[1] /\ Head(errCh) \in {"eof", "closed"} /\ Len(errCh) \in Nat
    <3>1. errCh \in Seq({"eof", "closed"}) /\ errCh # << >> /\ errCh' = Tail(errCh)
      BY DEF ExecTypes
    <3>2. QED
      BY <3>1
  <2>2. ExecTypes'
    BY <2>1 DEF ExecTypes
  <2>3. Conserved'
    BY DEF Conserved
  <2>4. LossIsReported'
    BY <2>1, ZenonT(40) DEF LossIsReported, Exited, ExecTypes
  <2>5. ResultsCounted'
    BY <2>1 DEF ResultsCounted, Ended, ExecTypes
  <2>6. RunStage'
    BY DEF RunStage, Exited, ExecTypes
  <2>7. QED
    BY <2>2, <2>3, <2>4, <2>5, <2>6
<1>9. CASE UNCHANGED execVars
  BY <1>9 DEF execVars, ExecTypes, Conserved, LossIsReported, ResultsCounted, RunStage, Ended, Exited
<1>10. QED
  BY <1>1, <1>2, <1>3, <1>4, <1>5, <1>6, <1>7, <1>8, <1>9
    DEF ExecNext, Run, Child, Copy, ExecDone

\* A call that returns no error has taken the results of both copies and
\* none of them was "closed", so nothing is left in a pipe.
LEMMA CompleteOnSuccess == ExecInv => SuccessIsComplete
<1> SUFFICES ASSUME ExecInv, runPc = "returned", waitErr = "none"
             PROVE  captured = emitted /\ child = "ok"
  BY DEF SuccessIsComplete
<1> USE DEF ExecInv, ExecTypes
<1>1. received = 2 /\ child = "ok"
  BY DEF RunStage
<1>2. Len(errCh) = 0 /\ \A s \in Stream : copyPc[s] = "done"
  BY <1>1 DEF ResultsCounted, Ended
<1>3. \A s \in Stream : pipe[s] = 0
  BY <1>2 DEF LossIsReported
<1>4. captured = emitted
  BY <1>3 DEF Conserved
<1>5. QED
  BY <1>1, <1>4

\* Whatever the command writes, whatever a pipe holds and however Wait, the
\* closing of the pipes and the two copies interleave, RunAndCapture returns
\* no error only with the whole output of a command that exited with code 0.
THEOREM SuccessfulCaptureIsComplete == ExecSpec => []SuccessIsComplete
<1>1. ExecSpec => []ExecInv
  BY ExecStart, ExecStep, PTL DEF ExecSpec
<1>2. QED
  BY <1>1, CompleteOnSuccess, PTL
-----------------------------------------------------------------------------
(* The session tracker.                                                    *)

SessionTypes ==
  /\ DOMAIN seen \subseteq Hash /\ seen \in [DOMAIN seen -> Nat]
  /\ segments \in [Applier -> Seq(Segment)]
  /\ full \in [Hash -> Nat] /\ collapsed \in [Hash -> Nat]

\* The table never holds more than f.maxEntries hashes.
TableBounded == IsFiniteSet(DOMAIN seen) /\ Cardinality(DOMAIN seen) <= MaxEntries

SessionInv == SessionTypes /\ TableBounded /\ MarkerWasShown

LEMMA SessionStart == SessionInit => SessionInv
<1> SUFFICES ASSUME SessionInit PROVE SessionInv
  OBVIOUS
<1>1. DOMAIN seen = {} /\ seen \in [{} -> Nat]
  BY DEF SessionInit, NoHashes
<1>2. SessionTypes
  BY <1>1 DEF SessionInit, SessionTypes
<1>3. TableBounded
  BY <1>1, FS_EmptySet, SessionAssumption DEF TableBounded
<1>4. MarkerWasShown
  BY <1>1 DEF SessionInit, MarkerWasShown
<1>5. QED
  BY <1>2, <1>3, <1>4 DEF SessionInv

LEMMA SessionStep == SessionInv /\ [SessionNext]_sessionVars => SessionInv'
<1> SUFFICES ASSUME SessionInv, [SessionNext]_sessionVars PROVE SessionInv'
  OBVIOUS
<1> USE DEF SessionInv
<1>1. ASSUME NEW a \in Applier, SessionApply(a) PROVE SessionInv'
  <2>1. PICK n \in 1..MaxSegments : \E s \in [1..n -> Segment] :
          segments' = [segments EXCEPT ![a] = s]
    BY <1>1 DEF SessionApply
  <2>2. n \in Nat /\ [1..n -> Segment] \subseteq Seq(Segment)
    BY SessionAssumption
  <2>3. segments' \in [Applier -> Seq(Segment)]
    BY <2>1, <2>2 DEF SessionTypes
  <2>4. QED
    BY <1>1, <2>3 DEF SessionApply, SessionTypes, TableBounded, MarkerWasShown
<1>2. ASSUME NEW a \in Applier, processSegment(a) PROVE SessionInv'
  <2> DEFINE s == Head(segments[a])
             h == s.hash
  <2>0. MaxEntries \in Nat
    BY SessionAssumption
  <2>1. /\ segments[a] \in Seq(Segment) /\ segments[a] # << >>
        /\ s \in Segment /\ h \in Hash
    <3>1. segments[a] \in Seq(Segment) /\ segments[a] # << >>
      BY <1>2 DEF processSegment, SessionTypes
    <3>2. s \in Segment
      BY <3>1, HeadTailProperties
    <3>3. QED
      BY <3>1, <3>2 DEF Segment
  <2>2. segments' \in [Applier -> Seq(Segment)]
    <3>1. Tail(segments[a]) \in Seq(Segment)
      BY <2>1, HeadTailProperties
    <3>2. QED
      BY <1>2, <3>1 DEF processSegment, SessionTypes
  <2> HIDE DEF h, s
  <2>3. CASE h \in DOMAIN seen
    <3>1. seen' = [seen EXCEPT ![h] = @ + 1]
      BY <1>2, <2>3 DEF processSegment, Tracked, h, s
    <3>2. /\ DOMAIN seen' = DOMAIN seen /\ seen' \in [DOMAIN seen' -> Nat]
          /\ seen'[h] = seen[h] + 1 /\ seen[h] \in Nat
          /\ \A g \in DOMAIN seen : g # h => seen'[g] = seen[g]
      BY <3>1, <2>3 DEF SessionTypes
    <3>3. \/ /\ seen'[h] >= 3
             /\ collapsed' = [collapsed EXCEPT ![h] = @ + 1] /\ full' = full
          \/ /\ full' = [full EXCEPT ![h] = @ + 1] /\ collapsed' = collapsed
      BY <1>2, <2>3 DEF processSegment, Collapses, h, s
    <3>4. SessionTypes'
      <4>1. full' \in [Hash -> Nat] /\ collapsed' \in [Hash -> Nat]
        <5>1. /\ full \in [Hash -> Nat] /\ full[h] + 1 \in Nat
              /\ collapsed \in [Hash -> Nat] /\ collapsed[h] + 1 \in Nat
          BY <2>1 DEF SessionTypes
        <5>2. QED
          BY <3>3, <5>1
      <4>2. QED
        BY <2>2, <3>2, <4>1 DEF SessionTypes
    <3>5. TableBounded'
      BY <3>2 DEF TableBounded
    <3>6. MarkerWasShown'
      <4> SUFFICES ASSUME NEW g \in Hash
                   PROVE  /\ collapsed'[g] > 0 => full'[g] >= 2
                          /\ g \in DOMAIN seen' => seen'[g] = full'[g] + collapsed'[g]
                          /\ g \notin DOMAIN seen' /\ full'[g] + collapsed'[g] > 0 =>
                               Cardinality(DOMAIN seen') = MaxEntries
        BY DEF MarkerWasShown
      <4>1. CASE g = h
        <5>1. /\ seen[h] = full[h] + collapsed[h] /\ full[h] \in Nat /\ collapsed[h] \in Nat
              /\ collapsed[h] > 0 => full[h] >= 2
          BY <2>1, <2>3 DEF MarkerWasShown, SessionTypes
        <5>2. \/ seen'[h] >= 3 /\ collapsed'[h] = collapsed[h] + 1 /\ full'[h] = full[h]
              \/ full'[h] = full[h] + 1 /\ collapsed'[h] = collapsed[h]
          BY <2>1, <3>3 DEF SessionTypes
        <5>3. QED
          BY <2>3, <3>2, <4>1, <5>1, <5>2
      <4>2. CASE g # h
        <5>1. full'[g] = full[g] /\ collapsed'[g] = collapsed[g]
          BY <3>3, <4>2 DEF SessionTypes
        <5>2. QED
          BY <3>2, <4>2, <5>1 DEF MarkerWasShown
      <4>3. QED
        BY <4>1, <4>2
    <3>7. QED
      BY <3>4, <3>5, <3>6
  <2>4. CASE h \notin DOMAIN seen
    <3>1. full' = [full EXCEPT ![h] = @ + 1] /\ collapsed' = collapsed
      BY <1>2, <2>4 DEF processSegment, h, s
    <3>2. CASE Cardinality(DOMAIN seen) < MaxEntries
      <4>1. seen' = WithEntry(h)
        BY <1>2, <2>4, <3>2 DEF processSegment, Tracked, h, s
      <4>2. /\ DOMAIN seen' = DOMAIN seen \union {h} /\ seen' \in [DOMAIN seen' -> Nat]
            /\ seen'[h] = 1
            /\ \A g \in DOMAIN seen : seen'[g] = seen[g]
        BY <4>1, <2>4 DEF WithEntry, SessionTypes
      <4>3. /\ IsFiniteSet(DOMAIN seen')
            /\ Cardinality(DOMAIN seen') = Cardinality(DOMAIN seen) + 1
            /\ Cardinality(DOMAIN seen) \in Nat
        BY <4>2, <2>4, FS_AddElement, FS_CardinalityType DEF TableBounded
      <4>4. SessionTypes'
        BY <2>1, <2>2, <3>1, <4>2 DEF SessionTypes
      <4>5. TableBounded'
        BY <2>0, <3>2, <4>3 DEF TableBounded
      <4>6. \A g \in Hash : g \notin DOMAIN seen => full[g] = 0 /\ collapsed[g] = 0
        BY <2>0, <3>2, <4>3, SMTT(30) DEF MarkerWasShown, SessionTypes
      <4>7. MarkerWasShown'
        <5> SUFFICES ASSUME NEW g \in Hash
                     PROVE  /\ collapsed'[g] > 0 => full'[g] >= 2
                            /\ g \in DOMAIN seen' => seen'[g] = full'[g] + collapsed'[g]
                            /\ g \notin DOMAIN seen' /\ full'[g] + collapsed'[g] > 0 =>
                                 Cardinality(DOMAIN seen') = MaxEntries
          BY DEF MarkerWasShown
        <5>1. CASE g = h
          BY <2>1, <2>4, <3>1, <4>2, <4>6, <5>1 DEF SessionTypes
        <5>2. CASE g # h
          <6>1. full'[g] = full[g] /\ collapsed'[g] = collapsed[g]
            BY <3>1, <5>2 DEF SessionTypes
          <6>2. QED
            BY <4>2, <4>6, <5>2, <6>1 DEF MarkerWasShown
        <5>3. QED
          BY <5>1, <5>2
      <4>8. QED
        BY <4>4, <4>5, <4>7
    <3>3. CASE ~(Cardinality(DOMAIN seen) < MaxEntries)
      <4>1. seen' = seen
        BY <1>2, <2>4, <3>3 DEF processSegment, Tracked, h, s
      <4>2. Cardinality(DOMAIN seen) = MaxEntries
        BY <3>3, FS_CardinalityType, SessionAssumption DEF TableBounded
      <4>3. SessionTypes' /\ TableBounded'
        BY <2>1, <2>2, <3>1, <4>1 DEF SessionTypes, TableBounded
      <4>4. MarkerWasShown'
        BY <2>1, <2>4, <3>1, <4>1, <4>2 DEF MarkerWasShown, SessionTypes
      <4>5. QED
        BY <4>3, <4>4
    <3>4. QED
      BY <3>2, <3>3
  <2>5. QED
    BY <2>3, <2>4
<1>3. CASE SessionClear
  <2>1. DOMAIN seen' = {} /\ seen' \in [{} -> Nat]
    BY <1>3 DEF SessionClear, NoHashes
  <2>2. SessionTypes'
    BY <1>3, <2>1 DEF SessionClear, SessionTypes
  <2>3. TableBounded'
    BY <2>1, FS_EmptySet, SessionAssumption DEF TableBounded
  <2>4. MarkerWasShown'
    BY <1>3, <2>1 DEF SessionClear, MarkerWasShown
  <2>5. QED
    BY <2>2, <2>3, <2>4
<1>4. CASE UNCHANGED sessionVars
  BY <1>4 DEF sessionVars, SessionTypes, TableBounded, MarkerWasShown
<1>5. QED
  BY <1>1, <1>2, <1>3, <1>4 DEF SessionNext

\* For any number of concurrent calls, any limit of the table and any texts,
\* a marker stands for content that was passed on twice, and its count is
\* exact (processSegment, Clear).
THEOREM MarkersAreExact == SessionSpec => []MarkerWasShown
<1>1. SessionSpec => []SessionInv
  BY SessionStart, SessionStep, PTL DEF SessionSpec
<1>2. QED
  BY <1>1, PTL DEF SessionInv
-----------------------------------------------------------------------------
(* The rate limiter.  A client's served requests fall into windows that    *)
(* follow each other at a distance, and the invariant says where in the    *)
(* sequence of requests the current one and the one before begin.          *)

\* The first n of the times s are before t.
Before(s, n, t) == \A i \in 1..Len(s) : i <= n => s[i] < t

\* The last u requests lie in the window that began at from, the others
\* before it, and all but Requests of those a further window earlier.
InWindow(s, u, from) ==
  /\ u <= Len(s)
  /\ \A i \in 1..Len(s) : i > Len(s) - u => from <= s[i] /\ s[i] <= from + Window
  /\ Before(s, Len(s) - u, from)
  /\ Before(s, Len(s) - u - Requests, from - Window)

\* What lies before a window that begins at t.
Rested(s, t) == Before(s, Len(s), t) /\ Before(s, Len(s) - Requests, t - Window)

\* Two shares of requests last longer than a window.
Spread(s) ==
  \A i \in 1..Len(s) : \A j \in 1..Len(s) :
    j >= i + 2 * Requests => s[j] > s[i] + Window

NotLater(s, t) == \A i \in 1..Len(s) : s[i] <= t

\* Once a window has ended its requests have rested.
LEMMA RestedAfterWindow ==
  ASSUME NEW s \in Seq(Nat), NEW u \in Nat, u <= Requests, NEW from \in Nat, NEW t \in Nat,
         InWindow(s, u, from), t > from + Window
  PROVE  Rested(s, t)
<1> USE LimiterAssumption
<1>1. Len(s) \in Nat /\ \A i \in 1..Len(s) : s[i] \in Nat
  OBVIOUS
<1>2. \A i \in 1..Len(s) : s[i] <= from + Window
  BY <1>1, SMTT(30) DEF InWindow, Before
<1>3. \A i \in 1..Len(s) : i <= Len(s) - Requests => s[i] < from
  BY <1>1 DEF InWindow, Before
<1>4. QED
  BY <1>1, <1>2, <1>3, SMTT(30) DEF Rested, Before

LEMMA Appended ==
  ASSUME NEW s \in Seq(Nat), NEW t \in Nat
  PROVE  /\ Append(s, t) \in Seq(Nat) /\ Len(s) \in Nat /\ Len(Append(s, t)) = Len(s) + 1
         /\ \A i \in 1..Len(s) : s[i] \in Nat /\ Append(s, t)[i] = s[i]
         /\ Append(s, t)[Len(s) + 1] = t
  BY AppendProperties

\* The first request of a new window.
LEMMA WindowBegins ==
  ASSUME NEW s \in Seq(Nat), NEW t \in Nat, 1 <= Requests, Rested(s, t), Spread(s)
  PROVE  InWindow(Append(s, t), 1, t) /\ Spread(Append(s, t)) /\ NotLater(Append(s, t), t)
<1> USE LimiterAssumption
<1> DEFINE a == Append(s, t)
           n == Len(s)
<1>1. /\ n \in Nat /\ Len(a) = n + 1 /\ a[n + 1] = t
      /\ \A i \in 1..n : s[i] \in Nat /\ a[i] = s[i]
  BY Appended
<1>2. \A i \in 1..n : s[i] < t /\ (i <= n - Requests => s[i] < t - Window)
  BY <1>1 DEF Rested, Before
<1>3. \A i \in 1..n, j \in 1..n : j >= i + 2 * Requests => s[j] > s[i] + Window
  BY DEF Spread
<1> HIDE DEF a, n
<1>4. InWindow(a, 1, t) /\ NotLater(a, t)
  BY <1>1, <1>2 DEF InWindow, Before, NotLater
<1>5. Spread(a)
  <2> SUFFICES ASSUME NEW i \in 1..(n + 1), NEW j \in 1..(n + 1), j >= i + 2 * Requests
               PROVE  a[j] > a[i] + Window
    BY <1>1 DEF Spread
  <2>1. i \in 1..n
    BY <1>1
  <2>2. CASE j = n + 1
    BY <1>1, <1>2, <2>1, <2>2
  <2>3. CASE j \in 1..n
    BY <1>1, <1>3, <2>1, <2>3
  <2>4. QED
    BY <1>1, <2>2, <2>3
<1>6. QED
  BY <1>4, <1>5 DEF a

\* A further request of the same window.
LEMMA WindowGoesOn ==
  ASSUME NEW s \in Seq(Nat), NEW u \in Nat, u + 1 <= Requests, NEW from \in Nat,
         NEW t \in Nat, from <= t, t <= from + Window,
         InWindow(s, u, from), Spread(s), NotLater(s, t)
  PROVE  /\ InWindow(Append(s, t), u + 1, from) /\ Spread(Append(s, t))
         /\ NotLater(Append(s, t), t)
<1> USE LimiterAssumption
<1> DEFINE a == Append(s, t)
           n == Len(s)
<1>1. /\ n \in Nat /\ Len(a) = n + 1 /\ a[n + 1] = t /\ u <= n
      /\ \A i \in 1..n : s[i] \in Nat /\ a[i] = s[i]
  BY Appended DEF InWindow
<1>2. /\ \A i \in 1..n : i > n - u => from <= s[i] /\ s[i] <= from + Window
      /\ \A i \in 1..n : i <= n - u => s[i] < from
      /\ \A i \in 1..n : i <= n - u - Requests => s[i] < from - Window
      /\ \A i \in 1..n : s[i] <= t
  BY DEF InWindow, Before, NotLater
<1>3. \A i \in 1..n, j \in 1..n : j >= i + 2 * Requests => s[j] > s[i] + Window
  BY DEF Spread
<1> HIDE DEF a, n
<1>4. InWindow(a, u + 1, from) /\ NotLater(a, t)
  <2>1. /\ u + 1 <= n + 1
        /\ \A i \in 1..(n + 1) : i > n + 1 - (u + 1) => from <= a[i] /\ a[i] <= from + Window
    BY <1>1, <1>2, SMTT(30)
  <2>2. /\ \A i \in 1..(n + 1) : i <= n + 1 - (u + 1) => a[i] < from
        /\ \A i \in 1..(n + 1) : i <= n + 1 - (u + 1) - Requests => a[i] < from - Window
    BY <1>1, <1>2
  <2>3. \A i \in 1..(n + 1) : a[i] <= t
    BY <1>1, <1>2
  <2>4. QED
    BY <1>1, <2>1, <2>2, <2>3 DEF InWindow, Before, NotLater
<1>5. Spread(a)
  <2> SUFFICES ASSUME NEW i \in 1..(n + 1), NEW j \in 1..(n + 1), j >= i + 2 * Requests
               PROVE  a[j] > a[i] + Window
    BY <1>1 DEF Spread
  <2>1. i \in 1..n
    BY <1>1
  <2>2. CASE j = n + 1
    BY <1>1, <1>2, <2>1, <2>2
  <2>3. CASE j \in 1..n
    BY <1>1, <1>3, <2>1, <2>3
  <2>4. QED
    BY <1>1, <2>2, <2>3
<1>6. QED
  BY <1>4, <1>5 DEF a

\* Time passes.
LEMMA StaysRested ==
  ASSUME NEW s \in Seq(Nat), NEW t \in Nat, NEW v \in Nat, t <= v
  PROVE  (Rested(s, t) => Rested(s, v)) /\ (NotLater(s, t) => NotLater(s, v))
<1>1. Len(s) \in Nat /\ (\A i \in 1..Len(s) : s[i] \in Nat) /\ Window \in Nat /\ Requests \in Nat
  BY LimiterAssumption
<1>2. QED
  BY <1>1 DEF Rested, NotLater, Before

-----------------------------------------------------------------------------
LimiterTypes ==
  /\ time \in Nat
  /\ clients \in [Client -> [count : Nat, resetAt : Int]]
  /\ served \in [Client -> Seq(Nat)]
  /\ refused \subseteq Client

\* The requests of the current window that were let through.
Used(e) == IF e.count <= Requests THEN e.count ELSE Requests

Start(e) == e.resetAt - Window

\* What holds of one client, from its entry and its requests.
ClientInv(e, s) ==
  /\ IF e = Unknown
       THEN Rested(s, time)
       ELSE Start(e) \in Nat /\ Start(e) <= time /\ InWindow(s, Used(e), Start(e))
  /\ Spread(s) /\ NotLater(s, time)

RefusedInv ==
  \A c \in refused :
    /\ clients[c] # Unknown /\ Used(clients[c]) = Requests
    /\ time <= clients[c].resetAt

LimiterInv ==
  /\ LimiterTypes
  /\ \A c \in Client : ClientInv(clients[c], served[c])
  /\ RefusedInv

LEMMA LimiterStart == LimiterInit => LimiterInv
<1> SUFFICES ASSUME LimiterInit PROVE LimiterInv
  OBVIOUS
<1>1. LimiterTypes
  BY DEF LimiterInit, LimiterTypes, Unknown, NoClient
<1>2. ASSUME NEW c \in Client PROVE ClientInv(clients[c], served[c])
  BY DEF LimiterInit, ClientInv, Rested, Before, Spread, NotLater
<1>3. RefusedInv
  BY DEF LimiterInit, RefusedInv, NoClient
<1>4. QED
  BY <1>1, <1>2, <1>3 DEF LimiterInv

LEMMA EntryTypes ==
  ASSUME NEW e \in [count : Nat, resetAt : Int]
  PROVE  /\ e.count \in Nat /\ e.resetAt \in Int /\ Start(e) \in Int
         /\ Used(e) \in Nat /\ Used(e) <= Requests /\ e.resetAt = Start(e) + Window
  BY LimiterAssumption DEF Used, Start

LEMMA RestedWhenEnded ==
  ASSUME NEW e \in [count : Nat, resetAt : Int], NEW s \in Seq(Nat), time \in Nat,
         ClientInv(e, s), time > e.resetAt
  PROVE  Rested(s, time)
<1>1. CASE e = Unknown
  BY <1>1 DEF ClientInv
<1>2. CASE e # Unknown
  <2>1. Start(e) \in Nat /\ InWindow(s, Used(e), Start(e))
    BY <1>2 DEF ClientInv
  <2>2. Used(e) \in Nat /\ Used(e) <= Requests /\ time > Start(e) + Window
    BY EntryTypes
  <2>3. QED
    BY <2>1, <2>2, RestedAfterWindow
<1>3. QED
  BY <1>1, <1>2

\* What a request makes of its client's entry and requests.
LEMMA RequestKeepsClient ==
  ASSUME LimiterInv, NEW c \in Client
  PROVE  /\ Entry(c) \in [count : Nat, resetAt : Int]
         /\ Entry(c).count <= Requests => ClientInv(Entry(c), Append(served[c], time))
         /\ ~(Entry(c).count <= Requests) =>
              /\ ClientInv(Entry(c), served[c])
              /\ Entry(c) # Unknown /\ Used(Entry(c)) = Requests /\ time <= Entry(c).resetAt
<1> DEFINE e == clients[c]
           f == Entry(c)
           s == served[c]
<1>1. /\ e \in [count : Nat, resetAt : Int] /\ s \in Seq(Nat) /\ time \in Nat
      /\ ClientInv(e, s) /\ Requests \in Nat /\ Window \in Nat
  BY LimiterAssumption DEF LimiterInv, LimiterTypes
<1>2. CASE time > e.resetAt
  <2>1. f = [count |-> 1, resetAt |-> time + Window]
    BY <1>2 DEF Entry
  <2>2. /\ f.count = 1 /\ f.resetAt = time + Window /\ f \in [count : Nat, resetAt : Int]
        /\ Start(f) = time /\ f # Unknown
    BY <1>1, <2>1 DEF Start, Unknown
  <2>3. Rested(s, time) /\ Spread(s) /\ NotLater(s, time)
    BY <1>1, <1>2, RestedWhenEnded DEF ClientInv
  <2> HIDE DEF e, f, s
  <2>4. CASE 1 <= Requests
    <3>1. Used(f) = 1
      BY <2>2, <2>4 DEF Used
    <3>2. InWindow(Append(s, time), 1, time) /\ Spread(Append(s, time))
            /\ NotLater(Append(s, time), time)
      BY <1>1, <2>3, <2>4, WindowBegins
    <3>3. ClientInv(f, Append(s, time))
      BY <1>1, <2>2, <3>1, <3>2 DEF ClientInv
    <3>4. QED
      BY <2>2, <2>4, <3>3 DEF e, f, s
  <2>5. CASE Requests = 0
    <3>1. Used(f) = 0
      BY <2>2, <2>5 DEF Used
    <3>2. InWindow(s, 0, time)
      <4>1. Len(s) \in Nat /\ Len(s) - 0 = Len(s) /\ Len(s) - 0 - Requests = Len(s) - Requests
        BY <1>1, <2>5
      <4>2. QED
        BY <2>3, <4>1 DEF InWindow, Rested, Before
    <3>3. ClientInv(f, s)
      BY <1>1, <2>2, <2>3, <3>1, <3>2 DEF ClientInv
    <3>4. time <= f.resetAt
      BY <1>1, <2>2
    <3>5. QED
      BY <2>2, <2>5, <3>1, <3>3, <3>4 DEF e, f, s
  <2>6. QED
    BY <1>1, <2>4, <2>5
<1>3. CASE ~(time > e.resetAt)
  <2>1. f = [e EXCEPT !.count = @ + 1]
    BY <1>3 DEF Entry
  <2>2. /\ f.count = e.count + 1 /\ f.resetAt = e.resetAt /\ f \in [count : Nat, resetAt : Int]
        /\ e.count \in Nat /\ e.resetAt \in Int
    BY <1>1, <2>1
  <2>3. e # Unknown /\ f # Unknown /\ Start(f) = Start(e) /\ time <= e.resetAt
    BY <1>1, <1>3, <2>2 DEF Unknown, Start
  <2>4. /\ Start(e) \in Nat /\ Start(e) <= time /\ InWindow(s, Used(e), Start(e))
        /\ Spread(s) /\ NotLater(s, time) /\ time <= Start(e) + Window
    BY <1>1, <2>2, <2>3, EntryTypes DEF ClientInv
  <2> HIDE DEF e, f, s
  <2>5. CASE f.count <= Requests
    <3>1. Used(e) = e.count /\ Used(f) = e.count + 1 /\ e.count + 1 <= Requests
      BY <1>1, <2>2, <2>5 DEF Used
    <3>2. /\ InWindow(Append(s, time), e.count + 1, Start(e)) /\ Spread(Append(s, time))
          /\ NotLater(Append(s, time), time)
      BY <1>1, <2>2, <2>4, <3>1, WindowGoesOn
    <3>3. ClientInv(f, Append(s, time))
      BY <2>3, <2>4, <3>1, <3>2 DEF ClientInv
    <3>4. QED
      BY <2>2, <2>5, <3>3 DEF e, f, s
  <2>6. CASE ~(f.count <= Requests)
    <3>1. Used(f) = Requests /\ Used(e) = Requests
      BY <1>1, <2>2, <2>6 DEF Used
    <3>2. ClientInv(f, s)
      BY <2>3, <2>4, <3>1 DEF ClientInv
    <3>3. QED
      BY <2>2, <2>3, <2>6, <3>1, <3>2 DEF e, f, s
  <2>7. QED
    BY <2>5, <2>6
<1>4. QED
  BY <1>2, <1>3

LEMMA MiddlewareKeeps ==
  ASSUME LimiterInv, NEW c \in Client, Middleware(c)
  PROVE  LimiterInv'
<1>1. /\ time' = time /\ time \in Nat
      /\ clients' \in [Client -> [count : Nat, resetAt : Int]] /\ clients'[c] = Entry(c)
      /\ \A d \in Client : d # c => clients'[d] = clients[d]
  BY RequestKeepsClient DEF Middleware, LimiterInv, LimiterTypes
<1>2. \A d \in Client : ClientInv(clients[d], served[d])
  BY DEF LimiterInv
<1>3. CASE Entry(c).count <= Requests
  <2>1. served' = [served EXCEPT ![c] = Append(@, time)] /\ refused' = {}
    BY <1>3 DEF Middleware, NoClient
  <2>2. Append(served[c], time) \in Seq(Nat)
    BY <1>1 DEF LimiterInv, LimiterTypes
  <2>3. /\ served' \in [Client -> Seq(Nat)] /\ served'[c] = Append(served[c], time)
        /\ \A d \in Client : d # c => served'[d] = served[d]
    BY <2>1, <2>2 DEF LimiterInv, LimiterTypes
  <2>4. LimiterTypes'
    BY <1>1, <2>1, <2>3 DEF LimiterTypes
  <2>5. ASSUME NEW d \in Client PROVE ClientInv(clients'[d], served'[d])
    <3>1. CASE d = c
      BY <1>1, <1>3, <2>3, <3>1, RequestKeepsClient
    <3>2. CASE d # c
      BY <1>1, <1>2, <2>3, <3>2
    <3>3. QED
      BY <3>1, <3>2
  <2>6. QED
    BY <1>1, <2>1, <2>4, <2>5 DEF LimiterInv, RefusedInv, ClientInv
<1>4. CASE ~(Entry(c).count <= Requests)
  <2>1. served' = served /\ refused' = {c}
    BY <1>4 DEF Middleware
  <2>2. LimiterTypes'
    BY <1>1, <2>1 DEF LimiterInv, LimiterTypes
  <2>3. ASSUME NEW d \in Client PROVE ClientInv(clients'[d], served'[d])
    <3>1. CASE d = c
      BY <1>1, <1>4, <2>1, <3>1, RequestKeepsClient
    <3>2. CASE d # c
      BY <1>1, <1>2, <2>1, <3>2
    <3>3. QED
      BY <3>1, <3>2
  <2>4. RefusedInv'
    BY <1>1, <1>4, <2>1, RequestKeepsClient DEF RefusedInv
  <2>5. QED
    BY <1>1, <2>2, <2>3, <2>4 DEF LimiterInv, ClientInv
<1>5. QED
  BY <1>3, <1>4

LEMMA LimiterStep == LimiterInv /\ [LimiterNext]_limiterVars => LimiterInv'
<1> SUFFICES ASSUME LimiterInv, [LimiterNext]_limiterVars PROVE LimiterInv'
  OBVIOUS
<1> USE DEF LimiterInv
<1>1. CASE Cleanup
  <2>1. served' = served /\ time' = time /\ refused' = {}
    BY <1>1 DEF Cleanup, NoClient
  <2>2. \A c \in Client :
          clients'[c] = IF time > clients[c].resetAt THEN Unknown ELSE clients[c]
    BY <1>1 DEF Cleanup
  <2>3. LimiterTypes'
    BY <1>1, <2>1 DEF Cleanup, LimiterTypes, Unknown
  <2>4. ASSUME NEW c \in Client PROVE ClientInv(clients'[c], served[c])
    <3>1. CASE time > clients[c].resetAt
      <4>1. Rested(served[c], time)
        BY <3>1, RestedWhenEnded DEF LimiterTypes
      <4>2. QED
        BY <2>2, <3>1, <4>1 DEF ClientInv
    <3>2. CASE ~(time > clients[c].resetAt)
      BY <2>2, <3>2
    <3>3. QED
      BY <3>1, <3>2
  <2>5. QED
    BY <2>1, <2>3, <2>4 DEF RefusedInv, ClientInv
<1>2. CASE LimiterTick
  <2>1. /\ served' = served /\ clients' = clients /\ refused' = {}
        /\ time \in Nat /\ time' \in Nat /\ time <= time'
    BY <1>2 DEF LimiterTick, NoClient, LimiterTypes
  <2>2. LimiterTypes'
    BY <2>1 DEF LimiterTypes
  <2>3. ASSUME NEW c \in Client PROVE ClientInv(clients[c], served[c])'
    <3>1. /\ Rested(served[c], time) => Rested(served[c], time')
          /\ NotLater(served[c], time) => NotLater(served[c], time')
      BY <2>1, StaysRested DEF LimiterTypes
    <3>2. Start(clients[c]) \in Nat /\ Start(clients[c]) <= time => Start(clients[c]) <= time'
      BY <2>1
    <3>3. QED
      BY <2>1, <3>1, <3>2 DEF ClientInv
  <2>4. QED
    BY <2>1, <2>2, <2>3 DEF RefusedInv
<1>3. CASE UNCHANGED limiterVars
  BY <1>3 DEF limiterVars, LimiterTypes, ClientInv, RefusedInv
<1>4. QED
  BY <1>1, <1>2, <1>3, MiddlewareKeeps DEF LimiterNext, LimiterSpent

\* A set of numbers less than m apart has at most m members.
LEMMA CloseTogether ==
  ASSUME NEW m \in Nat, NEW S \in SUBSET Nat, IsFiniteSet(S),
         \A i \in S : \A j \in S : j < i + m
  PROVE  Cardinality(S) <= m
<1>1. CASE S = {}
  BY <1>1, FS_EmptySet
<1>2. CASE S # {}
  <2> DEFINE Less == {p \in Nat \X Nat : p[1] < p[2]}
  <2>1. IsWellFoundedOn(Less, Nat)
    BY NatLessThanWellFounded DEF OpToRel
  <2>2. PICK a \in S : \A b \in S : a <= b
    <3>1. \E a \in S : \A b \in S : ~(<<b, a>> \in Less)
      <4> HIDE DEF Less
      <4>1. QED
        BY <1>2, <2>1, WFMin
    <3>2. \A x, y \in Nat : x < y => <<x, y>> \in Less
      OBVIOUS
    <3> HIDE DEF Less
    <3>3. PICK a \in S : \A b \in S : ~(<<b, a>> \in Less)
      BY <3>1
    <3>4. ASSUME NEW b \in S PROVE a <= b
      <4>1. a \in Nat /\ b \in Nat
        OBVIOUS
      <4>2. ~(b < a)
        BY <3>2, <3>3, <4>1
      <4>3. QED
        BY <4>1, <4>2
    <3>5. QED
      BY <3>4
  <2>3. S \subseteq a..(a + m - 1)
    BY <2>2
  <2>4. m > 0
    BY <2>2
  <2>5. IsFiniteSet(a..(a + m - 1)) /\ Cardinality(a..(a + m - 1)) = m
    BY <2>4, FS_Interval
  <2>6. QED
    BY <2>3, <2>5, FS_Subset
<1>3. QED
  BY <1>1, <1>2

LEMMA ShareFromInv == LimiterInv => ShareIsKept
<1> SUFFICES ASSUME LimiterInv PROVE ShareIsKept
  OBVIOUS
<1> USE DEF LimiterInv
<1>0. /\ time \in Nat /\ Requests \in Nat /\ Window \in Nat
      /\ \A c \in Client : served[c] \in Seq(Nat)
  BY LimiterAssumption DEF LimiterTypes
<1>1. ASSUME NEW c \in Client, NEW from \in Int, NEW to \in Int
      PROVE  ServedIn(c, from, to) \in SUBSET Nat /\ IsFiniteSet(ServedIn(c, from, to))
  <2>1. ServedIn(c, from, to) \subseteq 1..Len(served[c]) /\ Len(served[c]) \in Nat
    BY <1>0 DEF ServedIn
  <2>2. IsFiniteSet(1..Len(served[c])) /\ 1..Len(served[c]) \subseteq Nat
    BY <2>1, FS_Interval, SMTT(30)
  <2>3. QED
    BY <2>1, <2>2, FS_Subset
<1>2. ASSUME NEW c \in Client, NEW from \in 0..time
      PROVE  Cardinality(ServedIn(c, from, from + Window)) <= 2 * Requests
  <2> DEFINE s == served[c]
             S == ServedIn(c, from, from + Window)
  <2>1. /\ \A i \in S : i \in 1..Len(s) /\ s[i] \in Nat /\ from <= s[i] /\ s[i] <= from + Window
        /\ from \in Nat /\ Len(s) \in Nat
    BY <1>0 DEF ServedIn
  <2>2. \A i \in 1..Len(s), j \in 1..Len(s) : j >= i + 2 * Requests => s[j] > s[i] + Window
    BY DEF ClientInv, Spread
  <2>3. S \in SUBSET Nat /\ IsFiniteSet(S) /\ 2 * Requests \in Nat
    BY <1>0, <1>1, <2>1
  <2> HIDE DEF S, s
  <2>4. \A i \in S : \A j \in S : j < i + 2 * Requests
    BY <1>0, <2>1, <2>2
  <2>5. Cardinality(S) <= 2 * Requests
    BY <2>3, <2>4, CloseTogether
  <2>6. QED
    BY <2>5 DEF S
<1>3. ASSUME NEW c \in refused
      PROVE  Cardinality(ServedIn(c, time - Window, time)) >= Requests
  <2> DEFINE s == served[c]
             n == Len(s)
             e == clients[c]
             T == (n - Requests + 1)..n
  <2>1. c \in Client /\ s \in Seq(Nat) /\ n \in Nat /\ e \in [count : Nat, resetAt : Int]
    BY <1>0, <1>3 DEF LimiterTypes
  <2>2. /\ InWindow(s, Requests, Start(e)) /\ NotLater(s, time)
        /\ Start(e) \in Nat /\ time <= Start(e) + Window
    BY <1>3, <2>1, EntryTypes DEF RefusedInv, ClientInv
  <2>3. Requests <= n /\ \A i \in T : i \in 1..n /\ s[i] \in Nat /\ Start(e) <= s[i] /\ s[i] <= time
    <3>1. /\ Requests <= n /\ \A i \in 1..n : s[i] \in Nat /\ s[i] <= time
          /\ \A i \in 1..n : i > n - Requests => Start(e) <= s[i]
      BY <2>1, <2>2 DEF InWindow, NotLater
    <3> HIDE DEF n, s, e
    <3>2. \A i \in T : i \in 1..n /\ i > n - Requests
      BY <1>0, <2>1, <3>1
    <3> HIDE DEF T
    <3>3. QED
      BY <3>1, <3>2
  <2>4. T \subseteq ServedIn(c, time - Window, time)
    <3>1. \A i \in T : s[i] \in (time - Window)..time
      <4> HIDE DEF n, s, e
      <4>1. QED
        BY <1>0, <2>1, <2>2, <2>3
    <3>2. QED
      BY <2>1, <2>3, <3>1 DEF ServedIn
  <2>5. Cardinality(T) = Requests
    <3> HIDE DEF n
    <3>1. QED
      BY <1>0, <2>1, <2>3, FS_Interval
  <2> HIDE DEF T
  <2>6. time - Window \in Int
    BY <1>0
  <2>7. QED
    BY <1>0, <1>1, <2>1, <2>4, <2>5, <2>6, FS_Subset, FS_CardinalityType
<1>4. QED
  BY <1>2, <1>3 DEF ShareIsKept

\* For any number of clients, any limit and window, and any order of
\* requests, clean-ups and ticks, a client gets at most twice its share in a
\* window wherever it lies, and is refused only when its share was used.
THEOREM LimiterKeepsShare == LimiterSpec => []ShareIsKept
<1>1. LimiterSpec => []LimiterInv
  BY LimiterStart, LimiterStep, PTL DEF LimiterSpec
<1>2. QED
  BY <1>1, ShareFromInv, PTL

-----------------------------------------------------------------------------
(* The parallel layers.                                                    *)

\* The layers of a group, what the first n groups contribute to the output,
\* and what the current one has contributed so far.
Of(g) == Range(Groups[g].layers)
WorkOfFirst(n) == FlattenSeq([g \in 1..n |-> WorkOf(g)])
WorkSoFar ==
  IF Sequential(groupNo) THEN SubSeq(ActiveOf(groupNo), 1, nextLayer - 1)
  ELSE IF nextLayer = 1 THEN << >> ELSE WorkOf(groupNo)

ParTypes ==
  /\ parPc \in {"group", "parallel", "exit", "done"}
  /\ groupNo \in DOMAIN Groups /\ nextLayer \in 1..(Len(ActiveOf(groupNo)) + 1)
  /\ active \in SUBSET Layer
  /\ parText \in Seq(Layer)
  /\ returned \in SUBSET Layer
  /\ result \in [Layer -> [saved : Int, empty : BOOLEAN]]
  /\ runningSaved \in Int

ParPlace ==
  /\ parPc = "parallel" => ~Sequential(groupNo) /\ nextLayer = 1
  /\ parPc = "group" /\ ~Sequential(groupNo) =>
       nextLayer \in {1, Len(ActiveOf(groupNo)) + 1}
  /\ parPc \in {"exit", "done"} => nextLayer = Len(ActiveOf(groupNo)) + 1

\* No layer runs before its turn.
ParFresh ==
  /\ \A g \in DOMAIN Groups : g > groupNo => \A l \in Of(g) : l \notin returned
  /\ parPc = "group" /\ Sequential(groupNo) =>
       \A i \in nextLayer..Len(ActiveOf(groupNo)) : ActiveOf(groupNo)[i] \notin returned

\* What is in the text ran, in an earlier group or earlier in this one.
ParRan ==
  \A l \in Range(parText) :
    /\ l \in returned
    /\ \/ \E g \in 1..(groupNo - 1) : l \in Of(g)
       \/ \E i \in 1..(nextLayer - 1) : l = ActiveOf(groupNo)[i]

ParInv ==
  /\ ParTypes /\ ParPlace /\ ParFresh /\ ParRan
  /\ parText = WorkOfFirst(groupNo - 1) \o WorkSoFar

LEMMA GroupTypes ==
  /\ Len(Groups) \in Nat /\ 1 \in DOMAIN Groups /\ DOMAIN Groups = 1..Len(Groups)
  /\ \A g \in DOMAIN Groups :
       /\ Groups[g].layers \in Seq(Layer) /\ IsInjective(Groups[g].layers)
       /\ Groups[g].parallel \in BOOLEAN /\ Groups[g].gate \in BOOLEAN
       /\ Of(g) \subseteq Layer
       /\ \A h \in DOMAIN Groups : g # h => Of(g) \intersect Of(h) = {}
<1> DEFINE R == [parallel : BOOLEAN, gate : BOOLEAN, layers : Seq(Layer)]
<1>1. Groups \in Seq(R) /\ Groups # << >>
  BY ParallelAssumption
<1>2. Len(Groups) \in Nat /\ 1 \in DOMAIN Groups /\ DOMAIN Groups = 1..Len(Groups)
  <2> HIDE DEF R
  <2> QED
    BY <1>1, EmptySeq, LenProperties
<1>3. ASSUME NEW g \in DOMAIN Groups PROVE Groups[g] \in R
  <2> HIDE DEF R
  <2> QED
    BY <1>1, <1>2, <1>3, ElementOfSeq
<1>4. \A g \in DOMAIN Groups : Of(g) \subseteq Layer
  BY DEF Of, Layer
<1> QED
  BY <1>2, <1>3, <1>4, ParallelAssumption DEF Of

\* The active layers of a group are layers of it, each once; what it
\* contributes consists of them.
LEMMA ActiveTypes ==
  ASSUME NEW g \in DOMAIN Groups
  PROVE  /\ ActiveOf(g) \in Seq(Layer) /\ Len(ActiveOf(g)) \in Nat
         /\ \A i \in 1..Len(ActiveOf(g)) : ActiveOf(g)[i] \in Of(g) /\ ActiveOf(g)[i] \in Layer
         /\ \A i, j \in 1..Len(ActiveOf(g)) : ActiveOf(g)[i] = ActiveOf(g)[j] => i = j
         /\ Savers(g) \in Seq(Layer) /\ WorkOf(g) \in Seq(Layer)
         /\ \A l \in Range(ActiveOf(g)) : \E i \in 1..Len(ActiveOf(g)) : l = ActiveOf(g)[i]
         /\ Savers(g) # << >> => Last(Savers(g)) \in Range(ActiveOf(g))
<1>1. /\ ActiveOf(g) \in Seq(Layer) /\ Range(ActiveOf(g)) = Of(g) \intersect active
      /\ IsInjective(ActiveOf(g))
  BY GroupTypes, SelectedProperties DEF ActiveOf, Of
<1>2. Len(ActiveOf(g)) \in Nat /\ DOMAIN ActiveOf(g) = 1..Len(ActiveOf(g))
  BY <1>1
<1>3. \A i \in 1..Len(ActiveOf(g)) : ActiveOf(g)[i] \in Of(g) /\ ActiveOf(g)[i] \in Layer
  BY <1>1, <1>2, GroupTypes, RangeProperties
<1>4. \A i, j \in 1..Len(ActiveOf(g)) : ActiveOf(g)[i] = ActiveOf(g)[j] => i = j
  BY <1>1, <1>2 DEF IsInjective
<1>5. Savers(g) \in Seq(Layer) /\ Range(Savers(g)) \subseteq Range(ActiveOf(g))
  BY <1>1, SelectedProperties DEF Savers
<1>6. ASSUME Savers(g) # << >>
      PROVE  Last(Savers(g)) \in Range(ActiveOf(g)) /\ Last(Savers(g)) \in Layer
  <2>1. Len(Savers(g)) \in 1..Len(Savers(g))
    BY <1>5, <1>6, EmptySeq, LenProperties
  <2>2. Savers(g)[Len(Savers(g))] \in Range(Savers(g))
    BY <1>5, <2>1, RangeProperties
  <2> QED
    BY <1>1, <1>5, <2>2, RangeProperties DEF Last
<1>7. WorkOf(g) \in Seq(Layer)
  <2>1. CASE Sequential(g)
    BY <1>1, <2>1 DEF WorkOf
  <2>2. CASE ~Sequential(g) /\ Savers(g) = << >>
    BY <2>2 DEF WorkOf
  <2>3. CASE ~Sequential(g) /\ Savers(g) # << >>
    <3>1. WorkOf(g) = <<Last(Savers(g))>>
      BY <2>3 DEF WorkOf
    <3> QED
      BY <1>6, <2>3, <3>1
  <2> QED
    BY <2>1, <2>2, <2>3
<1>8. \A l \in Range(ActiveOf(g)) : \E i \in 1..Len(ActiveOf(g)) : l = ActiveOf(g)[i]
  BY <1>2 DEF Range
<1> QED
  BY <1>1, <1>2, <1>3, <1>4, <1>5, <1>6, <1>7, <1>8

\* What a group contributes depends on its own layers only.
LEMMA WorkIsStable ==
  ASSUME NEW g \in DOMAIN Groups, active' = active, \A l \in Of(g) : result'[l] = result[l]
  PROVE  WorkOf(g)' = WorkOf(g)
<1>1. ActiveOf(g)' = ActiveOf(g) /\ Sequential(g)' = Sequential(g)
  BY DEF ActiveOf, Sequential
<1>2. ActiveOf(g) \in Seq(Layer) /\ Range(ActiveOf(g)) \subseteq Of(g)
  BY ActiveTypes
<1> DEFINE S == {l \in Layer : result[l].saved > 0 /\ ~result[l].empty}
           T == {l \in Layer : result'[l].saved > 0 /\ ~result'[l].empty}
<1>3. Range(ActiveOf(g)) \intersect S = Range(ActiveOf(g)) \intersect T
  BY <1>2
<1>4. Savers(g) = Selected(ActiveOf(g), S) /\ Savers(g)' = Selected(ActiveOf(g), T)
  BY <1>1 DEF Savers
<1>5. Savers(g)' = Savers(g)
  <2> HIDE DEF S, T
  <2> QED
    BY <1>2, <1>3, <1>4, SelectedAgrees
<1> QED
  BY <1>1, <1>5 DEF WorkOf

LEMMA FirstWorkIsStable ==
  ASSUME NEW n \in 0..Len(Groups), active' = active,
         \A g \in 1..n : \A l \in Of(g) : result'[l] = result[l]
  PROVE  WorkOfFirst(n)' = WorkOfFirst(n)
<1>1. \A g \in 1..n : g \in DOMAIN Groups
  BY GroupTypes
<1>2. \A g \in 1..n : WorkOf(g)' = WorkOf(g)
  BY <1>1, WorkIsStable
<1> QED
  BY <1>2 DEF WorkOfFirst

\* One group more.
LEMMA WorkOfNext ==
  ASSUME NEW n \in DOMAIN Groups
  PROVE  /\ WorkOfFirst(n - 1) \in Seq(Layer)
         /\ WorkOfFirst(n) = WorkOfFirst(n - 1) \o WorkOf(n)
<1> DEFINE ws == [g \in 1..(n - 1) |-> WorkOf(g)]
           vs == [g \in 1..n |-> WorkOf(g)]
<1>1. n \in Nat /\ n >= 1 /\ \A g \in 1..n : g \in DOMAIN Groups
  BY GroupTypes
<1>2. \A g \in 1..n : WorkOf(g) \in Seq(Layer)
  BY <1>1, ActiveTypes
<1>3. ws \in Seq(Seq(Layer)) /\ Len(ws) = n - 1 /\ \A g \in 1..(n - 1) : ws[g] = WorkOf(g)
  BY <1>1, <1>2
<1>4. vs \in Seq(Seq(Layer)) /\ Len(vs) = n /\ \A g \in 1..n : vs[g] = WorkOf(g)
  BY <1>1, <1>2
<1>5. WorkOfFirst(n - 1) = FlattenSeq(ws) /\ WorkOfFirst(n) = FlattenSeq(vs)
  BY DEF WorkOfFirst
<1> HIDE DEF ws, vs
<1>6. WorkOf(n) \in Seq(Layer)
  BY <1>1, <1>2
<1>7. vs = Append(ws, WorkOf(n))
  <2>1. Append(ws, WorkOf(n)) \in Seq(Seq(Layer)) /\ Len(Append(ws, WorkOf(n))) = n
    BY <1>1, <1>3, <1>6, AppendProperties
  <2>2. \A g \in 1..n : Append(ws, WorkOf(n))[g] = vs[g]
    BY <1>1, <1>3, <1>4, <1>6, AppendProperties
  <2> QED
    BY <1>4, <2>1, <2>2, SeqEqual
<1> QED
  BY <1>3, <1>5, <1>6, <1>7, FlattenSeqOfAppend

LEMMA ParStart == ParInit => ParInv
<1> SUFFICES ASSUME ParInit PROVE ParInv
  OBVIOUS
<1> USE DEF ParInit
<1>1. 1 \in DOMAIN Groups
  BY GroupTypes
<1>2. ActiveOf(1) \in Seq(Layer) /\ Len(ActiveOf(1)) \in Nat
  BY <1>1, ActiveTypes
<1>3. ParTypes
  BY <1>1, <1>2 DEF ParTypes
<1>4. ParPlace
  BY DEF ParPlace
<1>5. ParFresh
  BY <1>1, <1>2, GroupTypes, ActiveTypes DEF ParFresh
<1>6. Range(parText) = {}
  BY DEF Range
<1>7. ParRan
  BY <1>6 DEF ParRan
<1>8. parText = WorkOfFirst(groupNo - 1) \o WorkSoFar
  <2>1. WorkSoFar = << >>
    <3>1. SubSeq(ActiveOf(1), 1, 0) = << >>
      BY <1>2
    <3> QED
      BY <3>1 DEF WorkSoFar
  <2>2. WorkOfFirst(0) = << >>
    BY DEF WorkOfFirst, FlattenSeq
  <2> QED
    BY <2>1, <2>2
<1> QED
  BY <1>3, <1>4, <1>5, <1>7, <1>8 DEF ParInv

\* A layer returns: its result is recorded and no other changes.
LEMMA ReturnsTypes ==
  ASSUME ParTypes, NEW l \in Layer, NEW s \in Int, NEW e \in BOOLEAN,
         Returns(l, [saved |-> s, empty |-> e])
  PROVE  /\ returned' \in SUBSET Layer /\ returned' = returned \union {l}
         /\ result' \in [Layer -> [saved : Int, empty : BOOLEAN]]
         /\ \A x \in Layer : x # l => result'[x] = result[x]
  BY DEF ParTypes, Returns

LEMMA processSequentialGroupKeeps == ParInv /\ processSequentialGroup => ParInv'
<1> SUFFICES ASSUME ParInv, processSequentialGroup PROVE ParInv'
  OBVIOUS
<1>0. /\ ParTypes /\ ParPlace /\ ParFresh /\ ParRan
      /\ parText = WorkOfFirst(groupNo - 1) \o WorkSoFar
  BY DEF ParInv
<1> DEFINE A == ActiveOf(groupNo)
           l == A[nextLayer]
<1>1. groupNo \in DOMAIN Groups /\ groupNo \in Nat /\ nextLayer \in 1..Len(A) /\ nextLayer \in Nat
  BY <1>0, GroupTypes, ActiveTypes DEF ParTypes, processSequentialGroup
<1>2. /\ A \in Seq(Layer) /\ Len(A) \in Nat
      /\ \A i \in 1..Len(A) : A[i] \in Of(groupNo) /\ A[i] \in Layer
      /\ \A i, j \in 1..Len(A) : A[i] = A[j] => i = j
  BY <1>1, ActiveTypes
<1>3. A' = A /\ Sequential(groupNo) /\ Sequential(groupNo)'
  BY DEF processSequentialGroup, ActiveOf, Sequential
<1>4. PICK s \in Int : /\ Returns(l, [saved |-> s, empty |-> FALSE])
                       /\ runningSaved' = runningSaved + s
                       /\ parText' = Append(parText, l)
  BY ParallelAssumption DEF processSequentialGroup
<1>5. /\ parPc = "group" /\ parPc' = "group" /\ nextLayer' = nextLayer + 1
      /\ groupNo' = groupNo /\ active' = active
  BY DEF processSequentialGroup
<1>6. l \in Layer /\ l \in Of(groupNo) /\ l \notin returned
  BY <1>0, <1>1, <1>2, <1>3, <1>5 DEF ParFresh
<1> HIDE DEF l, A
<1>7. l \notin Range(parText)
  BY <1>0, <1>6 DEF ParRan
<1>8. /\ returned' \in SUBSET Layer /\ returned' = returned \union {l}
      /\ result' \in [Layer -> [saved : Int, empty : BOOLEAN]]
      /\ \A x \in Layer : x # l => result'[x] = result[x]
  BY <1>0, <1>4, <1>6, ReturnsTypes
<1>9. parText' \in Seq(Layer) /\ Range(parText') = Range(parText) \union {l}
  <2>1. parText \in Seq(Layer)
    BY <1>0 DEF ParTypes
  <2>2. Append(parText, l) \in Seq(Layer) /\ Range(Append(parText, l)) = Range(parText) \union {l}
    BY <1>6, <2>1, RangeProperties
  <2> QED
    BY <1>4, <2>2
<1>10. ParTypes'
  BY <1>0, <1>1, <1>2, <1>3, <1>4, <1>5, <1>8, <1>9, SMTT(30) DEF ParTypes, A
<1>11. ParPlace'
  BY <1>0, <1>3, <1>5 DEF ParPlace
<1>12. ParFresh'
  <2>1. ASSUME NEW g \in DOMAIN Groups, g > groupNo, NEW x \in Of(g) PROVE x \notin returned'
    <3>1. x # l /\ x \in Layer
      BY <1>1, <1>6, <2>1, GroupTypes
    <3> QED
      BY <1>0, <1>8, <2>1, <3>1 DEF ParFresh
  <2>2. ASSUME NEW i \in (nextLayer + 1)..Len(A) PROVE A[i] \notin returned'
    <3>1. A[i] # l /\ A[i] \in Layer /\ i \in nextLayer..Len(A)
      BY <1>1, <1>2 DEF l
    <3> QED
      BY <1>0, <1>3, <1>5, <1>8, <3>1 DEF ParFresh, A
  <2> QED
    BY <1>0, <1>3, <1>5, <2>1, <2>2 DEF ParFresh, A
<1>13. ParRan'
  <2>1. ASSUME NEW x \in Range(parText') PROVE x \in returned'
    BY <1>0, <1>8, <1>9 DEF ParRan
  <2>2. ASSUME NEW x \in Range(parText')
        PROVE  \/ \E g \in 1..(groupNo - 1) : x \in Of(g)
               \/ \E i \in 1..nextLayer : x = A[i]
    <3>1. CASE x = l
      BY <1>1, <3>1 DEF l
    <3>2. CASE x # l
      <4>1. x \in Range(parText)
        BY <1>9, <3>2
      <4>2. \A i \in 1..(nextLayer - 1) : i \in 1..nextLayer
        BY <1>1
      <4> QED
        BY <1>0, <4>1, <4>2 DEF ParRan, A
    <3> QED
      BY <3>1, <3>2
  <2>3. nextLayer' - 1 = nextLayer
    BY <1>1, <1>5
  <2> QED
    BY <1>0, <1>3, <1>5, <2>1, <2>2, <2>3 DEF ParRan, A
<1>14. (parText = WorkOfFirst(groupNo - 1) \o WorkSoFar)'
  <2> DEFINE F == WorkOfFirst(groupNo - 1)
  <2>1. F' = F
    <3>1. groupNo - 1 \in 0..Len(Groups)
      BY <1>1, GroupTypes
    <3>2. ASSUME NEW g \in 1..(groupNo - 1), NEW x \in Of(g) PROVE result'[x] = result[x]
      <4>1. g \in DOMAIN Groups /\ g # groupNo
        BY <1>1, GroupTypes
      <4>2. x # l /\ x \in Layer
        BY <1>1, <1>6, <4>1, GroupTypes
      <4> QED
        BY <1>8, <4>2
    <3>3. WorkOfFirst(groupNo - 1)' = WorkOfFirst(groupNo - 1)
      <4> DEFINE n == groupNo - 1
      <4>1. n' = n
        BY <1>5
      <4> QED
        BY <1>5, <3>1, <3>2, FirstWorkIsStable
    <3> QED
      BY <3>3
  <2>2. WorkSoFar = SubSeq(A, 1, nextLayer - 1)
    BY <1>3 DEF WorkSoFar, A
  <2>3. WorkSoFar' = SubSeq(A, 1, nextLayer)
    <3>1. nextLayer' - 1 = nextLayer
      BY <1>1, <1>5
    <3> QED
      BY <1>3, <1>5, <3>1 DEF WorkSoFar, A
  <2>4. F \in Seq(Layer)
    BY <1>1, WorkOfNext
  <2> DEFINE B == SubSeq(A, 1, nextLayer - 1)
  <2>5. B \in Seq(Layer) /\ SubSeq(A, 1, nextLayer) = Append(B, l)
    BY <1>1, <1>2 DEF l
  <2>6. parText = F \o B
    BY <1>0, <2>2
  <2>7. Append(F \o B, l) = F \o Append(B, l)
    <3> HIDE DEF F, B
    <3>1. Append(B, l) = B \o <<l>> /\ Append(F \o B, l) = (F \o B) \o <<l>>
      BY <1>6, <2>4, <2>5
    <3>2. (F \o B) \o <<l>> = F \o (B \o <<l>>)
      BY <1>6, <2>4, <2>5, ConcatAssociative
    <3> QED
      BY <3>1, <3>2
  <2> HIDE DEF F, B
  <2>8. parText' = F \o Append(B, l)
    BY <1>4, <2>6, <2>7
  <2> QED
    BY <2>1, <2>3, <2>5, <2>8 DEF F
<1> QED
  BY <1>10, <1>11, <1>12, <1>13, <1>14 DEF ParInv

LEMMA ApplyLayerKeeps ==
  ASSUME ParInv, NEW l \in Layer, ApplyLayer(l)
  PROVE  ParInv'
<1> DEFINE A == ActiveOf(groupNo)
<1>0. /\ ParTypes /\ ParPlace /\ ParFresh /\ ParRan
      /\ parText = WorkOfFirst(groupNo - 1) \o WorkSoFar
  BY DEF ParInv
<1>1. groupNo \in DOMAIN Groups /\ groupNo \in Nat
  BY <1>0, GroupTypes DEF ParTypes
<1>2. /\ parPc = "parallel" /\ l \in Range(A) /\ l \notin returned
      /\ UNCHANGED <<parPc, groupNo, nextLayer, active, parText, runningSaved>>
  BY DEF ApplyLayer
<1>3. PICK s \in Int, e \in BOOLEAN : Returns(l, [saved |-> s, empty |-> e])
  <2>1. PICK r \in Result : Returns(l, r)
    BY DEF ApplyLayer
  <2>2. r.saved \in Int /\ r.empty \in BOOLEAN /\ r = [saved |-> r.saved, empty |-> r.empty]
    BY ParallelAssumption DEF Result
  <2> QED
    BY <2>1, <2>2
<1>4. A' = A /\ ~Sequential(groupNo) /\ ~Sequential(groupNo)' /\ nextLayer = 1
  BY <1>0, <1>2 DEF ParPlace, ActiveOf, Sequential
<1>5. l \in Of(groupNo)
  BY <1>1, <1>2, ActiveTypes
<1>6. l \notin Range(parText)
  BY <1>0, <1>2 DEF ParRan
<1>7. /\ returned' \in SUBSET Layer /\ returned' = returned \union {l}
      /\ result' \in [Layer -> [saved : Int, empty : BOOLEAN]]
      /\ \A x \in Layer : x # l => result'[x] = result[x]
  BY <1>0, <1>3, ReturnsTypes
<1> HIDE DEF A
<1>8. ParTypes'
  BY <1>0, <1>2, <1>4, <1>7 DEF ParTypes, A
<1>9. ParPlace'
  BY <1>2, <1>4 DEF ParPlace
<1>10. \A g \in DOMAIN Groups, x \in Layer : x \in Of(g) /\ g # groupNo => result'[x] = result[x]
  BY <1>1, <1>5, <1>7, GroupTypes
<1>11. ParFresh'
  <2>1. ASSUME NEW g \in DOMAIN Groups, g > groupNo, NEW x \in Of(g)
        PROVE  x \notin returned'
    <3>1. x \in Layer /\ g # groupNo
      BY <1>1, <2>1, GroupTypes
    <3>2. x \notin returned
      BY <1>0, <2>1 DEF ParFresh
    <3> QED
      BY <1>1, <1>5, <1>7, <2>1, <3>1, <3>2, GroupTypes
  <2> QED
    BY <1>2, <1>4, <2>1 DEF ParFresh
<1>12. ParRan'
  <2>1. ASSUME NEW x \in Range(parText) PROVE x \in returned'
    BY <1>0, <1>7 DEF ParRan
  <2> QED
    BY <1>0, <1>2, <1>4, <2>1 DEF ParRan, A
<1>13. WorkSoFar = << >> /\ WorkSoFar' = << >>
  BY <1>2, <1>4 DEF WorkSoFar
<1>14. WorkOfFirst(groupNo - 1)' = WorkOfFirst(groupNo - 1)
  <2>1. groupNo - 1 \in 0..Len(Groups)
    BY <1>1, GroupTypes
  <2>2. \A g \in 1..(groupNo - 1) : g \in DOMAIN Groups /\ g # groupNo
    BY <1>1, GroupTypes
  <2>3. \A g \in 1..(groupNo - 1) : \A x \in Of(g) : result'[x] = result[x]
    BY <1>10, <2>2, GroupTypes
  <2> QED
    BY <1>2, <2>1, <2>3, FirstWorkIsStable
<1> QED
  BY <1>0, <1>2, <1>7, <1>8, <1>9, <1>11, <1>12, <1>13, <1>14 DEF ParInv

LEMMA ChainKeeps == ParInv /\ Chain => ParInv'
<1> SUFFICES ASSUME ParInv, Chain PROVE ParInv'
  OBVIOUS
<1> DEFINE A == ActiveOf(groupNo)
           S == Savers(groupNo)
           F == WorkOfFirst(groupNo - 1)
<1>0. /\ ParTypes /\ ParPlace /\ ParFresh /\ ParRan
      /\ parText = F \o WorkSoFar
  BY DEF ParInv
<1>1. groupNo \in DOMAIN Groups /\ groupNo \in Nat
  BY <1>0, GroupTypes DEF ParTypes
<1>2. /\ parPc = "parallel" /\ parPc' = "group" /\ nextLayer' = Len(A) + 1
      /\ UNCHANGED <<groupNo, active, returned, result, runningSaved>>
      /\ parText' = IF S = << >> THEN parText ELSE Append(parText, Last(S))
  BY DEF Chain
<1>3. /\ A' = A /\ S' = S /\ F' = F /\ WorkOf(groupNo)' = WorkOf(groupNo)
      /\ ~Sequential(groupNo) /\ ~Sequential(groupNo)' /\ nextLayer = 1
  BY <1>0, <1>2 DEF ParPlace, ActiveOf, Sequential, Savers, WorkOf, WorkOfFirst
<1>4. /\ A \in Seq(Layer) /\ Len(A) \in Nat /\ S \in Seq(Layer) /\ Len(A) > 1
      /\ \A l \in Range(A) : \E i \in 1..Len(A) : l = A[i]
      /\ \A i \in 1..Len(A) : A[i] \in Of(groupNo) /\ A[i] \in Layer
      /\ S # << >> => Last(S) \in Range(A)
      /\ F \in Seq(Layer)
  BY <1>1, <1>3, ActiveTypes, WorkOfNext DEF Sequential
<1>5. \A l \in Range(A) : l \in returned
  BY DEF Chain
<1>6. WorkSoFar = << >> /\ parText = F
  <2>1. WorkSoFar = << >>
    BY <1>3 DEF WorkSoFar
  <2> HIDE DEF F
  <2> QED
    BY <1>0, <1>4, <2>1
<1>7. WorkOf(groupNo) = IF S = << >> THEN << >> ELSE <<Last(S)>>
  BY <1>3 DEF WorkOf
<1>8. WorkSoFar' = WorkOf(groupNo)
  <2>1. nextLayer' # 1
    BY <1>2, <1>4
  <2> QED
    BY <1>2, <1>3, <2>1 DEF WorkSoFar
<1>9. \A l \in Layer : l \in Of(groupNo) => l \notin Range(parText)
  <2> SUFFICES ASSUME NEW l \in Range(parText), l \in Of(groupNo) PROVE FALSE
    OBVIOUS
  <2>1. \E g \in 1..(groupNo - 1) : l \in Of(g)
    BY <1>0, <1>3 DEF ParRan
  <2> QED
    BY <1>1, <2>1, GroupTypes
<1>10. parText \in Seq(Layer) /\ parText' \in Seq(Layer) /\ (parText = F \o WorkSoFar)'
  <2>1. CASE S = << >>
    BY <1>2, <1>3, <1>4, <1>6, <1>7, <1>8, <2>1, ConcatEmptySeq
  <2>2. CASE S # << >>
    <3>1. Last(S) \in Layer /\ parText' = Append(F, Last(S)) /\ WorkSoFar' = <<Last(S)>>
      BY <1>2, <1>4, <1>6, <1>7, <1>8, <2>2
    <3> HIDE DEF F, S
    <3> QED
      BY <1>3, <1>4, <1>6, <3>1, AppendIsConcat
  <2> QED
    BY <2>1, <2>2
<1> HIDE DEF A, S, F
<1>11. ParTypes'
  BY <1>0, <1>2, <1>3, <1>4, <1>10 DEF ParTypes, A
<1>12. ParPlace'
  BY <1>2, <1>3 DEF ParPlace, A
<1>13. ParFresh'
  BY <1>0, <1>2, <1>3 DEF ParFresh
<1>14. Range(parText') = IF S = << >> THEN Range(parText) ELSE Range(parText) \union {Last(S)}
  <2>1. CASE S = << >>
    BY <1>2, <2>1
  <2>2. CASE S # << >>
    <3>1. Last(S) \in Layer /\ parText' = Append(parText, Last(S))
      BY <1>2, <1>4, <2>2
    <3>2. Range(Append(parText, Last(S))) = Range(parText) \union {Last(S)}
      BY <1>10, <3>1, RangeProperties
    <3> QED
      BY <2>2, <3>1, <3>2
  <2> QED
    BY <2>1, <2>2
<1>15. ParRan'
  <2> SUFFICES ASSUME NEW x \in Range(parText')
               PROVE  /\ x \in returned
                      /\ \/ \E g \in 1..(groupNo - 1) : x \in Of(g)
                         \/ \E i \in 1..Len(A) : x = A[i]
    <3>1. nextLayer' - 1 = Len(A)
      BY <1>2, <1>4
    <3> QED
      BY <1>2, <1>3, <3>1 DEF ParRan, A
  <2>1. CASE x \in Range(parText)
    BY <1>0, <1>3, <2>1 DEF ParRan
  <2>2. CASE x \notin Range(parText)
    <3>1. x \in Range(A)
      BY <1>4, <1>14, <2>2
    <3>2. (\E i \in 1..Len(A) : x = A[i]) /\ x \in Layer /\ x \in returned
      BY <1>4, <1>5, <3>1
    <3> QED
      BY <1>0, <3>2 DEF ParTypes
  <2> QED
    BY <2>1, <2>2
<1> QED
  BY <1>10, <1>11, <1>12, <1>13, <1>15 DEF ParInv, F

LEMMA EndGroupKeeps == ParInv /\ EndGroup => ParInv'
<1> SUFFICES ASSUME ParInv, EndGroup PROVE ParInv'
  OBVIOUS
<1> DEFINE A == ActiveOf(groupNo)
<1>0. /\ ParTypes /\ ParPlace /\ ParFresh /\ ParRan
      /\ parText = WorkOfFirst(groupNo - 1) \o WorkSoFar
  BY DEF ParInv
<1>1. groupNo \in DOMAIN Groups /\ groupNo \in Nat
  BY <1>0, GroupTypes DEF ParTypes
<1>2. A \in Seq(Layer) /\ Len(A) \in Nat /\ WorkOf(groupNo) \in Seq(Layer)
  BY <1>1, ActiveTypes
<1>3. /\ UNCHANGED <<active, parText, returned, result, runningSaved>>
      /\ parPc = "group" /\ nextLayer = Len(A) + 1
  BY <1>0, <1>2 DEF EndGroup, ParTypes
<1>4. \A g \in DOMAIN Groups : /\ ActiveOf(g)' = ActiveOf(g) /\ WorkOf(g)' = WorkOf(g)
                               /\ Sequential(g)' = Sequential(g)
  BY <1>3 DEF ActiveOf, WorkOf, Sequential, Savers
<1>5. \A n : WorkOfFirst(n)' = WorkOfFirst(n)
  BY <1>3 DEF WorkOfFirst, ActiveOf, WorkOf, Sequential, Savers
<1>6. CASE /\ parPc' \in {"exit", "done"} /\ UNCHANGED <<groupNo, nextLayer>>
  <2>1. ParTypes'
    BY <1>0, <1>1, <1>3, <1>4, <1>6 DEF ParTypes
  <2>2. ParPlace'
    BY <1>1, <1>3, <1>4, <1>6 DEF ParPlace
  <2>3. ParFresh'
    BY <1>0, <1>3, <1>6 DEF ParFresh
  <2>4. ParRan'
    <3>1. ActiveOf(groupNo)' = ActiveOf(groupNo) /\ groupNo' = groupNo
      BY <1>3, <1>6 DEF ActiveOf
    <3> QED
      BY <1>0, <1>3, <1>6, <3>1 DEF ParRan
  <2>5. (parText = WorkOfFirst(groupNo - 1) \o WorkSoFar)'
    <3>1. WorkSoFar' = WorkSoFar
      BY <1>1, <1>3, <1>4, <1>6 DEF WorkSoFar
    <3> QED
      BY <1>0, <1>3, <1>5, <1>6, <3>1
  <2> QED
    BY <1>0, <1>3, <2>1, <2>2, <2>3, <2>4, <2>5 DEF ParInv
<1>7. CASE groupNo < Len(Groups) /\ groupNo' = groupNo + 1 /\ nextLayer' = 1 /\ parPc' = parPc
  <2> DEFINE n == groupNo + 1
             B == ActiveOf(n)
  <2>1. n \in DOMAIN Groups /\ groupNo' = n
    BY <1>1, <1>7, GroupTypes
  <2>2. B \in Seq(Layer) /\ Len(B) \in Nat /\ \A i \in 1..Len(B) : B[i] \in Of(n)
    BY <2>1, ActiveTypes
  <2>3. ActiveOf(groupNo)' = B
    BY <1>3, <1>7 DEF ActiveOf
  <2>4. ParTypes'
    BY <1>0, <1>3, <1>7, <2>1, <2>2, <2>3 DEF ParTypes
  <2>5. ParPlace'
    BY <1>3, <1>7 DEF ParPlace
  <2>6. ParFresh'
    <3>1. \A g \in DOMAIN Groups : g > groupNo => \A l \in Of(g) : l \notin returned
      BY <1>0 DEF ParFresh
    <3>2. \A i \in 1..Len(B) : B[i] \notin returned
      BY <1>1, <2>1, <2>2, <3>1
    <3>3. \A g \in DOMAIN Groups : g > n => g > groupNo
      BY <1>1, GroupTypes
    <3> QED
      BY <1>3, <1>7, <2>1, <2>3, <3>1, <3>2, <3>3 DEF ParFresh
  <2>7. ParRan'
    <3> SUFFICES ASSUME NEW l \in Range(parText)
                 PROVE  l \in returned /\ \E g \in 1..groupNo : l \in Of(g)
      <4>1. groupNo' - 1 = groupNo
        BY <1>1, <1>7
      <4> QED
        BY <1>3, <4>1 DEF ParRan
    <3>1. /\ l \in returned
          /\ \/ \E g \in 1..(groupNo - 1) : l \in Of(g)
             \/ \E i \in 1..(nextLayer - 1) : l = A[i]
      BY <1>0 DEF ParRan
    <3>2. \A i \in 1..(nextLayer - 1) : A[i] \in Of(groupNo)
      BY <1>1, <1>2, <1>3, ActiveTypes
    <3>3. groupNo \in 1..groupNo /\ \A g \in 1..(groupNo - 1) : g \in 1..groupNo
      BY <1>1, GroupTypes
    <3> QED
      BY <3>1, <3>2, <3>3
  <2>8. (parText = WorkOfFirst(groupNo - 1) \o WorkSoFar)'
    <3>1. WorkSoFar = WorkOf(groupNo)
      <4>1. CASE Sequential(groupNo)
        <5>1. WorkSoFar = SubSeq(A, 1, Len(A))
          BY <1>2, <1>3, <4>1 DEF WorkSoFar
        <5> QED
          BY <1>2, <4>1, <5>1 DEF WorkOf
      <4>2. CASE ~Sequential(groupNo)
        <5>1. nextLayer # 1
          BY <1>2, <1>3, <4>2 DEF Sequential
        <5> QED
          BY <4>2, <5>1 DEF WorkSoFar
      <4> QED
        BY <4>1, <4>2
    <3>2. parText = WorkOfFirst(groupNo) /\ WorkOfFirst(groupNo) \in Seq(Layer)
      <4>1. WorkOfFirst(n - 1) \in Seq(Layer) /\ n - 1 = groupNo
        BY <1>1, <2>1, WorkOfNext
      <4>2. WorkOfFirst(groupNo) = WorkOfFirst(groupNo - 1) \o WorkOf(groupNo)
        BY <1>1, WorkOfNext
      <4> QED
        BY <1>0, <3>1, <4>1, <4>2
    <3>3. WorkSoFar' = << >>
      <4>1. SubSeq(B, 1, 0) = << >>
        BY <2>2
      <4> QED
        BY <1>7, <2>3, <4>1 DEF WorkSoFar
    <3>4. WorkOfFirst(groupNo - 1)' = WorkOfFirst(groupNo)
      <4>1. groupNo' - 1 = groupNo
        BY <1>1, <1>7
      <4> QED
        BY <1>5, <4>1
    <3> QED
      BY <1>3, <3>2, <3>3, <3>4, ConcatEmptySeq
  <2> QED
    BY <1>0, <1>3, <2>4, <2>5, <2>6, <2>7, <2>8 DEF ParInv
<1> QED
  BY <1>3, <1>6, <1>7 DEF EndGroup

LEMMA ParStep == ParInv /\ [ParNext]_parVars => ParInv'
<1> SUFFICES ASSUME ParInv, [ParNext]_parVars PROVE ParInv'
  OBVIOUS
<1>1. CASE Spawn
  <2> USE <1>1 DEF Spawn
  <2>1. ParTypes' /\ ParRan' /\ ParFresh'
    BY DEF ParInv, ParTypes, ParRan, ParFresh, ActiveOf
  <2>2. ParPlace'
    BY DEF ParPlace, Sequential, ActiveOf
  <2>3. (parText = WorkOfFirst(groupNo - 1) \o WorkSoFar)'
    BY DEF ParInv, WorkOfFirst, WorkSoFar, WorkOf, Savers, Sequential, ActiveOf
  <2> QED
    BY <2>1, <2>2, <2>3 DEF ParInv
<1>2. CASE UNCHANGED parVars
  <2> USE <1>2 DEF parVars
  <2>1. ParTypes' /\ ParRan' /\ ParFresh'
    BY DEF ParInv, ParTypes, ParRan, ParFresh, ActiveOf, Sequential
  <2>2. ParPlace'
    BY DEF ParInv, ParPlace, Sequential, ActiveOf
  <2>3. (parText = WorkOfFirst(groupNo - 1) \o WorkSoFar)'
    BY DEF ParInv, WorkOfFirst, WorkSoFar, WorkOf, Savers, Sequential, ActiveOf
  <2> QED
    BY <2>1, <2>2, <2>3 DEF ParInv
<1>3. CASE ParDone
  BY <1>2, <1>3 DEF ParDone
<1> QED
  BY <1>1, <1>2, <1>3, processSequentialGroupKeeps, ApplyLayerKeeps, ChainKeeps, EndGroupKeeps DEF ParNext

\* For any groups, layers, reports and empty outputs: the output is what the
\* active layers contribute group by group, whichever goroutine of
\* processParallelGroup was first.
THEOREM GroupsAreDeterministic == ParSpec => []OutputIsDeterministic
<1>1. ParInv => OutputIsDeterministic
  <2> SUFFICES ASSUME ParInv, parPc \in {"exit", "done"}
               PROVE  parText = WorkOfFirst(groupNo)
    BY DEF OutputIsDeterministic, WorkOfFirst
  <2> DEFINE A == ActiveOf(groupNo)
  <2>1. groupNo \in DOMAIN Groups /\ nextLayer = Len(A) + 1
    BY DEF ParInv, ParTypes, ParPlace
  <2>2. A \in Seq(Layer) /\ Len(A) \in Nat
    BY <2>1, ActiveTypes
  <2>3. WorkSoFar = WorkOf(groupNo)
    <3>1. CASE Sequential(groupNo)
      <4>1. WorkSoFar = SubSeq(A, 1, Len(A))
        BY <2>1, <2>2, <3>1 DEF WorkSoFar
      <4> QED
        BY <2>2, <3>1, <4>1 DEF WorkOf
    <3>2. CASE ~Sequential(groupNo)
      <4>1. nextLayer # 1
        BY <2>1, <2>2, <3>2 DEF Sequential
      <4> QED
        BY <3>2, <4>1 DEF WorkSoFar
    <3> QED
      BY <3>1, <3>2
  <2> QED
    BY <2>1, <2>3, WorkOfNext DEF ParInv
<1> QED
  BY <1>1, ParStart, ParStep, PTL DEF ParSpec
=============================================================================
