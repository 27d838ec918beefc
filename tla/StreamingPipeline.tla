------------------------- MODULE StreamingPipeline -------------------------
(***************************************************************************)
(* internal/streaming/pipeline.go: ProcessReader reads an input in chunks, *)
(* workers process them concurrently, and a collector puts the results     *)
(* back in order.  A chunk is its number; what matters of its data is the  *)
(* length before and after processing and its offset in the input, by      *)
(* which the collector finds the next result.  Every step is one send,     *)
(* receive or close of a channel, or local work up to the next one.        *)
(***************************************************************************)
EXTENDS Integers, Sequences

CONSTANTS
  Worker,
  ChunkLen,     \* the input: the length of each chunk the reader returns
  Capacity,     \* of both channels, 2 * workerCount in the code
  Preserving,   \* processed data is as long as the chunk, as with no processor
  MayFail,      \* processor.Process may return an error
  MaxLen        \* bound on the length of processed data

ASSUME StreamingAssumption ==
  /\ Worker # {}
  /\ MaxLen \in Nat /\ ChunkLen \in Seq(1..MaxLen)
  /\ Capacity \in Nat \ {0}
  /\ Preserving \in BOOLEAN /\ MayFail \in BOOLEAN

VARIABLES
  readerPc,         \* the reader: "read", "wait", "drain" or "done"
  chunksRead,        \* chunks read so far
  offset,            \* where the next one starts in the input
  chunks, chunksOpen,    \* chunkChan
  workerPc, workResult,   \* each worker: "take", "process", "send" or "done"; its result
  results, resultsOpen,  \* resultChan
  collectorPc,         \* the collector: "take", "flush" or "done"
  buffer,      \* results that came too early
  nextOffset,
  written,     \* chunks whose results were written, in order
  chunkFailed       \* history: a result with an error was taken from the channel

readerVars == <<readerPc, chunksRead, offset, chunksOpen, resultsOpen>>
workerVars == <<workerPc, workResult>>
collectorVars == <<collectorPc, buffer, nextOffset, written, chunkFailed>>
streamVars == <<readerVars, chunks, results, workerVars, collectorVars>>

Chunk == [chunk : DOMAIN ChunkLen, offset : Nat]
ChunkResult == [chunk : Nat, offset : Nat, len : Nat, err : BOOLEAN]
NoResult == [chunk |-> 0, offset |-> 0, len |-> 0, err |-> FALSE]

StreamInit ==
  /\ readerPc = "read" /\ chunksRead = 0 /\ offset = 0
  /\ chunks = << >> /\ chunksOpen = TRUE
  /\ workerPc = [w \in Worker |-> "take"] /\ workResult = [w \in Worker |-> NoResult]
  /\ results = << >> /\ resultsOpen = TRUE
  /\ collectorPc = "take" /\ buffer = {} /\ nextOffset = 0 /\ written = << >>
  /\ chunkFailed = FALSE

-----------------------------------------------------------------------------
\* ProcessReader: a chunk is read and sent, which blocks while the channel is
\* full.
ReadChunk ==
  /\ readerPc = "read" /\ chunksRead < Len(ChunkLen)
  /\ Len(chunks) < Capacity
  /\ chunksRead' = chunksRead + 1
  /\ chunks' = Append(chunks, [chunk |-> chunksRead + 1, offset |-> offset])
  /\ offset' = offset + ChunkLen[chunksRead + 1]
  /\ UNCHANGED <<readerPc, chunksOpen, resultsOpen, results, workerVars, collectorVars>>

\* Mutant: the chunk channel is not closed.
ReadEndsForgets ==
  /\ readerPc = "read"
  /\ readerPc' = "wait"
  /\ UNCHANGED <<chunksOpen, chunksRead, offset, resultsOpen, chunks, results, workerVars, collectorVars>>

\* The reader meets the end of the input, or an error: close(chunkChan).
ReadEnds ==
  /\ readerPc = "read"
  /\ readerPc' = "wait" /\ chunksOpen' = FALSE
  /\ UNCHANGED <<chunksRead, offset, resultsOpen, chunks, results, workerVars, collectorVars>>

\* Mutant: resultChan is closed as soon as the chunks are taken.
CloseResultsEarly ==
  /\ readerPc = "wait" /\ chunks = << >>
  /\ readerPc' = "drain" /\ resultsOpen' = FALSE
  /\ UNCHANGED <<chunksRead, offset, chunksOpen, chunks, results, workerVars, collectorVars>>

\* wg.Wait, then close(resultChan).
CloseResults ==
  /\ readerPc = "wait" /\ \A w \in Worker : workerPc[w] = "done"
  /\ readerPc' = "drain" /\ resultsOpen' = FALSE
  /\ UNCHANGED <<chunksRead, offset, chunksOpen, chunks, results, workerVars, collectorVars>>

\* <-collectDone, and the return.
StreamReturn ==
  /\ readerPc = "drain" /\ collectorPc = "done"
  /\ readerPc' = "done"
  /\ UNCHANGED <<chunksRead, offset, chunksOpen, resultsOpen, chunks, results, workerVars, collectorVars>>

-----------------------------------------------------------------------------
TakeChunk(w) ==
  /\ workerPc[w] = "take" /\ chunks # << >>
  /\ workResult' = [workResult EXCEPT ![w] =
       [chunk |-> Head(chunks).chunk, offset |-> Head(chunks).offset, len |-> 0, err |-> FALSE]]
  /\ chunks' = Tail(chunks)
  /\ workerPc' = [workerPc EXCEPT ![w] = "process"]
  /\ UNCHANGED <<readerVars, results, collectorVars>>

\* How long what processing makes of chunk c may be.
Processed(c) == IF Preserving THEN {ChunkLen[c]} ELSE 0..MaxLen

ProcessChunk(w) ==
  /\ workerPc[w] = "process"
  /\ \E n \in Processed(workResult[w].chunk), failed \in BOOLEAN :
       /\ failed => MayFail
       /\ workResult' = [workResult EXCEPT ![w].len = n, ![w].err = failed]
  /\ workerPc' = [workerPc EXCEPT ![w] = "send"]
  /\ UNCHANGED <<readerVars, chunks, results, collectorVars>>

\* A send on a closed channel panics, and the process is gone.
SendResult(w) ==
  /\ workerPc[w] = "send"
  /\ resultsOpen => Len(results) < Capacity
  /\ IF resultsOpen
       THEN results' = Append(results, workResult[w]) /\ UNCHANGED readerPc
       ELSE readerPc' = "panicked" /\ UNCHANGED results
  /\ workerPc' = [workerPc EXCEPT ![w] = "take"]
  /\ workResult' = [workResult EXCEPT ![w] = NoResult]
  /\ UNCHANGED <<chunksRead, offset, chunksOpen, resultsOpen, chunks, collectorVars>>

\* The range loop ends, wg.Done.
StreamWorkerEnds(w) ==
  /\ workerPc[w] = "take" /\ chunks = << >> /\ ~chunksOpen
  /\ workerPc' = [workerPc EXCEPT ![w] = "done"]
  /\ UNCHANGED <<readerVars, chunks, results, workResult, collectorVars>>

-----------------------------------------------------------------------------
\* collectResults takes a result: a failed one is skipped, the next one is
\* written, any other is kept for later.
WriteResult(r) ==
  /\ written' = Append(written, r.chunk)
  /\ nextOffset' = nextOffset + r.len

\* Mutant: a result that came early is written at once.
CollectUnordered ==
  /\ collectorPc = "take" /\ results # << >>
  /\ results' = Tail(results)
  /\ IF Head(results).err
       THEN chunkFailed' = TRUE /\ UNCHANGED <<collectorPc, buffer, nextOffset, written>>
       ELSE WriteResult(Head(results)) /\ collectorPc' = "flush" /\ UNCHANGED <<buffer, chunkFailed>>
  /\ UNCHANGED <<readerVars, chunks, workerVars>>

Collect ==
  /\ collectorPc = "take" /\ results # << >>
  /\ results' = Tail(results)
  /\ LET r == Head(results)
     IN  \/ /\ r.err
            /\ chunkFailed' = TRUE
            /\ UNCHANGED <<collectorPc, buffer, nextOffset, written>>
         \/ /\ ~r.err /\ r.offset = nextOffset
            /\ WriteResult(r)
            /\ collectorPc' = "flush"
            /\ UNCHANGED <<buffer, chunkFailed>>
         \/ /\ ~r.err /\ r.offset # nextOffset
            /\ buffer' = buffer \union {r}
            /\ UNCHANGED <<collectorPc, nextOffset, written, chunkFailed>>
  /\ UNCHANGED <<readerVars, chunks, workerVars>>

\* Mutant: only one result is taken out of the buffer.
FlushOnce ==
  /\ collectorPc = "flush"
  /\ \E r \in buffer :
       /\ r.offset = nextOffset
       /\ WriteResult(r)
       /\ buffer' = buffer \ {r}
  /\ collectorPc' = "take"
  /\ UNCHANGED <<chunkFailed, readerVars, chunks, results, workerVars>>

\* "Check buffered results", one at a time.
Flush ==
  /\ collectorPc = "flush"
  /\ \E r \in buffer :
       /\ r.offset = nextOffset
       /\ WriteResult(r)
       /\ buffer' = buffer \ {r}
  /\ UNCHANGED <<collectorPc, chunkFailed, readerVars, chunks, results, workerVars>>

FlushEnds ==
  /\ collectorPc = "flush"
  /\ \A r \in buffer : r.offset # nextOffset
  /\ collectorPc' = "take"
  /\ UNCHANGED <<buffer, nextOffset, written, chunkFailed, readerVars, chunks, results, workerVars>>

\* The range loop ends and collectDone is closed; what is buffered is lost.
CollectorEnds ==
  /\ collectorPc = "take" /\ results = << >> /\ ~resultsOpen
  /\ collectorPc' = "done"
  /\ UNCHANGED <<buffer, nextOffset, written, chunkFailed, readerVars, chunks, results, workerVars>>

StreamFinished == readerPc \in {"done", "panicked"} /\ UNCHANGED streamVars

StreamReader == ReadChunk \/ ReadEnds \/ CloseResults \/ StreamReturn
StreamWork(w) == TakeChunk(w) \/ ProcessChunk(w) \/ SendResult(w) \/ StreamWorkerEnds(w)
StreamCollector == Collect \/ Flush \/ FlushEnds \/ CollectorEnds

StreamNext ==
  StreamReader \/ (\E w \in Worker : StreamWork(w)) \/ StreamCollector \/ StreamFinished

StreamSpec == StreamInit /\ [][StreamNext]_streamVars
StreamFairSpec ==
  /\ StreamSpec
  /\ WF_streamVars(StreamReader) /\ WF_streamVars(StreamCollector)
  /\ \A w \in Worker : WF_streamVars(StreamWork(w))

-----------------------------------------------------------------------------
\* "collectResults aggregates results in order": whatever order the workers
\* finish in, what is written is an initial part of the input, in order.
InOrder == \A i \in DOMAIN written : written[i] = i

\* Nothing that was read is missing when ProcessReader returns, unless the
\* processing of some chunk failed.
AllWritten == readerPc = "done" /\ ~chunkFailed => {written[i] : i \in DOMAIN written} = 1..chunksRead

\* What ProcessReader writes is its input: in order at every moment, and in
\* the end all of it.
OutputIsInput == InOrder /\ AllWritten

\* Reader, workers and collector never all wait for each other over the two
\* bounded channels, and none sends on a closed one, which would end the
\* process: ProcessReader, once it has read something, returns.
StreamReturns == chunksRead > 0 ~> readerPc = "done"
=============================================================================
