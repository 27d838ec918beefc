---------------------- MODULE StreamingPipelineProofs ----------------------
(***************************************************************************)
(* The chunk pipeline for any number of workers, any input and any         *)
(* capacity of the channels.                                               *)
(***************************************************************************)
EXTENDS StreamingPipeline, SequenceTheorems, TLAPS

StreamTypes ==
  /\ readerPc \in {"read", "wait", "drain", "done", "panicked"}
  /\ chunksRead \in 0..Len(ChunkLen) /\ offset \in Nat
  /\ chunks \in Seq(Chunk)
  /\ workerPc \in [Worker -> {"take", "process", "send", "done"}]
  /\ workResult \in [Worker -> ChunkResult]
  /\ \A w \in Worker :
       workerPc[w] \in {"process", "send"} => workResult[w].chunk \in DOMAIN ChunkLen
  /\ results \in Seq(ChunkResult)
  /\ collectorPc \in {"take", "flush", "done"}
  /\ buffer \subseteq ChunkResult
  /\ nextOffset \in Nat /\ written \in Seq(Nat)

\* The channels are closed in order: a worker ends only when no chunk is left
\* and none can come, and the results are closed only when no worker is left.
Shutdown ==
  /\ readerPc = "read" <=> chunksOpen
  /\ readerPc \in {"read", "wait"} <=> resultsOpen
  /\ \A w \in Worker : workerPc[w] = "done" => ~chunksOpen /\ chunks = << >>
  /\ ~resultsOpen => \A w \in Worker : workerPc[w] = "done"
  /\ collectorPc = "done" => ~resultsOpen /\ results = << >>
  /\ readerPc = "done" => collectorPc = "done"

\* No worker sends on a closed channel.
NoPanic == readerPc # "panicked"

ShutdownInv == StreamTypes /\ Shutdown /\ NoPanic

USE StreamingAssumption

LEMMA ShutdownStart == StreamInit => ShutdownInv
<1> SUFFICES ASSUME StreamInit PROVE ShutdownInv
  OBVIOUS
<1> USE DEF StreamInit
<1>1. workResult \in [Worker -> ChunkResult]
  BY DEF NoResult, ChunkResult
<1>2. chunks \in Seq(Chunk) /\ results \in Seq(ChunkResult) /\ written \in Seq(Nat)
  OBVIOUS
<1>3. chunksRead \in 0..Len(ChunkLen) /\ offset \in Nat /\ nextOffset \in Nat
  OBVIOUS
<1>4. StreamTypes
  BY <1>1, <1>2, <1>3, Zenon DEF StreamTypes
<1>5. Shutdown /\ NoPanic
  BY DEF Shutdown, NoPanic
<1>6. QED
  BY <1>4, <1>5 DEF ShutdownInv

LEMMA ShutdownStep == ShutdownInv /\ [StreamNext]_streamVars => ShutdownInv'
<1> SUFFICES ASSUME ShutdownInv, [StreamNext]_streamVars PROVE ShutdownInv'
  OBVIOUS
<1> USE DEF ShutdownInv, readerVars, workerVars, collectorVars
<1>1. CASE ReadChunk
  <2> USE <1>1 DEF ReadChunk
  <2>1. chunksRead + 1 \in DOMAIN ChunkLen /\ ChunkLen[chunksRead + 1] \in Nat
    BY SMTT(30) DEF StreamTypes
  <2>2. StreamTypes'
    <3>1. chunks' \in Seq(Chunk)
      BY <2>1 DEF StreamTypes, Chunk
    <3>2. chunksRead' \in 0..Len(ChunkLen) /\ offset' \in Nat
      BY <2>1, SMTT(30) DEF StreamTypes
    <3>3. QED
      BY <3>1, <3>2 DEF StreamTypes
  <2>3. Shutdown' /\ NoPanic'
    BY DEF Shutdown, NoPanic
  <2>4. QED
    BY <2>2, <2>3
<1>2. CASE ReadEnds
  BY <1>2 DEF ReadEnds, StreamTypes, Shutdown, NoPanic
<1>3. CASE CloseResults
  BY <1>3 DEF CloseResults, StreamTypes, Shutdown, NoPanic
<1>4. CASE StreamReturn
  BY <1>4 DEF StreamReturn, StreamTypes, Shutdown, NoPanic
<1>5. ASSUME NEW w \in Worker, TakeChunk(w) PROVE ShutdownInv'
  <2> USE <1>5 DEF TakeChunk
  <2>1. /\ Tail(chunks) \in Seq(Chunk)
        /\ Head(chunks) \in Chunk
    BY HeadTailProperties DEF StreamTypes
  <2>2. /\ workResult' \in [Worker -> ChunkResult]
        /\ workResult'[w].chunk \in DOMAIN ChunkLen
        /\ \A v \in Worker : v # w => workResult'[v] = workResult[v]
    <3> DEFINE x == [chunk |-> Head(chunks).chunk, offset |-> Head(chunks).offset,
                     len |-> 0, err |-> FALSE]
    <3>1. /\ Head(chunks).chunk \in DOMAIN ChunkLen /\ Head(chunks).chunk \in Nat
          /\ Head(chunks).offset \in Nat
      BY <2>1, SMTT(30) DEF Chunk
    <3>2. x \in ChunkResult /\ x.chunk \in DOMAIN ChunkLen
      BY <3>1 DEF ChunkResult
    <3>3. workResult' = [workResult EXCEPT ![w] = x]
      BY Zenon
    <3> HIDE DEF x
    <3>4. QED
      BY <3>2, <3>3 DEF StreamTypes
  <2>3. StreamTypes'
    BY <2>1, <2>2 DEF StreamTypes
  <2>4. Shutdown' /\ NoPanic'
    BY DEF Shutdown, NoPanic, StreamTypes
  <2>5. QED
    BY <2>3, <2>4
<1>6. ASSUME NEW w \in Worker, ProcessChunk(w) PROVE ShutdownInv'
  <2> USE <1>6 DEF ProcessChunk
  <2>1. /\ workResult[w] \in ChunkResult /\ workResult[w].chunk \in DOMAIN ChunkLen
        /\ ChunkLen[workResult[w].chunk] \in Nat
    BY DEF StreamTypes
  <2>2. PICK n \in Processed(workResult[w].chunk), e \in BOOLEAN :
          workResult' = [workResult EXCEPT ![w].len = n, ![w].err = e]
    OBVIOUS
  <2>3. n \in Nat
    BY <2>1, <2>2 DEF Processed
  <2>4. workResult'[w] = [workResult[w] EXCEPT !.len = n, !.err = e]
    BY <2>2 DEF StreamTypes
  <2>5. workResult'[w] \in ChunkResult /\ workResult'[w].chunk = workResult[w].chunk
    BY <2>1, <2>3, <2>4 DEF ChunkResult
  <2>6. workResult' \in [Worker -> ChunkResult]
    BY <2>2, <2>5 DEF StreamTypes
  <2>7. StreamTypes'
    BY <2>1, <2>2, <2>5, <2>6 DEF StreamTypes
  <2>8. Shutdown' /\ NoPanic'
    BY DEF Shutdown, NoPanic, StreamTypes
  <2>9. QED
    BY <2>7, <2>8
<1>7. ASSUME NEW w \in Worker, SendResult(w) PROVE ShutdownInv'
  <2> USE <1>7 DEF SendResult
  <2>1. resultsOpen /\ results' = Append(results, workResult[w]) /\ readerPc' = readerPc
    BY DEF Shutdown
  <2>2. results' \in Seq(ChunkResult) /\ workResult' \in [Worker -> ChunkResult]
    BY <2>1 DEF StreamTypes, ChunkResult, NoResult
  <2>3. StreamTypes'
    BY <2>1, <2>2 DEF StreamTypes
  <2>4. Shutdown' /\ NoPanic'
    BY <2>1 DEF Shutdown, NoPanic, StreamTypes
  <2>5. QED
    BY <2>3, <2>4
<1>8. ASSUME NEW w \in Worker, StreamWorkerEnds(w) PROVE ShutdownInv'
  BY <1>8 DEF StreamWorkerEnds, StreamTypes, Shutdown, NoPanic
<1>9. ASSUME NEW r \in ChunkResult, WriteResult(r) PROVE written' \in Seq(Nat) /\ nextOffset' \in Nat
  BY <1>9, SMTT(30) DEF WriteResult, StreamTypes, ChunkResult
<1>10. CASE Collect
  <2> USE <1>10 DEF Collect
  <2>1. /\ Tail(results) \in Seq(ChunkResult) /\ Head(results) \in ChunkResult
    BY HeadTailProperties DEF StreamTypes
  <2>2. /\ written' \in Seq(Nat) /\ nextOffset' \in Nat /\ buffer' \subseteq ChunkResult
        /\ collectorPc' \in {"take", "flush"}
    BY <1>9, <2>1 DEF StreamTypes
  <2>3. StreamTypes'
    BY <2>1, <2>2 DEF StreamTypes
  <2>4. Shutdown' /\ NoPanic'
    BY <2>2 DEF Shutdown, NoPanic
  <2>5. QED
    BY <2>3, <2>4
<1>11. CASE Flush
  <2> USE <1>11 DEF Flush
  <2>1. written' \in Seq(Nat) /\ nextOffset' \in Nat /\ buffer' \subseteq ChunkResult
    BY <1>9 DEF StreamTypes
  <2>2. QED
    BY <2>1 DEF StreamTypes, Shutdown, NoPanic
<1>12. CASE FlushEnds \/ CollectorEnds
  BY <1>12, SMTT(30) DEF FlushEnds, CollectorEnds, StreamTypes, Shutdown, NoPanic
<1>13. CASE UNCHANGED streamVars
  BY <1>13 DEF streamVars, StreamTypes, Shutdown, NoPanic
<1>14. QED
  BY <1>1, <1>2, <1>3, <1>4, <1>5, <1>6, <1>7, <1>8, <1>10, <1>11, <1>12, <1>13
    DEF StreamNext, StreamReader, StreamWork, StreamCollector, StreamFinished

\* Whatever the processor makes of the chunks, the two channels are closed in
\* an order in which no worker sends on a closed one, which would end the
\* process (ProcessReader, worker).
THEOREM NeverSendsOnClosed == StreamSpec => []NoPanic
<1>1. StreamSpec => []ShutdownInv
  BY ShutdownStart, ShutdownStep, PTL DEF StreamSpec
<1>2. QED
  BY <1>1, PTL DEF ShutdownInv
-----------------------------------------------------------------------------
(* The order of the output, for processing that keeps the lengths.  f[c]   *)
(* is where chunk c ends in the input, and f[c - 1] where it starts.       *)

Starts(f, n, end) ==
  /\ f \in [Nat -> Nat] /\ f[0] = 0 /\ f[n] = end
  /\ \A i \in 1..n : f[i] = f[i - 1] + ChunkLen[i]
  /\ \A i \in 0..n : \A j \in 0..n : i < j => f[i] < f[j]

\* What carries the number and the offset of one of the first n chunks, and
\* a result of its length.
Located(x, f, n) == x.chunk \in 1..n /\ x.offset = f[x.chunk - 1]
Whole(x, f, n) == Located(x, f, n) /\ x.len = ChunkLen[x.chunk]

\* Chunks and results carry the offset of their chunk wherever they are, and
\* the collector waits for the offset of the first chunk it has not written.
Placed(f) ==
  /\ \A i \in 1..Len(chunks) : Located(chunks[i], f, chunksRead)
  /\ \A w \in Worker :
       /\ workerPc[w] = "process" => Located(workResult[w], f, chunksRead)
       /\ workerPc[w] = "send" => Whole(workResult[w], f, chunksRead)
  /\ \A i \in 1..Len(results) : Whole(results[i], f, chunksRead)
  /\ \A r \in buffer : Whole(r, f, chunksRead)
  /\ Len(written) <= chunksRead /\ nextOffset = f[Len(written)]

OffsetsFit == \E f : Starts(f, chunksRead, offset) /\ Placed(f)

\* No chunk that was read disappears before it is written, until one fails.
Somewhere(c) ==
  \/ \E i \in 1..Len(chunks) : chunks[i].chunk = c
  \/ \E w \in Worker : workerPc[w] \in {"process", "send"} /\ workResult[w].chunk = c
  \/ \E i \in 1..Len(results) : results[i].chunk = c
  \/ \E r \in buffer : r.chunk = c
  \/ c <= Len(written)
  \/ chunkFailed = TRUE

Kept == \A c \in 1..chunksRead : Somewhere(c)

\* Unless it is looking, the collector holds no result it could write.
NothingDue == collectorPc # "flush" => \A r \in buffer : r.offset # nextOffset

StreamInv == ShutdownInv /\ OffsetsFit /\ Kept /\ NothingDue /\ InOrder

HIDE StreamingAssumption

\* One more chunk: its end is added to f.
LEMMA OneMoreChunk ==
  ASSUME NEW n \in Nat, NEW end \in Nat, NEW len \in Nat, len > 0, ChunkLen[n + 1] = len,
         NEW f, Starts(f, n, end)
  PROVE  \E g : Starts(g, n + 1, end + len) /\ \A i \in 0..n : g[i] = f[i]
<1> DEFINE g == [f EXCEPT ![n + 1] = end + len]
<1>1. f \in [Nat -> Nat] /\ f[0] = 0 /\ f[n] = end
  BY DEF Starts
<1>2. g \in [Nat -> Nat] /\ g[n + 1] = end + len /\ \A i \in 0..n : g[i] = f[i]
  BY <1>1
<1>3. \A i \in 0..n : \A j \in 0..n : i < j => f[i] < f[j]
  BY DEF Starts
<1>4. \A i \in 1..n : f[i] = f[i - 1] + ChunkLen[i]
  BY DEF Starts
<1> HIDE DEF g
<1>5. ASSUME NEW i \in 1..(n + 1) PROVE g[i] = g[i - 1] + ChunkLen[i]
  <2>1. CASE i = n + 1
    BY <1>1, <1>2, <2>1
  <2>2. CASE i \in 1..n
    <3>1. i \in 0..n /\ i - 1 \in 0..n
      BY <2>2
    <3>2. QED
      BY <1>2, <1>4, <2>2, <3>1
  <2>3. QED
    BY <2>1, <2>2
<1>6. ASSUME NEW i \in 0..(n + 1), NEW j \in 0..(n + 1), i < j PROVE g[i] < g[j]
  <2>1. i \in 0..n /\ f[i] \in Nat
    BY <1>1, <1>6
  <2>2. CASE j = n + 1
    <3>1. f[i] <= end
      BY <1>1, <1>3, <2>1
    <3>2. QED
      BY <1>2, <2>1, <2>2, <3>1
  <2>3. CASE j \in 0..n
    BY <1>2, <1>3, <1>6, <2>1, <2>3
  <2>4. QED
    BY <2>2, <2>3
<1>7. g[0] = 0
  BY <1>1, <1>2
<1>8. Starts(g, n + 1, end + len)
  BY <1>2, <1>5, <1>6, <1>7 DEF Starts
<1>9. QED
  BY <1>2, <1>8

\* Two chunks do not start at one place, and a chunk ends where the next
\* starts.
LEMMA StartsDiffer ==
  ASSUME NEW n \in Nat, NEW end, NEW f, Starts(f, n, end), NEW k \in Nat, k <= n,
         NEW m \in 1..n, f[m - 1] = f[k]
  PROVE  m = k + 1 /\ f[k + 1] = f[k] + ChunkLen[m]
<1>1. m - 1 \in 0..n /\ k \in 0..n /\ f[k] \in Nat
  BY DEF Starts
<1>2. ~(m - 1 < k) /\ ~(k < m - 1)
  BY <1>1 DEF Starts
<1>3. m = k + 1
  BY <1>2
<1>4. QED
  BY <1>3 DEF Starts

LEMMA LocatedStays ==
  ASSUME NEW n \in Nat, NEW f, NEW g, \A i \in 0..n : g[i] = f[i], NEW x
  PROVE  /\ Located(x, f, n) => Located(x, g, n + 1)
         /\ Whole(x, f, n) => Whole(x, g, n + 1)
<1>1. \A m \in 1..n : m \in 1..(n + 1) /\ g[m - 1] = f[m - 1]
  OBVIOUS
<1>2. QED
  BY <1>1 DEF Located, Whole

LEMMA StreamStart == StreamInit => StreamInv
<1> SUFFICES ASSUME StreamInit PROVE StreamInv
  OBVIOUS
<1> USE DEF StreamInit
<1>1. OffsetsFit
  <2> DEFINE f == [i \in Nat |-> 0]
  <2>1. Starts(f, chunksRead, offset)
    BY DEF Starts
  <2>2. Placed(f)
    BY DEF Placed
  <2>3. QED
    BY <2>1, <2>2 DEF OffsetsFit
<1>2. Kept /\ NothingDue /\ InOrder
  BY DEF Kept, NothingDue, InOrder
<1>3. QED
  BY <1>1, <1>2, ShutdownStart DEF StreamInv

\* A result at the offset that is due is the first chunk not yet written, and
\* after it the next one is due.
LEMMA DueIsNext ==
  ASSUME StreamTypes, NEW f, Starts(f, chunksRead, offset), Len(written) <= chunksRead,
         nextOffset = f[Len(written)], InOrder,
         NEW r \in ChunkResult, Whole(r, f, chunksRead), r.offset = nextOffset, WriteResult(r)
  PROVE  /\ r.chunk = Len(written) + 1 /\ Len(written') = Len(written) + 1
         /\ Len(written') <= chunksRead /\ nextOffset' = f[Len(written')]
         /\ InOrder'
<1> DEFINE k == Len(written)
<1>1. /\ k \in Nat /\ written \in Seq(Nat) /\ DOMAIN written = 1..k /\ chunksRead \in Nat
      /\ \A i \in 1..k : written[i] = i
  <2>1. written \in Seq(Nat) /\ chunksRead \in Nat
    BY StreamingAssumption DEF StreamTypes
  <2>2. QED
    BY <2>1 DEF InOrder
<1>2. r.chunk \in Nat /\ written' = Append(written, r.chunk) /\ nextOffset' = nextOffset + r.len
  BY DEF WriteResult, ChunkResult
<1>3. /\ Len(written') = k + 1 /\ written'[k + 1] = r.chunk /\ DOMAIN written' = 1..(k + 1)
      /\ \A i \in 1..k : written'[i] = written[i]
  BY <1>1, <1>2, AppendProperties
<1>4. r.chunk = k + 1 /\ f[k + 1] = f[k] + ChunkLen[r.chunk]
  <2>1. r.chunk \in 1..chunksRead /\ f[r.chunk - 1] = f[k]
    BY DEF Whole, Located
  <2> HIDE DEF k
  <2>2. k <= chunksRead
    BY DEF k
  <2>3. QED
    BY <1>1, <2>1, <2>2, StartsDiffer
<1>5. nextOffset' = f[k + 1]
  BY <1>2, <1>4 DEF Whole
<1>6. InOrder'
  <2> HIDE DEF k
  <2>1. QED
    BY <1>1, <1>3, <1>4 DEF InOrder
<1>7. k + 1 <= chunksRead
  BY <1>4 DEF Whole, Located
<1>8. QED
  BY <1>3, <1>4, <1>5, <1>6, <1>7

LEMMA StreamStep == Preserving /\ StreamInv /\ [StreamNext]_streamVars => StreamInv'
<1> SUFFICES ASSUME Preserving, StreamInv, [StreamNext]_streamVars
             PROVE  OffsetsFit' /\ Kept' /\ NothingDue' /\ InOrder'
  BY ShutdownStep DEF StreamInv
<1> USE DEF readerVars, workerVars, collectorVars
<1>0. StreamTypes /\ Kept /\ NothingDue /\ InOrder
  BY DEF StreamInv, ShutdownInv
<1>f. PICK f : Starts(f, chunksRead, offset) /\ Placed(f)
  BY DEF StreamInv, OffsetsFit
<1>l. chunksRead \in Nat /\ Len(written) \in Nat /\ Len(chunks) \in Nat /\ Len(results) \in Nat
  BY <1>0, StreamingAssumption DEF StreamTypes
<1>1. CASE ReadChunk
  <2> USE <1>1 DEF ReadChunk
  <2> DEFINE n == chunksRead + 1
             x == [chunk |-> n, offset |-> offset]
  <2>1. /\ n \in DOMAIN ChunkLen /\ ChunkLen[n] \in Nat /\ ChunkLen[n] > 0 /\ offset \in Nat
        /\ chunksRead' = n /\ offset' = offset + ChunkLen[n]
    BY <1>0, StreamingAssumption, SMTT(30) DEF StreamTypes
  <2>2. PICK g : Starts(g, n, offset + ChunkLen[n]) /\ \A i \in 0..chunksRead : g[i] = f[i]
    BY <1>f, <1>l, <2>1, OneMoreChunk
  <2>3. /\ Len(chunks') = Len(chunks) + 1 /\ chunks'[Len(chunks) + 1] = x
        /\ \A i \in 1..Len(chunks) : chunks'[i] = chunks[i]
    <3>1. x \in Chunk /\ chunks' = Append(chunks, x)
      BY <2>1 DEF Chunk
    <3> HIDE DEF x
    <3>2. QED
      BY <1>0, <3>1, AppendProperties DEF StreamTypes
  <2>4. x.chunk = n /\ Located(x, g, n)
    <3>1. n \in 1..n /\ n - 1 = chunksRead /\ g[chunksRead] = f[chunksRead] /\ f[chunksRead] = offset
      BY <1>f, <1>l, <2>2 DEF Starts
    <3>2. QED
      BY <3>1 DEF Located
  <2> HIDE DEF x
  <2>5. \A y : /\ Located(y, f, chunksRead) => Located(y, g, n)
               /\ Whole(y, f, chunksRead) => Whole(y, g, n)
    BY <1>l, <2>2, LocatedStays
  <2>6. Placed(g)'
    <3>1. ASSUME NEW i \in 1..Len(chunks') PROVE Located(chunks'[i], g, n)
      <4>1. CASE i = Len(chunks) + 1
        BY <2>3, <2>4, <4>1
      <4>2. CASE i \in 1..Len(chunks)
        BY <1>f, <2>3, <2>5, <4>2 DEF Placed
      <4>3. QED
        BY <1>l, <2>3, <4>1, <4>2
    <3>2. /\ \A w \in Worker :
               /\ workerPc[w] = "process" => Located(workResult[w], g, n)
               /\ workerPc[w] = "send" => Whole(workResult[w], g, n)
          /\ \A i \in 1..Len(results) : Whole(results[i], g, n)
          /\ \A r \in buffer : Whole(r, g, n)
      BY <1>f, <2>5 DEF Placed
    <3>3. Len(written) <= n /\ nextOffset = g[Len(written)]
      <4>1. Len(written) <= chunksRead /\ nextOffset = f[Len(written)]
        BY <1>f DEF Placed
      <4>2. QED
        BY <1>l, <2>2, <4>1
    <3>4. QED
      BY <2>1, <3>1, <3>2, <3>3 DEF Placed
  <2>7. Kept'
    <3>1. ASSUME NEW c \in 1..chunksRead PROVE Somewhere(c)'
      <4>1. Somewhere(c)
        BY <1>0 DEF Kept
      <4>2. \A i \in 1..Len(chunks) : i \in 1..Len(chunks') /\ chunks'[i] = chunks[i]
        BY <1>l, <2>3
      <4>3. QED
        BY <4>1, <4>2 DEF Somewhere
    <3>2. ASSUME NEW c, c = n PROVE Somewhere(c)'
      <4>1. Len(chunks) + 1 \in 1..Len(chunks') /\ chunks'[Len(chunks) + 1].chunk = c
        BY <1>l, <2>3, <2>4, <3>2
      <4>2. QED
        BY <4>1 DEF Somewhere
    <3>3. QED
      BY <1>l, <2>1, <3>1, <3>2 DEF Kept
  <2>8. NothingDue' /\ InOrder'
    BY <1>0 DEF NothingDue, InOrder
  <2>9. QED
    BY <2>1, <2>2, <2>6, <2>7, <2>8 DEF OffsetsFit
<1>2. ASSUME chunksRead' = chunksRead, offset' = offset PROVE Starts(f, chunksRead', offset')
  BY <1>f, <1>2 DEF Starts
<1>4. CASE ReadEnds \/ CloseResults \/ StreamReturn \/ UNCHANGED streamVars
  <2>1. /\ UNCHANGED <<chunksRead, offset, chunks, results, workerVars, collectorVars>>
    BY <1>4 DEF ReadEnds, CloseResults, StreamReturn, streamVars
  <2>2. Placed(f)'
    BY <1>f, <2>1 DEF Placed, Located, Whole
  <2>3. Kept' /\ NothingDue' /\ InOrder'
    BY <1>0, <2>1 DEF Kept, Somewhere, NothingDue, InOrder
  <2>4. QED
    BY <1>2, <2>1, <2>2, <2>3 DEF OffsetsFit
<1>5. ASSUME NEW w \in Worker, TakeChunk(w) PROVE OffsetsFit' /\ Kept' /\ NothingDue' /\ InOrder'
  <2> USE <1>5 DEF TakeChunk
  <2>1. /\ Head(chunks) = chunks[1] /\ Len(chunks) >= 1 /\ Len(chunks') = Len(chunks) - 1
        /\ \A i \in 1..Len(chunks') : chunks'[i] = chunks[i + 1]
        /\ chunks[1] \in Chunk
    BY <1>0, HeadTailProperties DEF StreamTypes
  <2>2. /\ workResult'[w].chunk = chunks[1].chunk /\ workResult'[w].offset = chunks[1].offset
        /\ workerPc'[w] = "process"
        /\ \A v \in Worker : v # w => workResult'[v] = workResult[v] /\ workerPc'[v] = workerPc[v]
    BY <1>0, <2>1 DEF StreamTypes
  <2>3. Placed(f)'
    <3>1. \A i \in 1..Len(chunks') : Located(chunks'[i], f, chunksRead)
      BY <1>f, <1>l, <2>1 DEF Placed
    <3>2. \A v \in Worker :
               /\ workerPc'[v] = "process" => Located(workResult'[v], f, chunksRead)
               /\ workerPc'[v] = "send" => Whole(workResult'[v], f, chunksRead)
      <4>1. Located(workResult'[w], f, chunksRead)
        BY <1>f, <1>l, <2>1, <2>2 DEF Placed, Located
      <4>2. QED
        BY <1>f, <2>2, <4>1 DEF Placed
    <3>3. QED
      BY <1>f, <3>1, <3>2 DEF Placed, Located, Whole
  <2>4. Kept'
    <3>1. ASSUME NEW c \in 1..chunksRead, NEW i \in 1..Len(chunks), chunks[i].chunk = c
          PROVE  Somewhere(c)'
      <4>1. CASE i = 1
        BY <2>2, <3>1, <4>1 DEF Somewhere
      <4>2. CASE i # 1
        <5>1. i - 1 \in 1..Len(chunks') /\ chunks'[i - 1].chunk = c
          BY <1>l, <2>1, <3>1, <4>2
        <5>2. QED
          BY <5>1 DEF Somewhere
      <4>3. QED
        BY <4>1, <4>2
    <3>2. ASSUME NEW c \in 1..chunksRead, NEW v \in Worker, workerPc[v] \in {"process", "send"},
                 workResult[v].chunk = c
          PROVE  Somewhere(c)'
      BY <2>2, <3>2 DEF Somewhere
    <3>3. QED
      BY <1>0, <3>1, <3>2 DEF Kept, Somewhere
  <2>5. NothingDue' /\ InOrder'
    BY <1>0 DEF NothingDue, InOrder
  <2>6. QED
    BY <1>2, <2>3, <2>4, <2>5 DEF OffsetsFit
<1>6. ASSUME NEW w \in Worker, ProcessChunk(w) PROVE OffsetsFit' /\ Kept' /\ NothingDue' /\ InOrder'
  <2> USE <1>6 DEF ProcessChunk
  <2>1. PICK n \in Processed(workResult[w].chunk), e \in BOOLEAN :
          workResult' = [workResult EXCEPT ![w].len = n, ![w].err = e]
    OBVIOUS
  <2>2. n = ChunkLen[workResult[w].chunk]
    BY <2>1 DEF Processed
  <2>3. /\ workResult'[w].chunk = workResult[w].chunk /\ workResult'[w].offset = workResult[w].offset
        /\ workResult'[w].len = n /\ workerPc'[w] = "send"
        /\ \A v \in Worker : v # w => workResult'[v] = workResult[v] /\ workerPc'[v] = workerPc[v]
    BY <1>0, <2>1 DEF StreamTypes, ChunkResult
  <2>4. Placed(f)'
    <3>1. Whole(workResult'[w], f, chunksRead)
      BY <1>f, <2>2, <2>3 DEF Placed, Located, Whole
    <3>2. \A v \in Worker :
               /\ workerPc'[v] = "process" => Located(workResult'[v], f, chunksRead)
               /\ workerPc'[v] = "send" => Whole(workResult'[v], f, chunksRead)
      BY <1>f, <2>3, <3>1 DEF Placed
    <3>3. QED
      BY <1>f, <3>2 DEF Placed, Located, Whole
  <2>5. Kept'
    <3>1. \A v \in Worker : workerPc[v] \in {"process", "send"} =>
            workerPc'[v] \in {"process", "send"} /\ workResult'[v].chunk = workResult[v].chunk
      BY <2>3
    <3>2. ASSUME NEW c \in 1..chunksRead PROVE Somewhere(c)'
      <4>1. Somewhere(c)
        BY <1>0 DEF Kept
      <4>2. /\ chunks' = chunks /\ results' = results /\ buffer' = buffer /\ written' = written
            /\ chunkFailed' = chunkFailed
        OBVIOUS
      <4>3. QED
        BY <3>1, <4>1, <4>2, Zenon DEF Somewhere
    <3>3. QED
      BY <3>2 DEF Kept
  <2>6. NothingDue' /\ InOrder'
    BY <1>0 DEF NothingDue, InOrder
  <2>7. QED
    BY <1>2, <2>4, <2>5, <2>6 DEF OffsetsFit
<1>7. ASSUME NEW w \in Worker, SendResult(w) PROVE OffsetsFit' /\ Kept' /\ NothingDue' /\ InOrder'
  <2> USE <1>7 DEF SendResult
  <2>1. results' = Append(results, workResult[w])
    BY DEF StreamInv, ShutdownInv, Shutdown
  <2>2. /\ Len(results') = Len(results) + 1 /\ results'[Len(results) + 1] = workResult[w]
        /\ \A i \in 1..Len(results) : results'[i] = results[i]
    BY <1>0, <2>1, AppendProperties DEF StreamTypes
  <2>3. /\ workerPc'[w] = "take"
        /\ \A v \in Worker : v # w => workResult'[v] = workResult[v] /\ workerPc'[v] = workerPc[v]
    BY <1>0 DEF StreamTypes
  <2>4. Placed(f)'
    <3>1. \A i \in 1..Len(results') : Whole(results'[i], f, chunksRead)
      BY <1>f, <1>l, <2>2 DEF Placed
    <3>2. \A v \in Worker :
               /\ workerPc'[v] = "process" => Located(workResult'[v], f, chunksRead)
               /\ workerPc'[v] = "send" => Whole(workResult'[v], f, chunksRead)
      BY <1>f, <2>3 DEF Placed
    <3>3. QED
      BY <1>f, <3>1, <3>2 DEF Placed, Located, Whole
  <2>5. Kept'
    <3>1. ASSUME NEW c \in 1..chunksRead, NEW v \in Worker, workerPc[v] \in {"process", "send"},
                 workResult[v].chunk = c
          PROVE  Somewhere(c)'
      <4>1. CASE v = w
        BY <1>l, <2>2, <3>1, <4>1 DEF Somewhere
      <4>2. CASE v # w
        BY <2>3, <3>1, <4>2 DEF Somewhere
      <4>3. QED
        BY <4>1, <4>2
    <3>2. ASSUME NEW c \in 1..chunksRead, NEW i \in 1..Len(results), results[i].chunk = c
          PROVE  Somewhere(c)'
      BY <1>l, <2>2, <3>2 DEF Somewhere
    <3>3. QED
      BY <1>0, <3>1, <3>2 DEF Kept, Somewhere
  <2>6. NothingDue' /\ InOrder'
    BY <1>0 DEF NothingDue, InOrder
  <2>7. QED
    BY <1>2, <2>4, <2>5, <2>6 DEF OffsetsFit
<1>8. ASSUME NEW w \in Worker, StreamWorkerEnds(w) PROVE OffsetsFit' /\ Kept' /\ NothingDue' /\ InOrder'
  <2> USE <1>8 DEF StreamWorkerEnds
  <2>1. Placed(f)'
    BY <1>0, <1>f DEF Placed, Located, Whole, StreamTypes
  <2>2. Kept' /\ NothingDue' /\ InOrder'
    BY <1>0 DEF Kept, Somewhere, NothingDue, InOrder, StreamTypes
  <2>3. QED
    BY <1>2, <2>1, <2>2 DEF OffsetsFit
<1>9. CASE Collect
  <2> USE <1>9 DEF Collect
  <2> DEFINE r == Head(results)
  <2>1. /\ r = results[1] /\ Len(results) >= 1 /\ Len(results') = Len(results) - 1
        /\ \A i \in 1..Len(results') : results'[i] = results[i + 1]
        /\ r \in ChunkResult
    BY <1>0, HeadTailProperties DEF StreamTypes
  <2>2. Whole(r, f, chunksRead) /\ \A i \in 1..Len(results') : Whole(results'[i], f, chunksRead)
    BY <1>f, <1>l, <2>1 DEF Placed
  <2>3. ASSUME NEW c \in 1..chunksRead, NEW i \in 1..Len(results), results[i].chunk = c, r.chunk # c
        PROVE  Somewhere(c)'
    <3>1. i - 1 \in 1..Len(results') /\ results'[i - 1].chunk = c
      BY <1>l, <2>1, <2>3
    <3>2. QED
      BY <3>1 DEF Somewhere
  <2> HIDE DEF r
  <2>4. CASE r.err
    <3>1. chunkFailed' = TRUE /\ UNCHANGED <<collectorPc, buffer, nextOffset, written>>
      BY <2>4 DEF r
    <3>2. Placed(f)'
      BY <1>f, <2>2, <3>1 DEF Placed, Located, Whole
    <3>3. Kept' /\ NothingDue' /\ InOrder'
      BY <1>0, <3>1 DEF Kept, Somewhere, NothingDue, InOrder
    <3>4. QED
      BY <1>2, <3>2, <3>3 DEF OffsetsFit
  <2>5. CASE ~r.err /\ r.offset = nextOffset
    <3>1. WriteResult(r) /\ collectorPc' = "flush" /\ UNCHANGED <<buffer, chunkFailed>>
      BY <2>5 DEF r
    <3>2. /\ r.chunk = Len(written) + 1 /\ Len(written') = Len(written) + 1
          /\ Len(written') <= chunksRead /\ nextOffset' = f[Len(written')]
          /\ InOrder'
      BY <1>0, <1>f, <2>1, <2>2, <2>5, <3>1, DueIsNext DEF Placed
    <3>3. Placed(f)'
      BY <1>f, <2>2, <3>1, <3>2 DEF Placed, Located, Whole
    <3>4. Kept'
      <4> SUFFICES ASSUME NEW c \in 1..chunksRead PROVE Somewhere(c)'
        BY DEF Kept
      <4>1. CASE c = r.chunk \/ c <= Len(written)
        BY <1>l, <3>2, <4>1 DEF Somewhere
      <4>2. CASE c # r.chunk /\ ~(c <= Len(written))
        BY <1>0, <2>3, <3>1, <4>2 DEF Kept, Somewhere
      <4>3. QED
        BY <4>1, <4>2
    <3>5. QED
      BY <1>2, <3>1, <3>2, <3>3, <3>4 DEF OffsetsFit, NothingDue
  <2>6. CASE ~r.err /\ r.offset # nextOffset
    <3>1. buffer' = buffer \union {r} /\ UNCHANGED <<collectorPc, nextOffset, written, chunkFailed>>
      BY <2>6 DEF r
    <3>2. Placed(f)'
      BY <1>f, <2>2, <3>1 DEF Placed, Located, Whole
    <3>3. Kept'
      <4> SUFFICES ASSUME NEW c \in 1..chunksRead PROVE Somewhere(c)'
        BY DEF Kept
      <4>1. CASE c = r.chunk
        BY <3>1, <4>1 DEF Somewhere
      <4>2. CASE c # r.chunk
        BY <1>0, <2>3, <3>1, <4>2 DEF Kept, Somewhere
      <4>3. QED
        BY <4>1, <4>2
    <3>4. NothingDue' /\ InOrder'
      BY <1>0, <2>6, <3>1 DEF NothingDue, InOrder
    <3>5. QED
      BY <1>2, <3>2, <3>3, <3>4 DEF OffsetsFit
  <2>7. QED
    BY <2>4, <2>5, <2>6
<1>10. CASE Flush
  <2> USE <1>10 DEF Flush
  <2>1. PICK r \in buffer : r.offset = nextOffset /\ WriteResult(r) /\ buffer' = buffer \ {r}
    OBVIOUS
  <2>2. r \in ChunkResult /\ Whole(r, f, chunksRead)
    BY <1>0, <1>f DEF StreamTypes, Placed
  <2>3. /\ r.chunk = Len(written) + 1 /\ Len(written') = Len(written) + 1
        /\ Len(written') <= chunksRead /\ nextOffset' = f[Len(written')]
        /\ InOrder'
    BY <1>0, <1>f, <2>1, <2>2, DueIsNext DEF Placed
  <2>4. Placed(f)'
    BY <1>f, <2>1, <2>3 DEF Placed, Located, Whole
  <2>5. Kept'
    <3> SUFFICES ASSUME NEW c \in 1..chunksRead PROVE Somewhere(c)'
      BY DEF Kept
    <3>1. CASE c = r.chunk \/ c <= Len(written)
      BY <1>l, <2>3, <3>1 DEF Somewhere
    <3>2. CASE c # r.chunk /\ ~(c <= Len(written))
      BY <1>0, <2>1, <3>2 DEF Kept, Somewhere
    <3>3. QED
      BY <3>1, <3>2
  <2>6. QED
    BY <1>2, <2>3, <2>4, <2>5 DEF OffsetsFit, NothingDue
<1>11. CASE FlushEnds \/ CollectorEnds
  <2>1. /\ UNCHANGED <<chunksRead, offset, chunks, results, workerVars, buffer, nextOffset,
                       written, chunkFailed>>
        /\ \A r \in buffer : r.offset # nextOffset
    BY <1>0, <1>11 DEF FlushEnds, CollectorEnds, NothingDue
  <2>2. Placed(f)'
    BY <1>f, <2>1 DEF Placed, Located, Whole
  <2>3. Kept' /\ NothingDue' /\ InOrder'
    BY <1>0, <2>1 DEF Kept, Somewhere, NothingDue, InOrder
  <2>4. QED
    BY <1>2, <2>1, <2>2, <2>3 DEF OffsetsFit
<1>12. QED
  BY <1>1, <1>4, <1>5, <1>6, <1>7, <1>8, <1>9, <1>10, <1>11
    DEF StreamNext, StreamReader, StreamWork, StreamCollector, StreamFinished

\* When ProcessReader returns, every place but the buffer is empty, and the
\* first chunk that was not written would be due there.
LEMMA WrittenFromInv == StreamInv => OutputIsInput
<1> SUFFICES ASSUME StreamInv, readerPc = "done", chunkFailed # TRUE
             PROVE  {written[i] : i \in DOMAIN written} = 1..chunksRead
  BY Zenon DEF StreamInv, OutputIsInput, AllWritten
<1> USE DEF StreamInv, ShutdownInv
<1>1. PICK f : Starts(f, chunksRead, offset) /\ Placed(f)
  BY DEF OffsetsFit
<1>2. /\ results = << >> /\ collectorPc = "done" /\ \A w \in Worker : workerPc[w] = "done"
      /\ chunks = << >>
  BY StreamingAssumption DEF Shutdown
<1>3. Len(written) \in Nat /\ chunksRead \in Nat /\ Len(written) <= chunksRead
  BY <1>1, StreamingAssumption DEF StreamTypes, Placed
<1>4. ~(Len(written) < chunksRead)
  <2> SUFFICES ASSUME Len(written) < chunksRead PROVE FALSE
    OBVIOUS
  <2>1. Somewhere(Len(written) + 1)
    BY <1>3 DEF Kept
  <2>2. Len(chunks) = 0 /\ Len(results) = 0
    BY <1>2
  <2>3. PICK r \in buffer : r.chunk = Len(written) + 1
    <3>1. 1..Len(chunks) = {} /\ 1..Len(results) = {}
      BY <2>2
    <3>2. ~(Len(written) + 1 <= Len(written))
      BY <1>3
    <3>3. \A w \in Worker : workerPc[w] \notin {"process", "send"}
      BY <1>2
    <3>4. QED
      BY <2>1, <3>1, <3>2, <3>3, Zenon DEF Somewhere
  <2>4. r.offset = nextOffset
    BY <1>1, <1>3, <2>3 DEF Placed, Whole, Located
  <2>5. QED
    BY <1>2, <2>3, <2>4 DEF NothingDue
<1>5. Len(written) = chunksRead
  BY <1>3, <1>4
<1>6. DOMAIN written = 1..Len(written)
  BY DEF StreamTypes
<1>7. {written[i] : i \in DOMAIN written} = DOMAIN written
  BY DEF InOrder
<1>8. QED
  BY <1>5, <1>6, <1>7

\* With no processor, or one that keeps the length of a chunk, ProcessReader
\* writes its input: in order whatever order the workers finish in, and all
\* of it unless a chunk failed, for any number of workers, input and capacity.
THEOREM OutputIsTheInput == Preserving => (StreamSpec => []OutputIsInput)
<1> SUFFICES ASSUME Preserving PROVE StreamSpec => []OutputIsInput
  OBVIOUS
<1>1. StreamInv /\ [StreamNext]_streamVars => StreamInv'
  BY StreamStep
<1>2. StreamSpec => []StreamInv
  BY <1>1, StreamStart, PTL DEF StreamSpec
<1>3. QED
  BY <1>2, WrittenFromInv, PTL
=============================================================================
