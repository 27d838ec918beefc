-------------------------- MODULE PipelineManager --------------------------
(***************************************************************************)
(* internal/filter/manager.go: goroutines sharing one PipelineManager.     *)
(* Every step below is what one goroutine does between taking and          *)
(* releasing a lock (m.mu or the cache's); a request passes through        *)
(*                                                                         *)
(*   Start  ->  ReadKey  ->  Lookup  ->  Split  ->  ProcessChunk           *)
(*                                         ^  ->  Post  ->  StoreResult    *)
(*                                                                         *)
(* with one round of the last three per chunk.  What the coordinator makes *)
(* of a chunk is PipelineCoordinator's subject; here it is a piece: the    *)
(* chunk, the configuration it was compressed under, its size and whether  *)
(* it would pass validateOutput.  The cache is the abstract one LRUCache   *)
(* implements; CompressionCache is created beside it but only ever read,   *)
(* since processSingle stores in the LRU cache when there is one.          *)
(***************************************************************************)
EXTENDS ChunkInput, Functions

CONSTANTS
  Proc,              \* goroutines
  Requests,          \* the calls they make, see RequestType
  InitMode,          \* PipelineCfg.Mode
  InitBudget,        \* PipelineCfg.Budget
  InitQuery,         \* PipelineCfg.QueryIntent
  Mode, Query, Budget, Command,
  MaxContextTokens, StreamThreshold, ChunkSize,
  ValidateOutput,    \* the values config.ValidateOutput may have
  FailSafeMode, TeeOnFailure, ShortCircuitBudget, CacheEnabled,
  CacheMaxSize,
  MaxSecond,         \* bound on the clock behind tee file names
  NoKey, NoPiece

RequestType ==
  [entry  : {"Process", "ProcessWithBudget", "ProcessWithQuery"},
   text   : Seq(Line), mode : Mode, query : Query, budget : Budget,
   cmd    : Command,
   isErr  : BOOLEAN]   \* ctx.IsError || ctx.ExitCode != 0

ASSUME ManagerConfigAssumption ==
  /\ Requests \subseteq RequestType
  /\ InitBudget \in Budget /\ Budget \subseteq Nat
  /\ InitQuery \in Query /\ InitMode \in Mode
  /\ ValidateOutput \subseteq BOOLEAN
  /\ {FailSafeMode, TeeOnFailure, ShortCircuitBudget, CacheEnabled} \subseteq BOOLEAN
  /\ CacheMaxSize \in Nat \ {0}
  /\ {MaxContextTokens, StreamThreshold, ChunkSize} \subseteq Nat
  /\ MaxSecond \in Nat

VARIABLES
  budget,   \* coordinator.config.Budget and the enforcer's budget
  mode,     \* coordinator.config.Mode
  query,    \* coordinator.config.QueryIntent
  filters,  \* the query the goal-driven and contrastive filters were built for
  validates,  \* m.config.ValidateOutput, fixed when the manager is made
  cache,    \* m.lruCache: function from a set of keys to pieces
  tee,      \* files in m.teeDir: function from names to the text they hold
  second,   \* wall clock, in the one-second resolution of a tee file name
  pc, req,  \* where each goroutine is and the request it serves
  key,      \* cache key read last
  snap,     \* budget processStreaming read
  todo,     \* chunks not processed yet; the head is in work
  piece,    \* what the coordinator made of the head
  out,      \* pieces of the result so far
  teeFile,  \* result.TeeFile
  disturbed \* history: the budget was changed while another request was served

configVars == <<budget, mode, query, filters, validates, disturbed>>
sharedVars == <<configVars, cache, tee, second>>
localVars == <<pc, req, key, snap, todo, piece, out, teeFile>>
vars == <<sharedVars, localVars>>

NoFile == << >>

\* A piece passes validateOutput unless it is empty, fails the ratio or
\* bracket checks ("unsound"), or the request is about an error whose marker
\* it lost ("unmarked").
Quality == {"good", "unsound", "unmarked"}

\* The coordinator's outputs for chunk c in mode m with filters for q: empty,
\* or of any size up to the chunk's.
Compressed(c, m, q) ==
  LET Pieces(sizes, qualities) ==
        [text : {c}, mode : {m}, query : {q}, budget : {budget}, raw : {FALSE},
         tokens : sizes, quality : qualities]
  IN  Pieces(1..TextTokens(c), Quality) \union Pieces({0}, {"good"})

\* Mutant: the fail-safe returns the output where it should return the input.
RawForgets(p) == [p EXCEPT !.raw = TRUE]

\* The original text, returned by the fail-safe.
Raw(p) ==
  [text |-> p.text, mode |-> p.mode, query |-> p.query, budget |-> p.budget,
   raw |-> TRUE, tokens |-> TextTokens(p.text), quality |-> "good"]

\* The output is empty and the input was not.
Nothing(p) == p.tokens = 0 /\ p.text # << >>

validateOutput(p, r) ==
  /\ ~Nothing(p)
  /\ p.quality # "unsound"
  /\ r.isErr => p.quality # "unmarked"

\* Mutant: the key takes the budget of the manager's configuration.
cacheKeyOfConfig(text, r) ==
  [text |-> text, mode |-> r.mode, cmd |-> r.cmd, query |-> r.query, budget |-> InitBudget]

cacheKey(text, r) ==
  [text |-> text, mode |-> r.mode, cmd |-> r.cmd, query |-> r.query, budget |-> budget]

Init ==
  /\ budget = InitBudget
  /\ mode = InitMode
  /\ query = InitQuery
  /\ filters = InitQuery
  /\ validates \in ValidateOutput
  /\ cache = << >>
  /\ tee = << >>
  /\ second = 0
  /\ disturbed = FALSE
  /\ pc = [p \in Proc |-> "idle"]
  /\ req \in [Proc -> Requests]
  /\ key = [p \in Proc |-> NoKey]
  /\ snap = [p \in Proc |-> 0]
  /\ todo = [p \in Proc |-> << >>]
  /\ piece = [p \in Proc |-> NoPiece]
  /\ out = [p \in Proc |-> << >>]
  /\ teeFile = [p \in Proc |-> NoFile]

-----------------------------------------------------------------------------
\* Mutant: the query is recorded but the filters are not rebuilt.
syncNoRebuild(m, q) == mode' = m /\ query' = q /\ UNCHANGED filters

\* syncCoordinatorForRequest: the filters are rebuilt only for a new query.
syncCoordinatorForRequest(m, q) ==
  /\ mode' = m
  /\ query' = q
  /\ filters' = IF query = q THEN filters ELSE q

\* SetBudget, with the others that are under way.
setBudget(p, b) ==
  /\ budget' = b
  /\ disturbed' = (disturbed \/ (b # budget /\ \E q \in Proc \ {p} : pc[q] # "idle"))

\* Mutant: the budget is set only when the enforcer has none.
StartKeepsBudget(p, r) ==
  /\ pc[p] = "idle"
  /\ req' = [req EXCEPT ![p] = r]
  /\ pc' = [pc EXCEPT ![p] = "key"]
  /\ setBudget(p, IF r.entry = "ProcessWithBudget" /\ budget = InitBudget THEN r.budget ELSE budget)
  /\ IF r.entry = "ProcessWithQuery"
       THEN syncCoordinatorForRequest(r.mode, r.query)
       ELSE UNCHANGED <<mode, query, filters>>
  /\ UNCHANGED <<validates, cache, tee, second, key, snap, todo, piece, out, teeFile>>

\* Process, ProcessWithBudget or ProcessWithQuery is called: the last two
\* reconfigure the shared coordinator under the lock and release it.
Start(p, r) ==
  /\ pc[p] = "idle"
  /\ req' = [req EXCEPT ![p] = r]
  /\ pc' = [pc EXCEPT ![p] = "key"]
  /\ setBudget(p, IF r.entry = "ProcessWithBudget" THEN r.budget ELSE budget)
  /\ IF r.entry = "ProcessWithQuery"
       THEN syncCoordinatorForRequest(r.mode, r.query)
       ELSE UNCHANGED <<mode, query, filters>>
  /\ UNCHANGED <<validates, cache, tee, second, key, snap, todo, piece, out, teeFile>>

\* Process: an input over MaxContextTokens is an error.
TooLarge(p) ==
  /\ pc[p] = "key"
  /\ TextTokens(req[p].text) > MaxContextTokens
  /\ pc' = [pc EXCEPT ![p] = "idle"]
  /\ UNCHANGED <<sharedVars, req, key, snap, todo, piece, out, teeFile>>

ReadKey(p) ==
  /\ pc[p] = "key"
  /\ TextTokens(req[p].text) <= MaxContextTokens
  /\ key' = [key EXCEPT ![p] = cacheKey(req[p].text, req[p])]
  /\ pc' = [pc EXCEPT ![p] = IF CacheEnabled THEN "lookup" ELSE "split"]
  /\ UNCHANGED <<sharedVars, req, snap, todo, piece, out, teeFile>>

LookupHit(p) ==
  /\ pc[p] = "lookup"
  /\ key[p] \in DOMAIN cache
  /\ out' = [out EXCEPT ![p] = <<cache[key[p]]>>]
  /\ pc' = [pc EXCEPT ![p] = "done"]
  /\ UNCHANGED <<sharedVars, req, key, snap, todo, piece, teeFile>>

\* An absent key, or an entry that outlived its TTL and is removed.
LookupMiss(p) ==
  /\ pc[p] = "lookup"
  /\ cache' = Restrict(cache, DOMAIN cache \ {key[p]})
  /\ pc' = [pc EXCEPT ![p] = "split"]
  /\ UNCHANGED <<configVars, tee, second,
                 req, key, snap, todo, piece, out, teeFile>>

Streaming(r) == TextTokens(r.text) > StreamThreshold

\* processStreaming reads the budget and cuts the input; processSingle takes
\* the input as its only chunk.
Split(p) ==
  /\ pc[p] = "split"
  /\ IF Streaming(req[p])
       THEN /\ snap' = [snap EXCEPT ![p] = budget]
            /\ todo' = [todo EXCEPT ![p] = chunkInput(req[p].text, ChunkSize)]
       ELSE /\ todo' = [todo EXCEPT ![p] = <<req[p].text>>]
            /\ UNCHANGED snap
  /\ pc' = [pc EXCEPT ![p] = "process"]
  /\ UNCHANGED <<sharedVars, req, key, piece, out, teeFile>>

\* Mutant: the coordinator is not synchronised inside the critical section.
ProcessChunkUnsynced(p) ==
  /\ pc[p] = "process"
  /\ UNCHANGED <<mode, query, filters>>
  /\ \E o \in Compressed(Head(todo[p]), mode, filters) :
       piece' = [piece EXCEPT ![p] = o]
  /\ pc' = [pc EXCEPT ![p] = "post"]
  /\ UNCHANGED <<budget, validates, disturbed, cache, tee, second,
                 req, key, snap, todo, out, teeFile>>

\* The critical section of processSingle.
ProcessChunk(p) ==
  /\ pc[p] = "process"
  /\ syncCoordinatorForRequest(req[p].mode, req[p].query)
  /\ \E o \in Compressed(Head(todo[p]), mode', filters') :
       piece' = [piece EXCEPT ![p] = o]
  /\ pc' = [pc EXCEPT ![p] = "post"]
  /\ UNCHANGED <<budget, validates, disturbed, cache, tee, second,
                 req, key, snap, todo, out, teeFile>>

\* result.Output after validation, before the test for an empty output.
Validated(p, r) ==
  IF validates /\ ~validateOutput(p, r) /\ FailSafeMode
    THEN Raw(p) ELSE p

\* saveTee's file name: second, command, and a reason that is constant here.
TeeName(r) == <<second, r.cmd>>

\* The rest of processSingle up to the cache: validation, fail-safe, tee, and
\* the cache key, read again from the coordinator's present budget.  The tee
\* files of the chunks of a streamed input are not reported.
Post(p) ==
  /\ pc[p] = "post"
  /\ LET v == Validated(piece[p], req[p])
         empty == Nothing(v)
     IN  /\ piece' = [piece EXCEPT ![p] =
                        IF empty /\ FailSafeMode THEN Raw(v) ELSE v]
         /\ IF empty /\ TeeOnFailure
              THEN /\ tee' = [n \in DOMAIN tee \union {TeeName(req[p])} |->
                                IF n = TeeName(req[p]) THEN v.text ELSE tee[n]]
                   /\ teeFile' = [teeFile EXCEPT ![p] =
                                    IF Streaming(req[p]) THEN NoFile ELSE TeeName(req[p])]
              ELSE UNCHANGED <<tee, teeFile>>
  /\ key' = [key EXCEPT ![p] = cacheKey(Head(todo[p]), req[p])]
  /\ pc' = [pc EXCEPT ![p] = "store"]
  /\ UNCHANGED <<configVars, cache, second, req, snap, todo, out>>

\* lruCache.Set: an update in place, or an insertion that evicts another
\* entry when the cache is full.
CacheSet(k, v) ==
  IF k \in DOMAIN cache
    THEN cache' = [cache EXCEPT ![k] = v]
    ELSE \E E \in SUBSET (DOMAIN cache) :
           /\ Cardinality(E) = IF Cardinality(DOMAIN cache) >= CacheMaxSize THEN 1 ELSE 0
           /\ cache' = [x \in (DOMAIN cache \ E) \union {k} |->
                          IF x = k THEN v ELSE cache[x]]

Size(pieces) == FoldLeft(LAMBDA n, o : n + o.tokens, 0, pieces)

\* Mutant: only the last chunk's output is kept.
StoreResultLast(p) ==
  /\ pc[p] = "store"
  /\ IF CacheEnabled THEN CacheSet(key[p], piece[p]) ELSE UNCHANGED cache
  /\ out' = [out EXCEPT ![p] = <<piece[p]>>]
  /\ todo' = [todo EXCEPT ![p] = Tail(@)]
  /\ pc' = [pc EXCEPT ![p] = IF Tail(todo[p]) = << >> THEN "done" ELSE "process"]
  /\ UNCHANGED <<configVars, tee, second, req, key, snap, piece, teeFile>>

\* processSingle caches and returns; processStreaming appends the chunk and
\* leaves its loop at the end, or once the output so far is within budget.
StoreResult(p) ==
  /\ pc[p] = "store"
  /\ IF CacheEnabled THEN CacheSet(key[p], piece[p]) ELSE UNCHANGED cache
  /\ out' = [out EXCEPT ![p] = Append(@, piece[p])]
  /\ todo' = [todo EXCEPT ![p] = Tail(@)]
  /\ LET shortCircuit == /\ Streaming(req[p]) /\ ShortCircuitBudget
                         /\ snap[p] > 0
                         /\ Size(out'[p]) <= snap[p]
     IN  pc' = [pc EXCEPT ![p] =
                  IF shortCircuit \/ Tail(todo[p]) = << >> THEN "done" ELSE "process"]
  /\ UNCHANGED <<configVars, tee, second, req, key, snap, piece, teeFile>>

\* The caller takes its result; the goroutine's local state goes with it.
Return(p) ==
  /\ pc[p] = "done"
  /\ pc' = [pc EXCEPT ![p] = "idle"]
  /\ key' = [key EXCEPT ![p] = NoKey]
  /\ snap' = [snap EXCEPT ![p] = 0]
  /\ todo' = [todo EXCEPT ![p] = << >>]
  /\ piece' = [piece EXCEPT ![p] = NoPiece]
  /\ out' = [out EXCEPT ![p] = << >>]
  /\ teeFile' = [teeFile EXCEPT ![p] = NoFile]
  /\ UNCHANGED <<sharedVars, req>>

Tick ==
  /\ second < MaxSecond
  /\ second' = second + 1
  /\ UNCHANGED <<configVars, cache, tee, localVars>>

Serve(p) ==
  \/ TooLarge(p) \/ ReadKey(p) \/ LookupHit(p) \/ LookupMiss(p) \/ Split(p)
  \/ ProcessChunk(p) \/ Post(p) \/ StoreResult(p) \/ Return(p)

Next ==
  \/ \E p \in Proc, r \in Requests : Start(p, r)
  \/ \E p \in Proc : Serve(p)
  \/ Tick

Spec == Init /\ [][Next]_vars

-----------------------------------------------------------------------------
\* A piece of result that answers request r for some part of its text.
Answers(o, r) == o.mode = r.mode /\ o.query = r.query

\* No goroutine ever gets a result compressed under another request's mode or
\* query, although all of them reconfigure one coordinator (ProcessWithQuery,
\* syncCoordinatorForRequest) and share one cache.
OwnConfiguration ==
  \A p \in Proc : \A i \in DOMAIN out[p] : Answers(out[p][i], req[p])

\* What the cache holds under a key was made from that key's text, mode and
\* query (cacheKey, processSingle).
CacheHoldsItsKey ==
  \A k \in DOMAIN cache :
    cache[k].text = k.text /\ cache[k].mode = k.mode /\ cache[k].query = k.query

\* "ProcessWithBudget processes with a specific token budget".
BudgetHonoured ==
  \A p \in Proc :
    req[p].entry = "ProcessWithBudget" =>
      \A i \in DOMAIN out[p] : out[p][i].raw \/ out[p][i].budget = req[p].budget

\* ProcessWithBudget keeps its promise among any number of other requests, as
\* long as none of them changes the budget while another is served: what it
\* sets under one lock is what each of its chunks is compressed under, and
\* what the cache returns to it was too.
BudgetIsOwn == ~disturbed => BudgetHonoured

\* To the same point, what the cache holds under a key was compressed under
\* that key's budget, although processSingle reads the budget for the key
\* again after it has compressed and released the lock.
CacheHoldsItsBudget ==
  ~disturbed => \A k \in DOMAIN cache : cache[k].raw \/ cache[k].budget = k.budget

\* With the fail-safe on, a non-empty text is never answered by nothing, fresh
\* or from the cache, and with validation on never by a damaged output either,
\* whatever request the cached result was made for.
NeverEmpty ==
  FailSafeMode =>
    \A p \in Proc : \A i \in DOMAIN out[p] :
      ~Nothing(out[p][i]) /\ (validates => out[p][i].quality # "unsound")

\* The text that a result was made of.
TextOf(pieces) == FlattenSeq([i \in DOMAIN pieces |-> pieces[i].text])

\* A result, fresh, streamed or cached, is of its own text, line for line and
\* in order; what is missing is the end, and that only where processStreaming
\* had text within the budget it read when it left its loop.
ChunksInOrder ==
  \A p \in Proc : pc[p] = "done" =>
    /\ IsPrefix(TextOf(out[p]), req[p].text)
    /\ TextOf(out[p]) # req[p].text =>
         ShortCircuitBudget /\ snap[p] > 0 /\ Size(out[p]) <= snap[p]

\* "Skip layers if budget met": a budget that is met costs layers, not text.
NoChunkDropped ==
  \A p \in Proc : pc[p] = "done" => TextOf(out[p]) = req[p].text

TypeOK ==
  /\ validates \in ValidateOutput
  /\ budget \in Budget /\ mode \in Mode /\ query \in Query /\ filters \in Query
  /\ Cardinality(DOMAIN cache) <= CacheMaxSize
  /\ second \in 0..MaxSecond
  /\ pc \in [Proc -> {"idle", "key", "lookup", "split", "process", "post", "store", "done"}]
  /\ req \in [Proc -> Requests]
  /\ \A p \in Proc : pc[p] \in {"process", "post", "store"} => todo[p] # << >>
=============================================================================
