# TokMan: a TLA+ verification project

TokMan sits between a coding agent and the commands it runs: it executes a
command, compresses what it printed through a pipeline of text filters under a
token budget, prints the result and records how much was saved. It also calls
LLM providers through a retrying wrapper with a circuit breaker, and ships a
server, a proxy and an MCP tool around the same pipeline.

This directory models the parts that keep state or run concurrently, checks
them with TLC on small instances, and proves the main safety properties with
TLAPS for every value of the constants. `PROJECT.json` is the index: components,
runs, mutants, the map from definitions to source lines, findings, hazards and
theorems.

```
tlc -workers 2 -config <run>.cfg <module>     # one run; module as in PROJECT.json
tlapm <module>.tla                            # the proofs of DataLemmas or of a *Proofs module
```

## 1. Inventory

| component | state | operations | hard behaviour | what makes it correct |
|---|---|---|---|---|
| **pipeline manager** `internal/filter/manager.go` | one coordinator shared by all requests, result caches, tee files | `Process`, `ProcessWithBudget`, `ProcessWithQuery` | requests of several goroutines reconfigure one coordinator and release the lock between steps; streaming by chunks; fail-safe, validation and cache combine | a result belongs to its request (mode, query, budget) and to its text; the cache is true to its keys; errors stay visible |
| **pipeline coordinator** `pipeline_process.go`, `pipeline_gates.go`, `pipeline_init.go` | configuration, built filters, statistics of a call | `Process` | 31 gated layers in seven stages, with early exits of two kinds driven by a running sum of what the layers say they saved | an early exit is within the budget; nothing over it bypasses the enforcer |
| **budget enforcer** `internal/filter/budget.go` | none between calls | `Apply` | three passes over one decision array, targets that may be negative | critical lines survive, optional lines fit, nothing is omitted silently |
| **LRU cache** `internal/cache/lru.go` | a map and a list | `Get`, `Set` | both must agree under hits, expiry, update, eviction | capacity, right value or miss, LRU order |
| **streaming pipeline** `internal/streaming/pipeline.go` | two bounded channels, workers, a reorder buffer | `ProcessReader` | results out of order, failing chunks, shutdown by closing channels | output in order and complete; it returns |
| **usage tracker** `internal/tracking/tracker.go`, `cmd/tokman/main.go` | a global tracker with its database, a cleanup goroutine and its channel | `Track`, `RecordContext`, `CloseGlobalTracker`, signal handling | a signal closes the tracker while commands still record | the worker never meets a closed database; no panic; clean exit |
| **circuit breaker** `internal/circuitbreaker/breaker.go` | state, counters, last failure, a one-slot semaphore | `Allow`, `RecordSuccess`, `RecordFailure`, `Reset` | outcomes of old requests arrive in new states; the semaphore is shared by all recovery tests | trips at the threshold, bounded probes, recovery is decided |
| **provider wrapper** `internal/llmproviders/provider.go` | the attempt of each call | `Complete`, `StreamComplete`, `Embed` | retries meet the breaker and cancellation | bounded requests per call, every call returns |
| **session tracker** `internal/filter/session.go` | a table of counts by content | `Apply`, `Clear` | one tracker serves all clients of a proxy and is locked per segment | a marker stands for content that was passed on |
| **meta-token, TF-IDF, semantic cache layers** `meta_token.go`, `tfidf_filter.go`, `semantic_cache.go` | the marker table; none; none | `Apply` | overlapping repetitions and a limit; duplicate lines and a safety share; sums corrected while units leave | lossless; the share is returned; clusters are what computing anew would give |
| **parallel pipeline** `internal/filter/parallel_pipeline.go` | the text and a running total | `Process` | layers of a group on goroutines | the output does not depend on who is first; layers compose |
| **caches** `mcp/cache.go`, `cache/fingerprint.go`, `cache/multilayer.go`, `filecache/cache.go`, `core/estimator.go`, `manager.go` | maps, lists, counts, stamps | `Get`, `Set`, `Delete`, `BatchSet`, `Resize`, `Prune`, ... | two bounds at once, lookups over two locks, three caches with one key space | limits, right value or miss, the policy's victim |
| **context-read store** `internal/contextread` | one JSON file with snapshots and rendered results | `Build` with `Load`, `Put`, `Save` | a process killed between the writes of `Save` | the file always loads and holds what was read last; a delta is against what was seen last |
| **command executor** `internal/commands/shared/executor.go` | two pipes, two buffers, an error channel | `RunAndCapture` | two copying goroutines against `Wait`, which closes the pipes | success means complete output; it returns |
| **rate limiter** `internal/httpmw/middleware.go` | count and end of window per client | `Middleware`, cleanup goroutine | windows that end while they are cleaned up | nobody gets more than twice the share in a window, nobody is refused too early |

Manager, coordinator, enforcer and caches are one call chain: the manager sets
mode and query in the coordinator under its lock, the coordinator runs the
layers and hands what is left to the session tracker and the enforcer, and the
manager validates the outcome and caches it. The tracker is called by commands
after the pipeline; the breaker is called by the provider wrapper, which the
optional neural layer and the proxy use. Components that are not modelled are
in section 7.

## 2. Modules

| module | models | state and steps |
|---|---|---|
| `CircuitBreaker` | the breaker | one action per method: each holds `b.mu` for its whole body. `Allow` is two actions, for its two answers |
| `ProviderWithBreaker` | the wrapper with concurrent callers | a call is at the top of its loop, in flight or backing off; the HTTP provider is external and may answer anything; the history variable `streamProbes` counts the streams let through to test the circuit |
| `Lists` | the loop that copies the elements of a slice that pass a test | pure |
| `ChunkInput` | `chunkInput` as a recursive function over lines | pure |
| `BoundedCache` | abstract specification of a cache | what callers may rely on, whatever the eviction policy |
| `LRUCache` | the LRU cache | map and list kept apart as in the code; `newer` is a history variable that defines "least recently used" independently of the list |
| `PipelineManager` | goroutines on one manager | a step is what a goroutine does between taking and releasing a lock; the coordinator's result is a *piece*: the text, the settings it was made under, its size and whether it would pass validation; the history variable `disturbed` says that the budget was changed while another request was under way |
| `PipelineCoordinator` | one `Process` call at a time | `Plan` lists the layers in the order of the code with their gates and the way each reports its saving; text is its size in tokens |
| `BudgetEnforcer` | `Apply`, `enforceBudget`, `selectLines` | a line is its size and its score band; one step per loop iteration |
| `StreamingPipeline` | `ProcessReader` with its workers and collector | one step per channel operation; data is its length before and after processing, and a chunk carries its input offset |
| `Tracker` | global tracker, worker, `main`, signal goroutine | a tracker is a generation; `Close` is one step per line because recorders run in between |
| `SessionTracker` | layer 10 | concurrent `Apply` calls, one step per segment; a segment is its hash and whether it is long |
| `MetaToken` | layer 15 | a text is a sequence of words, a marker the words it stands for; one step per turn of the loop |
| `TFIDF` | layer 0 | a line is a sequence of sentences; scores are arbitrary; one step per pass |
| `SemanticCache` | `greedySeedCluster` of layer 35 | similarities are arbitrary numbers of a scale; one step per unit considered |
| `ParallelPipeline` | groups of layers | a text is the sequence of layers whose work it carries; a layer may report any number as saved and may leave no text |
| `CacheTypes` | what the caches share | keys, values, the answer "miss" |
| `HashCache` | the MCP cache | one action per method; map, list and memory count kept apart |
| `ScanCache` | fingerprint, compression and file cache | the three caches that scan for the oldest stamp: the loop is one step per entry of the map, in any order, with the lock held and the clock running; a fingerprint lookup is two steps |
| `TokenCache` | `EstimateTokens` with its cache | lookup and promotion are two critical sections; what matters of a count is whether the codec or the heuristic made it |
| `MultiLayerCache` | the cache of three layers | what each layer holds; expiry may hit the first at any time; any key, or none, may be the empty string, which the LFU layer never evicts |
| `ContextRead` | `Build` and the store | the file system by inodes, because `Save` opens, writes and renames a file whose name all processes share; `renderCache` per process; a long content is stored as its head and a long output may be cut (`trimContent`); the history variable `seen` lists what was saved |
| `Executor` | `RunAndCapture` | pipes and output counted in chunks; the command is external and writes and exits as it likes |
| `RateLimiter` | the middleware | count and window per client, history of requests served |

`MC*` modules define the instances TLC runs on; `MCCaches`, `MCLayers` and
`MCConcurrency` put components that share no state side by side, one variable
saying which of them a behaviour is about. The theorems are in `*Proofs`
modules, over the lemmas of `DataLemmas`:

| proofs | about |
|---|---|
| `DataLemmas` | induction, loops, concatenations, selections, sums |
| `CircuitBreakerProofs` | `CircuitBreaker`, `ProviderWithBreaker` |
| `PipelineManagerProofs` | `ChunkInput`, `PipelineManager` |
| `LayerProofs` | `PipelineCoordinator`, `BudgetEnforcer`, `MetaToken`, `TFIDF`, `SemanticCache` |
| `CacheProofs` | `ScanCache`, `HashCache`, `LRUCache`, `TokenCache`, `MultiLayerCache`, `ContextRead` |
| `ConcurrencyProofs` | `Executor`, `SessionTracker`, `RateLimiter`, `ParallelPipeline` |
| `StreamingPipelineProofs` | `StreamingPipeline` |
| `TrackerProofs` | `Tracker` |

`PipelineManager` extends `ChunkInput`; `ProviderWithBreaker`
extends `CircuitBreaker`, whose actions its steps are made of; `LRUCache` and
`ScanCache` implement `BoundedCache`, whose promise is the cache
`PipelineManager` uses.

Definitions that begin with a comment "Mutant:" are single plausible bugs in
the code. `PROJECT.json` pairs each property with one: put in place of the
definition it mutates, it makes TLC report that property violated.

### Abstractions worth knowing

* **How layers report savings.** The coordinator adds up what the layers
  return. Reading each layer's `Apply` gives eight ways: *guarded* (measures and
  keeps the input unless it saved), *exact* (measures), *clamped* (measures,
  reports growth as 0), *mixed* (clamped on one path), *counted* (words or
  chunks dropped), *words* (by how many words the text shrank, as agent memory
  does), *bytes* (bytes / 4) and *recalled* (guarded, but a cached compaction
  repeats the saving it measured first, perhaps with the other tokenizer). A
  layer may do anything to the text that is consistent with its way.
  `ParallelPipeline` takes any number for a report.
* **Token counts** are additive over lines in `ChunkInput` and
  `BudgetEnforcer`; the real estimators are so up to rounding. In
  `PipelineCoordinator` no additivity is assumed. `CodecLoaded` changes the
  measure of the text in work to any positive number, as the BPE codec may.
* **Hashes** (cache keys, fingerprints) are injective.
* **Scores** of the enforcer are the three bands `selectLines` tells apart.
* **Time** is a tick: ages up to TTL + 1 in the caches, one second of tee file
  names, the breaker's timeout, the rate limiter's window.
* **Streams at the breaker.** `StreamComplete` passes `Allow` and reports no
  outcome, so a recovery test of streams only stays undecided. `streamProbes`
  counts them: `ProbesAreAccounted` says that no other probe goes unreported,
  and `TestIsDecided` that one other probe is enough.
* **Long contents.** `Long` are the contents of more than `maxContentBytes`,
  `Trimmed` the head they are stored as. An output is cut when it is too long; a
  delta or a rendering that involves a long content may be.
* **Requests disturbed.** `BudgetIsOwn` and `CacheHoldsItsBudget` hold up to the
  first moment at which one request changes the shared budget while another is
  under way; run `manager_budget_race` shows the step after it.
* **Files.** A process killed in `Save` leaves its temporary file as it was at
  that moment; a write to an open file goes to its inode, whatever its name.

## 3. Runs that pass

| run | shows | bounds, and why they are enough |
|---|---|---|
| `manager` | no result carries another request's mode or query; the cache is true to its keys; a result is of its own text, in order, and lacks only an end that the short circuit dropped; until requests disturb each other's budget every request gets its own, also from the cache; never an empty answer, nor a damaged one when outputs are validated | two goroutines with a plain, a query and a streamed request, a cache of 2: interference needs only two requests; or one goroutine with two budgets on one text, a failed command, chunks that fit exactly, that are cut and that are one line too long, a refused text, tee files, validation on and off; all settings as shipped |
| `layers` | *coordinator*: an early exit on measured reports is within the budget, a text over it meets the enforcer on every other path. *Enforcer*: the selection is greedy within the target, critical lines and omissions are shown. *Meta-tokens*: `Decompress` gives the text back and the statistics add up. *TF-IDF*: enough lines, the best ones. *Clusters*: the running sums are exact, nothing is lost or shown twice. *Groups*: the output depends on what the layers returned only. *Session*: markers and counts | all layers and only the measuring ones, all options, sizes to 3; all texts to 5 lines (6 with a plain last one) with `Edge` = `SmallGap` = 1; all pairs of texts to 6 words with patterns of 2 and 3, with and without a limit; all texts to 4 lines with all scores, 4 being more than `MinSentences`; all similarities of 4 units, with and without a limit on clusters; two parallel groups of three and two layers, any layer off, reports of growth and of a saving that meets the budget, empty outputs; two appliers, three calls, one content more than the table holds |
| `caches` | LRU order; map, list and memory count agree and a `Set` comes back within both limits; the scan finds the oldest stamp; both kinds of cache implement `BoundedCache`; no cached token count comes from the heuristic; the three layers agree; the context-read store survives a process killed anywhere and holds what was read last; nobody gets more than twice the limiter's share in a window, nobody is refused too early | one key more than fits; sizes that fit, that fill and that exceed the memory; limits of zero and below; two callers between two locks; contents that are cut and that are not; one process at a time for the store (two: section 4); a clock of two windows |
| `concurrency` | *tracker*: the worker keeps its database, without a signal nothing is refused, sent on a closed channel or left open, the process exits. *Chunks*: output in order, complete if no chunk failed, it returns. *Executor*: success means complete output, it returns. *Provider*: the breaker trips exactly at the threshold, at most two requests test it, no probe but a stream's goes unreported, at most `MaxRetries + 1` requests per call; calls return, an open circuit is tested again, a test is decided unless streams alone make it | two recorders, three records, inserts that fail, three generations; three workers, so that two may overtake a third, three chunks, channels of 2; output larger than a pipe; two callers, so that one may carry an old outcome into the other's test, and a threshold of 3, so that one call with its retries trips it alone or two together; `SuccessThreshold` 1 (for 3 see section 4) |

`validates`, `enabled` and `emptyKey` are settings fixed when the object is
made; they are variables so that one run covers several configurations.

**Fairness.** Weak fairness only, on steps of goroutines that the Go scheduler
will run: a caller's steps inside a method (the HTTP client has a timeout, so
the provider answers), workers, closers that have begun, the collector,
the clock of the breaker, the executed command and the goroutines
that copy its output. No fairness is assumed of signals, of a
command's return or of any particular outcome. `ProviderFairSpec` of
`ProviderWithBreaker` also assumes that callers come back (`Demand`): a breaker
learns of time only when it is asked, so without demand an open circuit has
nobody to test it.

**Deadlock** is checked in every run; specifications that end (`Tracker`,
`StreamingPipeline`, `Executor`, `ParallelPipeline`, `TFIDF`) have an explicit
step for the ended state.

## 4. Where code and its comments disagree

Each of eight runs checks one sentence of the repository's comments or docs and
finds it violated by what the code does.

| run | the code |
|---|---|
| `breaker_default_recovery` | the semaphore is never drained: with the default threshold of 3 a HalfOpen circuit never closes again |
| `manager_budget_race` | `ProcessWithBudget` sets the budget under one lock and uses it under another |
| `manager_short_circuit` | "Skip layers if budget met": the streaming loop ends once the chunks so far are within the budget, and the rest of the text is dropped; the option is on by default |
| `parallel_compose` | "layers are NOT mutually exclusive; they compose": of a parallel group only the output of the last layer that saved something is kept, and it was computed from the input of the group |
| `streaming_compressed` | the collector advances by the processed length but searches by input offset: the rest of the output is dropped |
| `executor_output` | `RunAndCapture` calls `Wait` while its goroutines still read: the tail of the output may be lost, and if the command failed nothing says so |
| `delta_last_seen` | the key of a rendered delta does not name the snapshot it was made against: reading contents a, b, a answers the third read with the delta of the first |
| `tfidf_share` | a short text of long lines is split into sentences, and its lines, compared with the sentences kept, match none: all of it is dropped |

Seen while modelling, without a run of their own:

* the request that moves the breaker to HalfOpen does not take the semaphore, so
  two requests are tested at once (`breaker.go:102`; `ProbeBudget` states the
  bound that does hold); and a test made of streams only is never decided
  (`provider.go:109`);
* the cache key omits the exit status, on which validation depends, so a failed
  command may be answered with an output that lost its error markers
  (`manager.go:453`);
* two tee files of one command in one second have one name (`manager.go:415`);
* early exit trusts reports that are not token counts, and a token measure that
  may change within a call (`pipeline_gates.go:14`, `estimator.go:180`): the
  history variable `measured` marks the calls the guarantee covers;
* the defaults of an all-zero configuration are set after it was copied, so no
  core layer runs (`pipeline_init.go:23`);
* the feedback reports `ReductionPercent` before it is computed
  (`pipeline_process.go:294`), and compensation adds text after the budget was
  enforced (`pipeline_process.go:51`);
* mandatory lines and markers are not charged to the enforcer's budget
  (`budget.go:200`);
* a record racing a signal may send on a closed channel and panic
  (`tracker.go:344`), and a record after the signal's close opens a tracker that
  nobody closes (`main.go:40`): `CleanExit` is stated for uninterrupted commands;
* two processes that save the context-read store at once write to one temporary
  file (`store.go:90`): with two processes in `ContextRead`, `StoreAlwaysLoads`
  does not hold, and a store that does not load is never replaced
  (`store.go:59`);
* what a parallel group saves is not added to the total its early exit reads
  (`parallel_pipeline.go:339`);
* the LFU layer never evicts the empty key and outgrows its size once that key is
  the least used one (`multilayer.go:132`);
* a rendered result of more than 256 KB is cut when it is persisted, and a later
  process answers with the cut one (`store.go:137`);
* a chunk that fails is skipped and the chunks after it wait for it to the end
  (`streaming/pipeline.go:229`): `OutputIsInput` states completeness for inputs
  none of whose chunks failed;
* a "[seen]" marker may replace text the agent never saw: text that differs in
  case or date has the same hash, what the session tracker passed on may be cut
  by the budget layer, and one tracker serves all clients of a proxy
  (`session.go:108`); the file `Save` writes is never read, so a session ends
  with its process;
* `Start` of a canary deployment takes `d.mu` and calls `emit`, which takes it
  again: the call never returns (`canary/deployer.go:230`, `:447`).

## 5. Proofs

Every safety property that a passing run checks is also a theorem, for every
value of the constants. Each proof finds an inductive invariant stronger than
the property and shows, action by action, that it is preserved; a refinement
adds that every step maps to a step of the abstract cache or breaker, or to a
stutter.

**`DataLemmas`: reasoning about loops.** The library's induction theorems take a
predicate, which the installed provers cannot instantiate. The well-foundedness
of `<` on `Nat` is a fact about a *set*, though, so `Least` and `Induction` are
stated for sets, and `PrefixInduction` (sequences) and `SubsetInduction` (finite
sets) follow. `Iteration` shows that a loop over `1..n` has a result, which gives
a recursive function its defining equation; with it `FlattenSeq`, `Selected` and
`SumFunctionOnSet` get the facts the proofs use. The models write such loops as
recursive functions or with these three operators, since nothing can be proved
here of `SelectSeq` and of the folds that take an operator.

**`CircuitBreakerProofs`**
* `BreakerCorrect`: the invariant ties `failures` to the state and counts the
  probes of one HalfOpen episode against the semaphore.
* `ProviderBreakerSafe`: every step of the wrapper is a step of the breaker or
  leaves it alone (a lemma), so what `BreakerCorrect` says holds for any number of
  callers.
* `RetryBudgetHolds` counts requests against attempts.
* `ProbesAreAccountedHolds`, for all thresholds: each of the probes of an episode is
  matched by a success counted, a caller in flight or a stream; a success that is
  reported moves a caller from the second term to the first. Late outcomes of
  requests admitted before only make the right side larger, so the invariant is an
  inequality.

**`PipelineManagerProofs`**
* `RequestsAreIsolated`, `CacheEntriesMatchTheirKeys` (`ManagerInv`): the filters
  always are those of the recorded query; a goroutine's piece has its request's
  mode and query; a key read by a goroutine is one of its request.
  `OwnConfiguration` alone is not inductive, since a hit returns what some other
  goroutine stored.
* `ChunksAreTheText`: the chunks concatenated are the text, each within the size
  unless it is one long line. With it `AnswersAreInOrder` (`CoverInv`: what is out
  and what is to do are the text, and the loop was left before the end only by the
  short circuit), for every setting of `ShortCircuitBudget`.
* `AnswersAreNeverEmpty` (`PresentableInv`: what is cached was once presentable),
  assuming `NoBlankLines`, that every line has tokens: a text of blank lines
  counts 0 and is not what the fail-safe protects.
* `RequestGetsItsBudget`, `CacheKeepsBudgets` (`BudgetInv`: while nobody was
  disturbed, the shared budget is that of every request under way that has one, and
  pieces, keys and cache entries carry it), for any number of goroutines; run
  `manager_budget_race` shows the property fail once one is disturbed.

**`LayerProofs`**
* `EarlyExitIsSound`, `EnforcerIsNotBypassed` (`ExitInv`): as long as every layer
  that ran reports as *guarded* or *exact* layers do, no TOML filter was applied and the codec did
  not change, `saved = original - tokens` while layers run; and whoever is past
  the enforcer has been given to it.
* `GreedyTheorem`, `FaithfulTheorem`: what a pass has decided up to its index, and
  that the last item built is the line `last`.
* `MetaTokensAreLossless` (`MetaInv`): the result so far expands to the words
  before `nextWord`, every marker is in the table, and the table adds up to the
  reports of earlier calls and what this one saved.
* `BestLinesAreKept` (`TFInv`): the lines kept are the chosen units, and none that
  is left out scores higher than one added back.
* `ClustersAreExact` (`ClusterInv`): each running score is the sum over the free
  units, the seed counted with them until its cluster is complete; clusters and
  free units partition the text; seeds are not similar.

**`CacheProofs`**
* `EvictionIsByAge` (`ScanInv`): the candidate of the scan is an entry of the map no
  younger than any visited so far; the lock keeps the map as it was when the loop
  began. `ScanRefinesBoundedCache` also needs that there are at most `MaxEntries`
  entries and that a scan ends with a candidate.
* `EvictionIsByUse`, `LRURefinesBoundedCache` (`LRUInv`): list and map agree, and
  the list is ordered by the history of uses.
* `SetStaysWithinLimits` (`HashInv`): map, list and memory count agree through
  every operation, so the loop around `evictLRU`, which looks only at the count
  and the map, stops where what is left really fits.
* `TokenCacheStaysExact` (`TokenInv`): also between the two critical sections of a
  lookup a text in the list is in the map. `LayersStayInAgreement` (`LayerInv`).
* `SavesAreAtomic`, `SnapshotsStayCurrent` (`ReadInv`: what a killed process leaves
  in the temporary file never is the store's inode, and what a process is about to
  save is the store with its own read added), assuming `OneProcess`: with
  two, they share the temporary file and neither holds (section 4).

**`ConcurrencyProofs`**
* `SuccessfulCaptureIsComplete` (`ExecInv`): written output is captured, in the
  pipe or lost, and a loss has been reported or will be by the copy that meets the
  closed pipe.
* `MarkersAreExact` (`SessionInv`), for any number of appliers.
* `LimiterKeepsShare` (`LimiterInv`): the last requests served lie in the current
  window and those before are a window away, so no window holds more than two
  shares; a refusal was preceded by a full share.
* `GroupsAreDeterministic` (`ParInv`): the text is the work of the groups that
  ended and of the current one so far, and a layer returns once, so what its group
  is judged by does not change afterwards.

**`StreamingPipelineProofs`**
* `NeverSendsOnClosed` (`ShutdownInv`): a channel is closed only when nobody is
  left to send on it.
* `OutputIsTheInput` (`StreamInv`): each chunk starts where the one before ends,
  no result is lost between worker, channel and reorder buffer, and what was
  written is in order; assuming `Preserving`, that processing keeps the length:
  run `streaming_compressed` shows what happens otherwise.

**`TrackerProofs`**
* `WorkerIsSafe`: a worker that has not ended has an open database.
* `UninterruptedExit`: until a signal is handled a recorder at work holds the
  global tracker, which is open, and the only open database is the global
  tracker's or the one `main` is closing.

The assumptions on constants are the named `ASSUME`s of the component modules;
TLC evaluates them in the runs.

**Only model-checked:** liveness (`MethodReturns`, `OpenIsTested`,
`TestIsDecided`, `StreamReturns`, `CommandReturns`,
`ExitReached`): it rests on fairness, of which the prover has no theory.

## 6. Bounds

`MaxTracks`, `MaxGen` (tracker), `MaxSecond` (tee clock), `MaxTokens`
(coordinator), `MaxLen` (streaming), `MaxOutput` (executor), `MaxTime`,
`MaxCount` (limiter), `MaxSegments`, `MaxSessions` (session), `MaxWords`,
`MaxApplies` (meta-tokens), `MaxLines` (TF-IDF), `MaxClock`, `MaxUses` (caches)
and `LayerReports` (groups) keep TLC's instances finite; the breaker's clock
saturates one tick after `RecoveryTimeout`, beyond which nothing is observed.
The theorems hold for all values of these constants.

## 7. Not modelled, and the plan

The repository has some 118,000 lines, most of them CLI commands that format the
output of one external tool each, dashboards and reports over SQL, data types
and string heuristics. The modules cover the parts that keep state between
calls or run concurrently; the share of all lines they stand for is small, and
stays so.

Left out for good: the text heuristics of the other filters (pure string
functions without state), the CLI commands, configuration loading, SQL
reporting, HTTP routing and proxying, data types, stores that write one file
under one lock (memory, reversible store). Of the modelled components,
`PROJECT.json` says which operations are missing.

Next, in this order:

1. **Proofs**: that the LRU cache's answer is what `PipelineManager` assumes of
   `CacheSet`; `HashCache` as a refinement of `BoundedCache` with several
   evictions in a step.
2. **Canary deployer**: abort and rollback against the goroutine that goes on
   through the phases, once `Start` returns.
3. **Trust store and hook integrity**: a file changed between check and use.
4. **Undo and delta managers**: a failed rollback, chains of deltas.
5. **Composition**: the manager with the coordinator's early exit in place of
   the abstract `Compressed`.
