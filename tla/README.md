# HummingFlight in TLA+

HummingFlight is a C++ inference engine for a mixture-of-experts language model
whose weights do not fit in memory. It keeps the dense layers resident, streams
the experts from safetensors shards through an asynchronous reader into an LRU
cache in RAM, guesses the experts of the next layer from the router's past
choices, and computes on the CPU or, expert by expert, on a GPU.

What is hard to test in it is not the arithmetic. It is the pipeline between
threads (a getter that polls while callbacks assemble experts from merged
reads), the memory bookkeeping (budgets, pins, boosts, in-flight keys), and the
history a decoding step attends to (growing buffers, reused selections,
conversations that follow one another). These are what the modules here model;
numbers are abstracted to where they come from.

Paths below are relative to the repository, so `src/storage/lru_cache.h` is the
header of the cache. (In PROJECT.json the repository is the directory `src/`.)

## 1. Inventory

### Threads and how the parts interact

One **generation thread** runs `main.cpp`: command line -> device and index ->
tokenizer -> warm-up -> `GLMForward::forward` -> sampler. Inside `forward`, each
MoE layer calls the **Scheduler** (`onLayerRouterDone`, then `getExpertPtr` /
`getSharedProjectionPtr` per expert) and, with `--gpu-experts`, the **GPU expert
cache**, whose uploads run on a copy stream of the device. The Scheduler submits
reads to **IOCPReader**, whose worker threads call the completion callbacks back
into Scheduler code; those copy slices into assemblies and insert finished experts
into **ExpertLRU**. The tokenizer is either in the process or a **Python child**
behind two pipes. The shared state is: the reader's queue (its mutex) or
completion port, `pendingCount_` (atomic) and `waitCv_` (`waitMtx_`); the cache
(its own mutex); `prefetchedInFlight_` (`inFlightMtx_`); the atomic `remaining`
of each assembly; the pinned buffers, which the device reads later; the pipes.
Everything else belongs to one thread.

### Components

| component | state | operations | hard behaviour | correct when |
|---|---|---|---|---|
| **ExpertLRU** `storage/lru_cache.h` | recency list, map of entries (bytes, pin, boost), `used_`, capacity | `resize`, `acquire`, `copyTo`, `insert` with `evictOne` sweeps, `pin`, `boost`, `contains` | an insert that fails half-way has already evicted; boosts are spent by sweeps; replacement drops before it makes room | list, map and byte count agree; budget kept; pins hold; boosts are paid exactly; atomic for callers |
| **IOCPReader** (POSIX) `storage/iocp_reader_posix.cpp` | queue, quit flag, `pendingCount_`, workers, sleepers | `start`, `submitRead`, worker loop, `onComplete`, `waitAll`, `stop` | condition variables: a lost wakeup, a worker missed by `quit`, a count raised before or lowered after its read | each read answered once; a drain ends, and only when nothing is outstanding; a stop ends |
| **IOCPReader** (Windows) `storage/iocp_reader.cpp` | completion port, requests | the same | a failed completion ends its worker; the error paths use a moved-from callback | as above |
| **Scheduler: prefetch pipeline** `engine/scheduler.cpp` | `prefetchedInFlight_`, assemblies, outstanding runs | `probe`, `prefetchAsync` (with run merge), `prefetchExpert`, completion callback, `getExpertPtr`, `getSharedProjectionPtr`, `syncLoadIntoCache` | callbacks on many threads race the getter; failed reads; a wait that times out while the read is late | an expert handed to the forward pass holds its bytes; nothing staged twice; in-flight keys are those with bytes to come; calls return |
| **Scheduler: routing lookahead** | overlap average, heat, last winners | `onLayerRouterDone` | speculation must not crowd out demand; keys of one layer staged as another's | this layer's demand is asked for, and each guess has its reason |
| **Scheduler: warm-up** `warmDenseWeights` | a second reader, a ring of buffers | one pass | reuse of a buffer before its read ended | no buffer has two reads |
| **PlacementDirector** `engine/placement.cpp` | access counts | `record`, `shouldPin` | none | counts |
| **InferenceStats** | counters | increments | none | counters |
| **KVCache** `engine/kv_cache.cpp` | per layer head-major key and value buffers, index keys, capacity, stride, length | `init`, `reserve`, `growTo`, three appends, getters, `advance`, `clear` | growth moves every head's block between two strides; `clear` leaves old rows; `advance` stops silently | a pure change of layout: rows survive growth |
| **GLMForward** loop, attention, indexer `model/glm_forward.cpp` | `seqLen_`, `lastTopkByLayer_`, the selection of the token | `forward`, `reset`, `attentionLayer`, `dsaIndexer` | a selection carried over tokens or from the wrong layer; rows of a former conversation | attends to current rows of the selected positions |
| **GLMForward** MoE layer | staged experts, running sum | `moeLayer` | look-ahead past the winners; fall-back in the middle of a sum | each winner contributes once |
| **GPU expert cache** `compute/cuda_backend.cpp` | device slots, resident keys, ring of pinned buffers, copy stream | `gpuExpertStage`, `gpuExpertFFN` | a key registered before its upload; a buffer filled again before its copy ran; eviction of a staged slot | a computation uses its expert's bytes |
| **MoE router** `compute/moe_router.h`, **Sampler** `compute/sampler.h`, **BPE** `tokenizer/native_tokenizer.cpp` | none | pure functions | bounds, ties, the token that crosses `p` | agree with a definition that says it without the loops |
| **RuntimeConfig** `runtime/runtime_config.cpp` | none | `computeAdaptiveConfig` | unsigned arithmetic over overrides, floors and reserves | budgets add up |
| **WeightIndex**, **SafeTensorsFile**, **MappedFile** | tensor table, mappings | `build`, `open` | malformed headers; names that contain other names | each weight is found where the checkpoint has it |
| **Tokenizer bridge** `tokenizer/python_tokenizer_posix.cpp`, `python_tokenizer.cpp`, `tools/tokenizer_server.py` | a child, two pipes, a read buffer | `start`, `encode`, `decode`, `applyChatTemplate`, `stop` | pairing by order, a dead child, a torn line | each reply belongs to its request |
| **Generation loop** `main.cpp` | options, device, tokens made | parse, start, prompt, sample, stop, leave | early returns with parts started; options that cannot be honoured | ends; refuses to degrade `--mtp` and `--gpu-experts` |
| kernels, self test, logger, timer, JSON, scripts, vendored parser, Unicode tables | - | - | - | not modelled (section 7) |

`PROJECT.json` repeats this list with what is modelled, and lists each hazard at
the line where it bites, with the properties that watch it.

## 2. Modules

```
 ExpertCache   (abstract)  <== implemented by ==  ExpertLRU     -- ExpertLRUProofs
      ^ instantiated by
 PrefetchPipeline -- EXTENDS RunMerge (pure)     -- PrefetchPipelineProofs
      . assumes of its reads what
 AsyncReader   (abstract)  <== implemented by ==  IOCPReader    -- IOCPReaderProofs
                           <== implemented by ==  Session
 Session -- EXTENDS WarmPass (-- EXTENDS WinReader), TokenizerBridge,
                    AdaptiveConfig (pure)                       -- SessionProofs

 KVStore       (abstract)  <== implemented by ==  Forward       -- ForwardProofs
 BpeTokenizer (pure);  TokenDraw -- EXTENDS Sampler (pure)      -- TokenProofs
 MoeLayer -- EXTENDS GpuExpertCache, RouterLookahead            -- MoeLayerProofs

 MCAlgorithms -- EXTENDS ReadBatches (-- EXTENDS RunMerge), TokenDraw, BpeTokenizer,
                         WeightIndex (-- EXTENDS SafeTensors)
```

| module | models | state and actions against the code |
|---|---|---|
| `ExpertCache` | what callers of the cache may rely on | `Put` (in, with evictions of unpinned entries), `PutRejected`, `Pin`, `Resize`; atomic |
| `ExpertLRU` | `storage/lru_cache.h` | `order` = `lruOrder_`, `resident` = keys of `map_`, `used` = `used_`, `pinned`/`protect` = the entry's fields. An insert is `InsertBegin` (drops the replaced entry, sets the guard), one `EvictLast`/`EvictNothing` per `evictOne()`, then `InsertTrue`/`InsertFalse`. `before` is a history variable: the state when the insert took the mutex |
| `AsyncReader` | what callers of the reader may rely on | submit, answer, drain |
| `IOCPReader` | `storage/iocp_reader_posix.cpp`, `storage/iocp_reader.h` | `worker[w]` and `caller` are program counters; a step is one critical section, one atomic operation, one notify or one evaluation of a predicate, so that "predicate evaluated, not yet asleep" (`dozing`) is a state |
| `WinReader` | `storage/iocp_reader.cpp`, `storage/iocp_reader.h` | the same grain over a completion port: `reading`, `completed`, `failed` are the reads the system holds, a worker takes a completion, a failed one (and leaves its loop), or a stop packet; a read that cannot start loses its callback, as the moved-from `cb` does |
| `WarmPass` | `Scheduler::warmDenseWeights` | `Plans` = the chunks of the merged runs, shards in any order; `submitted` picks the buffer of the ring; the drains are those of `WinReader` |
| `TokenizerBridge` | `tokenizer/python_tokenizer_posix.cpp`, its Windows twin, `tools/tokenizer_server.py` | host and child take turns over two pipes of lines; a line carries the number of its request; the child may print stray lines, answer with an error, and die at any time, in the middle of a line too; a write to a dead child kills the host on POSIX (SIGPIPE) and fails on Windows |
| `AdaptiveConfig` | `runtime/runtime_config.cpp` | `ReadEnv`, `ResolveGpuBackend`, `ComputeAdaptiveConfig`, with sizes that wrap at `Word` |
| `Session` | `main.cpp` | one action per part of `main()`, in its order; `cmd` = `Args`, `exit` the exit code; objects on the stack are destroyed on the way out (`StopTokenizer`, `Leave`) |
| `RunMerge` | the sort and merge loop of `prefetchAsync` and the copy of `copyExpertSlice` | `RunsOf[batch]`: the merged reads with their slices; `DiskImage`: what the synchronous path copies; no state |
| `ReadBatches` | the loop that fills `assemblies` in `prefetchAsync` | `batch`: the keys collected for one call, any set of them |
| `PrefetchPipeline` | `engine/scheduler.cpp` between the generation thread and the callbacks | `inFlight` = `prefetchedInFlight_`, `filled`/`remaining` = the assemblies, `reads`/`calls` = outstanding runs and running callbacks, `pc` = where the generation thread stands. `probe()` is two steps because it asks two locks; a callback is copy, count, insert, erase |
| `RouterLookahead` | `Scheduler::onLayerRouterDone`, `predictNextLayerExperts` | the record `look` is what the scheduler keeps between calls; `RouterDone` maps it to the next one and to the requests of the call: demand, guesses, pins, boosts |
| `GpuExpertCache` | `ExpertGpuCache`, `gpuExpertStage`, `gpuExpertFFN` | the record `gpu` is the object; `Stage` and `FFN` give the outcomes of a call, one per device call that may fail. Uploads wait in `gpu`'s queue until `CopyRuns` lets the device execute one, which copies what the pinned buffer holds *then* |
| `MoeLayer` | `GLMForward::moeLayer` | `Route` (router, report to the scheduler), `StageExpert`/`Preload`/`Advance` (the uploads that run ahead), `ComputeOnDevice`, `Restart`, `ComputeOnCpu` with `LookAheads`, `AddShared`. The sum is the sequence of its contributions |
| `KVStore` | what attention expects of the cache | rows by layer and position |
| `KVCache` | `engine/kv_cache.cpp` | the record `kv` is the object; each method is an operator from `kv` to `kv` over flat buffers with the code's offsets |
| `Forward` | the token loop of `model/glm_forward.cpp` | `ForwardCall`, `StoreKeyValue`, `RunIndexer`/`ReuseSelection`, `FinishLayer`, `Reset` |
| `BpeTokenizer` | `tokenizer/native_tokenizer.cpp` | `PreTokenize` with one operator per alternative of the pattern, `BpeMerge`, `Encode`, `Decode`; texts are bytes, tokens are sequences of code points of the byte-level map |
| `SafeTensors`, `WeightIndex` | `model/safetensors.cpp`, `model/weight_index.cpp` | what `open()` accepts, its sums and products wrapped at `TwoTo64`, and `build()` with and without index.json; a name is the sequence of its segments |
| `Sampler` | `compute/sampler.h` | one operator per filter, `Draws` = the tokens a draw may give; logits and the values of `exp` are whole, so probabilities are exact; the repetition penalty is in quarters, so that it may boost; `std::sort` leaves equals in any order |
| `TokenDraw` | the calls of `sampleFromLogits` from `main.cpp` | `call`: any logits of a model, and the options that are set, one after the other, to any of their values |
| `*Proofs` | | the proofs of section 5, each beside the module it is named for; `SessionProofs` also holds those of the modules `Session` extends and of `WeightIndex`, `PrefetchPipelineProofs` those of `ReadBatches`, and `TokenProofs` those of `BpeTokenizer` and `TokenDraw` |
| `FoldLemmas` | | lemmas the proofs share: least elements, induction up to a bound, sums over finite sets, iteration of a function, concatenation, sequences put together by a loop |
| `MC*` | instances for TLC | constants of the runs; `MCAlgorithms` grows an input a step at a time and compares the algorithms with definitions of its own |

An operator with a suffix (`Fits_ForgetsNew`, `Horizon_Cached`, ...) is a
plausible bug of the definition after it. It is used by no specification; for
each property, putting one in the place of its definition makes TLC refute the
property, which shows that the property says something about the code.

## 3. What each run checks

**`expert_lru`** (`ExpertLRU.cfg`, 20 736 states). Four experts of different
sizes, budgets 3 and 5, boosts up to 2. Four are needed: a sweep of one insert
must be able to evict two entries and pass over a boosted and a pinned one. One
budget is smaller and one larger than what the experts need together with a
replacement, and resizing goes both ways. `OrderMatchesMap`, `UsedIsExact` and
`WithinCapacity` hold between any two sweeps, not only between operations.
`ReplaceAlwaysFits` says why the code may drop the old entry before making room:
the new one has its size. `BoostsPaySweeps` is the exact price of a boost.
`PinnedStaysResident` looks at whole operations. `ImplementsExpertCache` is the
refinement: readers that take the mutex see every insert as one step.

**`iocp_reader`** (`IOCPReader.cfg`, 3610 states). Three reads, two workers, one
caller that submits, drains and stops in any order. Two workers race for a
queue that can be longer than the pool; spurious wakeups are included.
Safety: `PendingIsExact`, `AnsweredOnce`, and the refinement of `AsyncReader`.
Liveness: `EveryReadAnswered`, `StopTerminates` (from the moment a stop sets
`quit`), `SleeperWoken`.

**`reader_drain`** (violation, one read and one worker). `waitAll` need not
return: `onComplete` decrements and notifies without `waitMtx_`, so both can
fall between the evaluation of the predicate and the sleep. The counterexample is
a fair behaviour: every thread that can run does, and the drain sleeps.

**`prefetch`** (`PrefetchPipeline.cfg`, 75 467 states). A routed expert `a` over
two shards and a shared projection `s`: one merged run carries bytes of both, so
an expert is assembled by two callbacks and one callback serves two experts.
Capacities 2 (an eviction or a refusal is always near) and 3 (room for all);
`kMaxPrefetchInFlight` is 1 instead of 40, so the cap is reached. Reads fail or
do not, per behaviour. `BytesMatchDisk` is the property the pipeline exists
for. `NothingStagedTwice`, `AwaitedIsComing` and
`FlightIsStreamingUnlessFaulty` are about the order "insert, then erase" of the
callback against the order "cache, then set" of `probe`. `AlwaysLands` and
`EveryCallReturns` are the liveness.

**`prefetch_fault`**, **`prefetch_probe`** (violations). A failed read leaks its
keys; and `probe`'s two questions can miss a landing, which sends a resident
expert down the synchronous path.

**`forward`** (`Forward.cfg`, 5526 states). Three layers, two heads, conversations
of up to four tokens, two of them. The constants of the code (initial capacity
64, slack 16, first growth to 1024) are scaled to 1, 1 and 3 so that a
conversation crosses two growths, one of them with rows of the former conversation
still in the buffers. Two schedules of indexer layers: one that starts with a
full layer, one whose first layer finds no selection; and a checkpoint without
indexer weights. `HistoryIsCurrent` follows each value from the append to the
read, `SelectionOfThisToken` the selection from layer to layer,
`AppendsStayInPlace` is the purpose of `reserve`, and `ImplementsKVStore` says the
head-major layout is invisible.

**`moe_layer`** (`MoeLayer.cfg`, 1 132 742 states). Two MoE layers of four experts,
three winners each. Four command lines: a device of three slots over two tokens,
so that a layer evicts what the other left and the two pinned buffers are reused
within a layer; one of two slots, fewer than are staged ahead, which evicts a
winner before it is computed; and the CPU alone over three tokens, with and
without extra experts, probabilities and the popularity average (three, because
the average and the overlap only matter from the second token on). Allocation,
the wait for an upload and the computation may fail, twice in a behaviour.
`OutputIsExact`: when a layer is summed, each winner has contributed once, with
the weights of its own key, whatever was evicted, staged or recomputed - also
when the device computed the first winners and the CPU the rest.
`ResidentBytesAreOwn`: the last copy queued for a resident key's slot brings that
key's bytes, so that no pinned buffer is filled again before it was read.
`RequestsAreJustified`: before the last layer every winner and shared projection
is demanded, and nothing else if the layer stayed on the device; a winner computed
after another on the CPU was asked for before that one; a guess is, without
`--router-prefetch`, what the next layer's own router chose last, behind the gate on
its overlap; only winners are pinned or boosted. The array of winners has three
places here (`Places`; 8 in the code, which the shipped top-k fills), so that the
CPU's look-ahead (`model/glm_forward.cpp:620`) reads past its end: what it finds
there is any expert or none. The property is silent about what is read behind
the winners and about the extra experts of `--router-prefetch`: both are reads that
no layer needs (section 8), and no claim of the code about them holds.

**`moe_fault`** (violation). The same with uploads that fail.

**`session`** (`Session.cfg`, 630 866 states). Command lines of every kind
(`MCSession`), both platforms, a CUDA device or none that starts or does not, a
child that prints up to two stray lines, errs, or dies anywhere, a warm-up of
five chunks over two shards through a ring of two buffers and two Windows
workers, one of whose reads fails to start or to complete. The code reads up
to 50 lines before it gives up on the child, the model 2. `RepliesArePaired`: a
reply taken for a request is that request's. `RefusesToDegrade`:
the two options that `main()` refuses to degrade, `--mtp` (`main.cpp:401-424`) and
`--gpu-experts` (lines 571-579), are honoured or the run fails; a run told to stay on the
CPU has no device; and no token is generated from half a prompt, unless the child
died while it answered. The options it degrades with a warning or none are
listed in section 8. `WarmRingSafe`: no two reads in flight share a
buffer, and the pass covers every byte of the dense tensors. `RunEnds`: the
liveness, with its two exceptions: a drain may hang (section 8), and a
generation without a limit need not end. `ImplementsAsyncReader` for the
Windows reader. A run that has ended stops, so deadlock is not checked.

**`algorithms`** (`Algorithms.cfg`, 351,270 states). An input grows a step at a
time, up to a bound, and then stops, so deadlock is not checked.
`ReadsAreExact`: all 256 batches of eight experts, laid out over two shards with
every distance that matters (adjacent, within the gap, just beyond, far, stored
backwards, an empty projection, one that closes the gap between two others), bring
each expert the bytes the synchronous copy brings, in as many slices as it has
projections; no slice leaves its read at either end; the reads of a shard only go
upwards.
`TokensSpellTheText`: all texts of up to four of eleven characters - letters, a
capital, a digit, apostrophe, blank, line break, punctuation, a two-byte letter, the
beginning of an added token, a broken byte; tokens decode to the text, merges apply by
rank, and chunks are those of the split the code implements, but for the two places
where it leaves it, `CapitalContraction` and `SpacedMarks` (section 8).
`WeightsAreFound`: checkpoints of up to two tensors over two shards, with ten kinds of
damage, among them offsets and shapes whose sums and products wrap (the word is 4096),
with and without an index that may leave a tensor out or name the wrong shard; the bytes
found are in the shard unless such a sum has wrapped.
`DrawIsSupported`: four tokens with one of three logits each, exponentials in powers
of two, up to three options set, a penalty above and one below 1 among them; a draw is a
token that the filters leave, or one of the exceptions named in section 8: the edges, and
a penalty below 1 after top-k (`LiftsTheMask`).

**`sampler_top_p`** (violation). `NucleusIsDrawn`: with top-p alone, the draw is
from the smallest set of best tokens that reaches `p`.

## 4. Fairness

Only what the code or the operating system gives is assumed.

* `IOCPReader`: weak fairness of each worker (a runnable thread runs) and of the
  caller while it is inside `submitRead`, `waitAll` or `stop`. The caller owes no
  further call; spurious wakeups are possible but not owed.
* `PrefetchPipeline`: weak fairness of the generation thread inside a call
  (which includes that the clock passes the deadline of 120 s in a polling wait) and
  of the work on each key by the reader's threads, which is what
  `EveryReadAnswered` shows of the reader; strong fairness only for taking
  `inFlightMtx_` in a callback (`Landing`): other callbacks and the generation
  thread's probes keep taking and releasing that mutex, so a callback that wants it
  is enabled again and again but not continuously. Each holds it for a set
  operation, and the generation thread sleeps or computes between its probes.
* `Session`: weak fairness of the thread that runs `main()`, except in the drains of
  the warm-up and of the shutdown, where none is assumed because the reader may
  really hang; and of the child's own work (`ChildWorks`), which is to serve or
  to exit. It owes no stray line and no death.
* `ExpertLRU`, `Forward`, `MoeLayer` and the algorithms claim safety only and have
  no fairness.

## 5. What is proved

TLAPS proves these for every value of the constants that satisfies the `ASSUME`s
of the modules (TLC evaluates each of them on the instances it runs). No
invariant here but the simplest is inductive as the runs check it; each paragraph says
what had to be added. The inductive invariants were checked with TLC on the
instances of the runs before they were proved.

**The cache** (`ExpertLRUProofs`), from `Size \in [Keys -> Nat \ {0}]`,
`Capacities \subseteq Nat`, `MaxProtect \in Nat` and `None \notin Keys`; `Keys`
need not be finite. `TypeCorrect`, `ListAgreesWithMap`, `BudgetKept`,
`ReplacementFits` and `PinsHold` come from `IInv`: `TypeOK`, `OrderMatchesMap`,
`WithinCapacity`, `ReplaceAlwaysFits` and `InsertView`, which ties a running
insert to the snapshot taken at its start: its key is out of the map, and whatever
was pinned at the start, but for that key, is pinned still. `BudgetKept` rests on
the guard of `InsertTrue`; `ReplacementFits` on the dropped entry having the size
of the new one, hence on the budget at the start; `PinsHold` on `InsertView`,
and for an insert that fails on `ReplaceAlwaysFits`, which excludes that the
key being replaced was a pinned one. `BytesAreExact` and `BoostsArePaid` come from
a second invariant over the first, `Accounts`: `UsedIsExact`, `BoostsPaySweeps`
and `InsertHistory` (what is left of the list is in the order of the snapshot, and
something was evicted only if everything together would not fit). `Refinement` maps
the sweeps of an insert to stutters and its end to `Put` or `PutRejected`, which
needs all three: what was evicted is unpinned, the rest fits, and nothing leaves
while all fits.

**The reader** (`IOCPReaderProofs`), from finite `Reqs`, a finite non-empty pool
and `None \notin Reqs`: `ReaderTypeCorrect`, `PendingExact`, `CalledOnce`. `IInv`
is `TypeOK` with `Hands` (a worker has a job exactly while it reads or calls back),
`OnePlace` (a request is in at most one of: being pushed, one
queue position, one worker), `Unanswered` (a request in any of these places has not
been called), `PendingIsExact` and `AnsweredOnce`. `PendingIsExact` is an
equality of cardinalities; each step moves one worker in or out of `Busy`.
`ReaderRefinement` shows the safety of `AsyncReader` implemented: a drain
ends when the count is 0, which by `PendingIsExact` is when no read is outstanding.

**The merged reads** (`PrefetchPipelineProofs`), from finite `Keys` and any placement `Loc`
of projections in shards, with any gap: `RunsExact`. The runs of a set of experts
carry every projection that holds bytes in exactly one slice, at its place in the
shard and in the buffer, and carry nothing else. The fold over the sorted requests
is treated by an invariant on its prefixes (`Merged`): the runs made so far carry
exactly the requests seen, and one more request becomes one more slice, of the last
run or of a new one. Overlapping placements are included; nothing is assumed of
the shards but that a projection is in one of them.

From there `ReadsExact` states what the program relies on, `ReadsAreExact`, for every
set of experts. Each projection of an expert has its slice and each slice its
projection, so there are as many of one as of the other (the number the callback
counts down) and their bytes together are those of the synchronous copy
(`RunsBring`). Along the sorted requests a second invariant (`Swept`) holds beside
`Merged`: a run starts at or below every request still to come, the last run alone
can grow, and a new one begins beyond its end plus the gap. Since a request is
never below the run it joins, its slice starts inside that run (`RunsSweep`).

**The pipeline** (`PrefetchPipelineProofs`), over `RunsExact`, for any batches,
budgets, faults and experts, none of them empty (`NothingIsEmpty`): `TypeCorrect`,
`BytesAreExact`, `FlightNamesStreaming`, `StagedOnce` and `WaitsAreAnswered`. `IInv`
follows a slice. It is *due* from the moment its run is made until the callback has
taken it off its expert's counter. `RunsApart` says a run is in one place;
`DueSlices` that no two due slices carry the same projection and each belongs to a key in
flight; `Assembly` that the counter of a key in flight is the number of its
projections not yet counted, of which the due ones are a part and the rest were
lost with a failed read; `Landings` that one callback at most lands a key, after
every slice of it was copied. `BytesAreExact` does not need the absence of faults: a
failed read leaves a counter that never reaches 0, so that the expert never lands.
`WaitsAreAnswered` has the premise of its invariant, room for every expert.

**The token loop** (`ForwardProofs`), for any positive dimensions, initial capacity
and schedule of indexer layers: `TypeCorrect`, `HistoryKept`, `SelectionsAreOwn`,
`AppendsInPlace` and `StoreRefinement`. `IInv` is `Counts` (the buffers have exactly
the room their capacity asks for, and a token in progress has room), `RowsHeld`
and `IndexHeld` (each row stored in this conversation is at its offset), and
`SelectionHeld` and `AttendedHeld` (what a layer finds as the selection is that of the
last full layer before it, for this token). The arithmetic is that of the head-major
layout: rows of distinct heads and positions do not overlap, and growth moves each
head's block from one stride to another (`Rebased`). `NewCapSuffices` shows that the
doubling of `growTo` ends: the capacities it passes through are the iterates of a
function, and the least that is large enough exists.

**The MoE layer** (`MoeLayerProofs`), for any model, device, rankings and command
lines: `TypeCorrect` and `RequestsKept`, whatever fails; `BytesOwn` and
`OutputExact` under two hypotheses. `Control` has the shapes and where the pass is.
`RequestsKept` adds `History` (what the scheduler remembers of a layer was learned
there: winners after a first visit, a positive overlap after a second), `Asked` (the
requests of the layer in progress are justified) and `ReadAhead` (each contribution of
the CPU asked for the winner after it, whatever lies behind the winners). `BytesOwn` and `OutputExact` add
`Sound` for the device: besides `Own`, the property itself, `Queue` (every queued
copy reads a pinned buffer of its own that is marked as pending) and `Known` (each
copy queued for a resident key's slot is covered by that key's event, so that who
computes with the key waits for it); and `Summed` for the layer in progress. The
first hypothesis is `Recoverable`: failures are of allocations, waits and outputs,
those of the run `moe_layer`; `moe_fault` shows that a failed upload breaks the
property (finding 4). The second, `KeyZero \notin ExpertKeys`, is a fact about the
model this program is written for, whose first three layers are dense
(`model/config.h:53`; a checkpoint that leaves the field out gets 0, and no check):
`acquireSlot` starts with `evictedKey = 0` and erases the upload record of that key
when it evicts nothing (`compute/cuda_backend.cpp:331`), so that were layer 0 a MoE
layer, its expert 0 could be computed without waiting for its upload. The proof found
this, as a case of `Admitted` that did not go through; TLC refutes
`OutputIsExact` on an instance with `FirstMoe = 0` and three pinned buffers.

**The pipes** (`SessionProofs`), for any limit of attempts and any number of stray
lines: `RepliesPaired`. `PipesInv` tells the lines in the pipes apart by the request they
are about. `ChildIsTold` says what is left of a process that is not there, and that a
torn line has a dead writer. As long as the child has printed nothing of its own since it
became ready, `StartsInOrder` says that the ready line, if it is in the pipe, is the last
one there (so whoever reads it has read every stray line before it), `RestsEmpty` that between
requests nothing is in the pipes of a child that lives, and `AsksOnce` that while a request
is open it is in one pipe or its reply in the other. The pairing by order is correct
because the pipes are empty when a request begins, not because the code checks
anything.

**The program** (`SessionProofs`), for any command lines: `DegradationRefused`. The program
counter of `main` stands for what the parts before it have established, and `MainInv` says
what: `Established` (past the index MTP was not asked for; from the prompt on the device is
there if one was asked for; a device in use is a CUDA device, and one was not
found by a run told to stay on the CPU), `PromptIsTold` (tokens
are made from a prompt that is whole, or torn by a child that died of it, which needs
`PipesInv`) and `Succeeds` (exit code 0 is given at the end alone).

**The warm-up and the Windows reader** (`SessionProofs`), from finitely many dense
tensors and workers and a ring of at least one buffer of at least one byte; the
numbers a read may have (`ReqsAssumption`) need only be enough for a plan. `WarmSafe` and
`WinReaderRefinement` come from one invariant, `WarmInv`. `ReaderInv` is about the
reader: a read is in one place (with the system, on the port, with a worker, or
lost), it is answered once its worker has called, and the count is the number of reads
outstanding. `InOneTurn` joins the two modules: what is outstanding was submitted since
the last drain, because a drain that ends found the count at 0, and so a
turn has at most as many reads as the ring has buffers. `PlanIsFollowed` says how far
the pass is. That a plan covers the dense tensors (`PlansCover`) is about no state: the
ranges of a shard are sorted (`SortOrders`: each range before those that come
later), merged (`WarmRunsCover`: the runs of a prefix cover the ranges of that prefix, whether or not they
overlap) and cut (`ChunksCoverRun`), each fold treated by an invariant on its prefixes. The refinement maps a
failed completion to a read that stays outstanding for ever: safety holds, and the
drains after it hang. A read that cannot start is never submitted to the abstract
reader; its callback is lost all the same (section 8).

**The budgets** (`SessionProofs`), from `MiB \in Nat \ {0}` and a word of
more than 128 GiB: `BudgetsAlwaysFit`. For every host and every environment the
cache and the RAM budget fit beside the reserve of the system, the share of the video memory
fits it, and threads and workers stay in their ranges. There is no state: the
argument is that a wanted size, wrapped or not, is only a size, that each
budget is cut to what is beside the reserve, and that the floor of two GiB
keeps the reserve at most half of the RAM (`ReserveFits`). No run enumerates the
hosts; the theorem covers them.

**The index of the weights**: `IndexExact`, for a checkpoint of any files with any
content, with or without index.json (`IsCheckpoint` asks only that there are finitely
many of them and that sizes are numbers). The index has exactly the weights for which
`build()` comes upon a tensor (`Found`); each is in the bounds of `layers` and
`routedExperts`, and has bytes of such a tensor that are aligned, and inside its file
unless the sum of its header and its end leaves 64 bits (`SumsFit`: the check of
`open()` wraps, and then passes bytes that are nowhere);
without index.json it is one of the last shard that has any. `Follows` is the invariant
of the fold: of the tensors dispatched so far, the last of a slot is there. The order
of the concatenated shards (`Flat`) makes that the last shard. The theorem takes
`SlotOf` and the checks of `open()` as they are; that they are the right ones is what
`WeightsAreFound` checks.

**The sampler** (`TokenProofs`), for any vocabulary and any positive exponentials:
`DrawsAreSupported`. What it takes from the numbers is named in `TokenDraw`:
`TemperatureKeepsOrder` (scaling does not take two logits together, or top-k would keep
both) and `PenaltiesStandClearOfTheMask` (the penalties, met as often as the window is
long, leave every logit out of the reach of -1e30). The property excepts a repetition
penalty below 1 after top-k (`LiftsTheMask`), which does bring masked tokens back. The argument goes along the chain.
Top-k masks all but the k best (`TopKKeepsTheBest`; a sorted order exists, by
`SortedExists`, and is a bijection). A penalty of at least 1 multiplies a negative logit and divides
a positive one, so that it leaves what is masked at or below the mask, however often
the token is in the window, and the rest above a floor
(`RepetitionStaysAboveTheFloor`, an invariant of the fold). Hence some logit stands clear of
the mask after min-p, and every one above the mask does (`PenalisedStandsClear`); typical-p
keeps the first of its order (`TypicalLeavesOne`). A token with a weight is then within the
reach of the highest logit, and so is not masked (`TopPLeavesTheUnmasked`), and a token
that is drawn has a weight, since it is where the running sum rises (`DrawnHasWeight`).
Of the order of `std::sort` nothing is used but that it names each token once, and of
typical-p's distances nothing at all.

**The tokenizer** (`TokenProofs`), for any Unicode tables, any merges and any added
tokens that are not empty: `TextsComeBack`. Encoding and then decoding gives every text
of Unicode characters back, and any bytes as the decoder mends them. Its hypothesis
is `VocabularyServes`: a `tokenizer.json` in which each byte has a token, each id names
one, and what a merge makes is a token or can be spelt; the code checks none of this,
and TLC evaluates it on the vocabulary of its run. The argument follows the bytes. The
code points are read from byte to byte to the end, broken ones included
(`DecodeCpsWalks`); each alternative of the pattern takes at least one and none beyond
the last, so that the chunks cover the text and none is empty (`ChunksCover`); a merge
joins two pieces and loses nothing, and when the loop ends no pair is left
(`MergesKeepTheBytes`); the ids of a piece, a chunk and a span are read as its bytes
(`PieceIsRead`, `ChunkIsRead`, `SpansAreRead`), an added token as its content; and
the decoder takes each well-formed character whole (`CharactersStay`). Each loop is a
recursive function over the positions of a sequence, treated by an induction on them.

**Induction.** The library's induction theorems take an operator as a parameter and
cannot be instantiated here. `FoldLemmas` derives from well-foundedness the two facts
that replace them, `LeastNat` and `LeastSubset`: a least counterexample is assumed and
refuted. From these it proves an induction for a set of numbers up to a bound (`CountUp`), what sums over
finite sets do (`SumTakes`, `SumGrows`), that a function can be iterated
(`IterationExists`), what a concatenation of sequences holds (`FlattenSeqIsFlat`,
`FlatKeeps`, `FlattenJoins`) and that a loop which puts a head before the rest is
defined at every position (`JoinExists`).

## 6. What is only model-checked

* Liveness and everything under fairness, which the prover does not treat:
  `EveryReadAnswered`, `StopTerminates`, `SleeperWoken`, `AlwaysLands`,
  `EveryCallReturns`, `RunEnds`.
* `TokensSpellTheText` and `WeightsAreFound`, where they compare the code with
  definitions that only the run has: the pattern of the chunks, the order of the merges,
  and the slot of each name. `TextsComeBack` is the rest of the former, and `IndexExact`
  the part of the latter that needs none (`IndexIsExact`).

## 7. What is not modelled, and why

Kernels (floating point without state), `MappedFile` (operating-system calls),
`ModelConfig` (fields with defaults), `InferenceStats`, `PlacementDirector`
(counters that no control flow reads but one pin, left open in
`PrefetchPipeline`), the self test, logging, scripts, the vendored JSON parser
and the Unicode tables (`BpeTokenizer` takes their ranges as constants).

In modelled parts: hit and miss counters, wording of messages, the exact clock;
`Scheduler::loadExpert`, which has no caller; the scores and the partial sort of
the router, which `MoeLayer` replaces by any ranking of a bounded set, with a
top-k of at most `Places` (eight: `compute/moe_router.h:41` does not check that its
result has room for more); on which engine the parts of a layer's sum were computed,
which is recorded and bounds what must have been read ahead, but a sum of both engines
passes (`model/glm_forward.cpp:585`); start-up and shutdown of the device; the failures
of the native tokenizer's `load()`; `validateWeights`, `readTensor` and
`readWeight`; the early modes of `main()`, which are one step each; the warm-up over
the POSIX reader, one step of `Session`, since `iocp_reader` covers that
reader's drains; the limit of 64 MiB on a reply line, which no reply reaches; the handles
that a failed `CreateProcess` leaves in `PythonTokenizer`, which its destructor
writes to and closes a second time (`tokenizer/python_tokenizer.cpp:46-48`, `97-104`).

## 8. Findings

Runs that expect a violation:

1. `reader_drain`: the lost wakeup of `waitAll` (`storage/iocp_reader.h:52`).
   Shutdown and the warm-up's flush can hang.
2. `prefetch_fault`: a failed read leaves its keys in `prefetchedInFlight_` for
   ever (`engine/scheduler.cpp:554`); each later getter waits out its deadline.
3. `prefetch_probe`: an expert that lands between `probe`'s two questions is
   read from disk and inserted a second time (`engine/scheduler.cpp:686`).
4. `moe_fault`: after a failed upload the expert counts as resident and is computed
   later with old bytes (`compute/cuda_backend.cpp:419`).
5. `sampler_top_p`: the nucleus filter masks the token that crosses `p`; one token
   above `p` makes the draw uniform (`compute/sampler.h:83`).

Observations that the models contain, without a run of their own:

* An insert into the cache also fails when the entries left are boosted, although
  the comment at `storage/lru_cache.h:92` names pins only.
* On Windows a failed read ends its worker and is never counted down, so the
  next drain hangs (`storage/iocp_reader.cpp:25`). A read that cannot start is
  uncounted (line 101) and hangs no drain, but no one is told: its callback has been
  moved away when line 88 or 99 asks for it.
* On POSIX a write to a child that has exited kills the host by SIGPIPE, so the
  message at `main.cpp:504` is not always reached; `execl` does not search the PATH.
* A reply torn by the death of the child is handed out as a line; its JSON then
  decides.
* The fill with popular experts adds none (`engine/scheduler.cpp:210`). Extra
  experts are winners of this layer staged under the next one's keys (line 335),
  although the comment at line 321 speaks of the current layer's.
* The look-ahead of the CPU path is bounded by the number of experts, not of winners
  (`model/glm_forward.cpp:620`): behind the winners it reads expert 0, against the
  "same experts" of line 610, and with a top-k of 7 or 8 it reads past the end of
  `TopKResult::indices`, which has 8 places.
* A staging failure after the first winners leaves a sum of both engines
  (`model/glm_forward.cpp:585`), where a failed computation starts the layer over "for
  byte-exact output".
* `main()` refuses to degrade two options only. `--gpu cuda` without a device, or with
  one that does not start, warns and succeeds on the CPU (`main.cpp:441-453`); an unknown
  option or backend warns (lines 217-227); `--temperature` has no effect with
  `--prompt-tokens` (line 628); a torn reply that still has ids is generated from.
* A repetition penalty below 1, a boost (`compute/sampler.h:98`), divides the -1e30 of a
  token that top-k masked, once for each place in the window of 64, and can bring it back.
* The sums and products of `open()` wrap (`model/safetensors.cpp:72`, `164`, `192`):
  a header with an end near 2^64 passes the check that its bytes are in the file.
* A draw of exactly 0 gives token 0 and a rounding error gives the last token,
  masked or not. `sampleFromLogits` with a temperature of 0 is not the argmax
  its comment at `compute/sampler.h:189` promises; `main` does not call it then.
* Sampling is limited to the vocabulary size, which does not count added tokens:
  an EOS among them cannot be drawn.
* In `preTokenize` contractions of capitals never match, and any white space may
  stand before punctuation, where the split of seven alternatives it implements
  (`doc/design.md:191`) has `(?i:'s|...)` and one blank: the chunks, and so possibly the ids, differ from those of
  the reference tokenizer, against `doc/design.md:192-194`.
* `acquireSlot` that evicts nothing erases the upload record of the key 0
  (`compute/cuda_backend.cpp:331`, `354`); only a model whose layer 0 is a MoE layer
  has an expert with that key (section 5).
* Shards that are missing or do not open are skipped silently by `build()`; a
  checkpoint whose only MTP tensor is `mtp.dense_with_embedding` does not set
  the head; a shard with fewer than eight bytes of data is refused.

## 9. Plan

Done: the cache, the reader on both platforms, the pipeline, the routing
lookahead, the MoE layer over the device's cache, the key/value cache with the
loop around it, the tokenizers, the index, the sampler, the configuration and
the program around them; and the proofs of all of these.
What remains:

1. The warm-up over the POSIX reader as a composition of its own.
