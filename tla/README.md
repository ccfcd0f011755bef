# A TLA+ model of vllm-mlu

vllm-mlu runs the vLLM v1 engine on Cambricon MLU devices.  It replaces ("hijacks") parts of
vLLM: the schedulers, the engine-core step, KV block allocation, the worker and the model
runner, and it adds a data-parallel MoE runner, a drafter, a sleep-mode allocator and a KV
connector.  This directory holds TLA+ modules of those parts that carry state and decisions, TLC
configurations that check them on small instances, and TLAPS proofs of what holds for every
instance.  What vLLM itself supplies (request objects, queues, the block pool, the grammar
backend) is modelled from how the code here uses it and marked *external* in `PROJECT.json`.

Run the checks from this directory:

    tlc -config UnchunkSync.cfg MCUnchunkEngine.tla
    tlapm UnchunkScheduler_proof.tla

## 1. The system

A client adds and aborts requests.  `EngineCore` is a loop: handle client calls, then do one
step.  A step asks the scheduler for a batch (`schedule`), sends the `SchedulerOutput` to the
worker, and consumes a model output (`update_from_output`).  With a batch queue deeper than one
(pipelining, async scheduling) the step first schedules a new batch while older ones are still
in flight, and only waits for the oldest when the queue is full.  The worker applies the
changes of each `SchedulerOutput` to a persistent batch, runs the model, samples, and with
speculative decoding verifies draft tokens and proposes new ones.  With data parallelism several
engines run such steps side by side, and their workers meet in collectives.

| Component | State | Operations | What makes it correct | Hard because |
|---|---|---|---|---|
| Unchunked schedulers, sync and async (`v1/core/sched/scheduler.py`, `async_scheduler.py`) | waiting, running and skipped queues; per request: status, output and computed counts, placeholders, drafts; finished ids | `schedule` (prefill batches first, decode batches otherwise), preemption, `_update_after_schedule`, `update_from_output`, `finish_requests` | a request is in one queue; budget and limits are respected; every scheduled token has a KV slot; optimistic counts are corrected exactly once; everybody finishes | counts run ahead of results; preemption and abort happen with results in flight |
| Chunked scheduler and its async subclass (same files) | the same, and `pending_structured_output_tokens` | `schedule` mixing prefill and decode, deferred sampling | as above; grammar masks only for known tokens | deferred batches are held outside the queue |
| Engine core (`v1/engine/core.py`) | batch queue, input queue | `step`, `step_with_batch_queue`, `_process_input_queue` | queue bounded, outputs consumed in order, never waits on nothing | early returns, deferral |
| KV cache manager (`v1/core/kv_cache_manager.py` and its helpers) | free pool, blocks per request | `allocate_slots`, `free` | no block lost or shared, slots cover scheduled tokens | lookahead and fixed window, cut at the model length |
| Request queues | waiting: deque or heap; running: list | append, peek, pop, prepend, remove, victim choice | no loss, no duplicate | FCFS and PRIORITY differ in who goes next and who goes back |
| Persistent batch of the model runner (`v1/worker/gpu_model_runner.py`) | cached request states, rows of the batch, sampled counts of the batch before | `_update_states`, `_prepare_inputs`, `_bookkeeping_sync` | positions, blocks and sampled rows are the ones the scheduler meant | incremental; the worker corrects by itself what the scheduler sent optimistically |
| kv-state slots of the model runner (same file) | `req_id_to_kv_state`, `kv_state_free_slots` | insert a new id, remove a finished one, look up a batch | one owner per slot, none lost, one for each started request | the worker hears of a finish one or two outputs late; ids are used again |
| Proposer and rejection sampler (`v1/spec_decode`, `v1/sample`) | drafts, KV caches of target and draft model | `execute_model`, rejection kernels, `propose` | the output is the one of plain decoding; stale KV entries are never read | flat index arithmetic, shift by one, entries of rejected tokens stay behind |
| Data-parallel runner and helpers (`v1/worker/dp_gpu_model_runner.py`, `spec_decode/dp_eagle.py`, `models/dp_utils.py`, `mlu_forward_context.py`, dp embedding and logits) | the metadata gathered last | a step: gather, embedding, layers, logits, drafter rounds; dummy batches | every rank calls the same collectives with the same sizes; rows come back | each rank decides locally; lockstep; padding |
| Local ids (`v1/attention/backends/gdn_attn.py`) | two maps, order of use, free states | look up a batch, evict | rows of a batch have distinct states; a request finds its own | eviction inside one batch, nobody tells the mapper who is alive |
| Sleep-mode allocator (`device_allocator/cnmem.py`, `csrc/cnmem_allocator.cpp`, `gpu_worker.py`) | allocation table (handle, tag, CPU backup), saved buffers | allocate, free, `sleep`, `wake_up` by tags | data comes back once, memory mapped when used | partial wake-up, two sleep levels, frees while asleep |
| Shared-storage connector (`distributed/kv_transfer`) | requests to load, files in a directory | match, build metadata, load, save | files hold what their folder is named after; no token counts as computed without its entry | several engines, no locks, crashes between two files |
| NIXL connector, MLU graphs, executors, platform, configuration, hijack registration, metrics, Ray tooling | start-up state | - | - | see section 6 |
| Models, layers, kernels, quantization, LoRA ops | tensors | numerical code | - | out of reach of a model checker |

`PROJECT.json` lists each component with its sources and its status, and under `hazards` the
places of this code that a test would hardly reach, with the property that covers them or the
reason why none does.

## 2. The modules

    RequestQueue -- SchedulerCore -+- UnchunkScheduler -+- MCUnchunkScheduler
                      |   |        |                    +- UnchunkEngine -- MCUnchunkEngine
                      |   |        +- ModelRunner ------+
                      |   |        +- ChunkScheduler ---+- ChunkEngine ---- MCChunkEngine
                      |   +- MCWorkloads (used by the three MC modules)
                      +- RequestLifecycle (INSTANCE: the abstract specification)

    RequestQueue -- KvStateSlots -- MCKvStateSlots       CnMemAllocator -- MCCnMemAllocator
    RequestQueue -- LocalIds ------ MCLocalIds           DataParallel ---- MCDataParallel
    SpecDecode ---- MCSpecDecode                         SharedStorage --- MCSharedStorage

    RequestQueue_proof -+- SchedulerCore_proof -+- UnchunkScheduler_proof
                        |                       +- ChunkScheduler_proof
                        +- KvStateSlots_proof            CnMemAllocator_proof
                        +- LocalIds_proof                SharedStorage_proof

`SchedulerCore_proof` also extends ModelRunner, `UnchunkScheduler_proof` UnchunkEngine and
`ChunkScheduler_proof` ChunkEngine: their theorems are about the scheduler alone and about the
scheduler with its worker.

**RequestQueue**: queues as sequences without repetition.  `Without` is `list.remove`,
`remove_all` and `pop_request`; `Prepend` is `prepend_request`; `GoesNext` and `IsVictim` are
the two policies' choices.  Under PRIORITY the heap's order is irrelevant: the request of least
rank is chosen wherever it is, and requests of equal rank in any order.

**SchedulerCore**: what all schedulers of the repository share, and the engine core around
them.  Tokens are counted, not named.  The correspondence:

| Variable | Code |
|---|---|
| `status`, `out`, `computed`, `placeholders`, `spec` | `Request.status`, number of output tokens, `num_computed_tokens`, `num_output_placeholders`, `len(spec_token_ids)` |
| `submissions`, `ready` | which submission of an id this is (a history variable), whether its grammar is compiled |
| `held`, `free` | number of KV blocks of a request, length of the free queue |
| `waiting`, `running`, `finished` | the scheduler's queues and `finished_req_ids` |
| `pc`, `skipped`, `budget`, `idx`, `cur`, `num`, `nsched`, `sspec` | the place in `schedule()` and its locals `skipped_waiting_requests`, `token_budget`, `req_index`, `request`, `num_new_tokens`, `num_scheduled_tokens`, `scheduled_spec_decode_tokens` |
| `todo` | requests of the output that `update_from_output` has not come to yet |
| `queue` | `batch_queue`, oldest first; a batch records its tokens, drafts, who samples, and as history the position it goes on from, the drafts rejected since, the mask length and the submission it was made for |

| Action | Code |
|---|---|
| `AddRequest`, `Abort` | client calls, handled between two engine steps |
| `GrammarReady` | the grammar future completes, at any time |
| `ScheduleRunning`, `Preempt` | the allocation loop both `schedule()` methods share |
| `CommitSchedule` | `_update_after_schedule`, the batch enters the queue; the engine goes on or waits for the oldest batch |
| `Drain` | nothing to schedule, but a batch is in flight |
| `OutputStep` | one turn of the loop of `update_from_output`; how many drafts are accepted and whether a token ends the request are free choices |
| `FinishOutput` | the batch is done; without async scheduling `post_step` hands over new drafts, for a structured request as many as its grammar accepts (`HandOverDrafts`) |

**UnchunkScheduler**: `MLUUnchunkScheduler.schedule`, one action per turn of its two loops:
`BeginSchedule`, `SkipWaiting`, `AdmitWaiting`, `EndWaiting`, `SkipRunning`, `PickRunning`,
`EndRunning`.  `AsyncScheduling` selects `MLUUnchunkAsyncScheduler`.  schedule() is not
interleaved with anything but `GrammarReady`; its turns are separate steps so that the
properties can speak of what happens inside.

**ChunkScheduler**: `SchedulerWithProfiler.schedule` in the same way, running requests first
(`PassOverRunning`, `PickChunk`, `ScheduleChunk`, `PreemptChunk`, `EndRunningLoop`), then waiting
ones (`SkipChunk`, `AdmitChunk`, `EndWaitingLoop`), and the deferred sampling of
`step_with_batch_queue` (`CommitAndDefer`, `SampleDeferred`): a batch with a structured request
whose last token is in flight is executed, but sampled only after the older output.

**ModelRunner** and **UnchunkEngine**, **ChunkEngine**: the worker's side, composed with either
scheduler.  `Engine(A)` is a step `A` of the scheduler together with what it writes into the
`SchedulerOutput`s (`sent`); `ExecuteModel` is `_update_states` for the oldest output;
`Bookkeeping` is `_bookkeeping_sync`.  The worker runs a batch when the engine waits for it.  That
loses nothing: the worker reads only the outputs, in order, and its own state, and nobody sees
the worker but through the tokens it samples, so running earlier gives the same results.

**RequestLifecycle**: the abstract specification, what a client and the worker may rely on
whatever the schedulers do: `Submit`, `Activate`, `Suspend`, `Produce`, `End`.  The mapping
(`Lifecycle` in SchedulerCore) takes a running request for active, a waiting or preempted one
for queued; tokens in flight do not exist there.

**KvStateSlots**: the slot pool of `MLUModelRunner`, between a scheduler reduced to what the
worker can see of it (who is started, run, reported finished) and a channel of up to `Depth`
outputs.  `Admit`, `Preempt` and `Stop` follow the queue policies of the scheduler; budgets and
blocks become free choices, so the worker is checked against more schedules than the scheduler
produces.  `Execute` is `_update_states` followed by `_prepare_inputs`; a failing assertion of
`_insert_req_id` or a `KeyError` of `_remove_req_id` ends the worker (`EngineDead`).

**CnMemAllocator**: sleep mode, across three layers: the driver calls of
`csrc/cnmem_allocator.cpp` (`CreateAndMap`, `UnmapAndRelease`), the table of `cnmem.py`
(`table` is `pointer_to_data`; `stage` doubles as `current_tag`) and the worker's saved buffers
(`saved` is `_sleep_saved_buffers`).  `Malloc`, `DropTensor`, `EndPool` and `Free` are what torch
does to a pool; `Sleep` and `WakeUp` are the worker's calls, from the loop over the table to the
buffers written back at the end.  The executor's guard (no sleep while anything sleeps, no
wake-up of a tag that is awake, unless all are woken) belongs to vLLM and is external, as is
loading weights again.  Memory is only "good" or "bad": what the program last stored, or lost.

**DataParallel**: one step of `DPMLUModelRunner` on all workers.  `prog[r]` is the list of
collectives worker `r` will call up to its next gather, derived from its own batch and the
metadata it gathered (`MainPart`, `DraftPart`, `SizesPart`).  `Start` begins a step with a batch or
the dummy batch; `Exchange` completes a collective that moves rows, `GatherMeta` and `GatherSizes`
those that gather the sizes.  When the members of a group do not agree, none of them goes on.
`MlpRows`, `LayerRows`, `OwnSlice` say where each row goes on the three communication paths.

**SpecDecode**: speculative decoding in one worker, with tokens.  `Execute` flattens the rows of
a batch and writes the KV cache, `Sample` is the greedy or the random rejection kernel, `Propose`
the drafter with the padded batch and the bookkeeping.  A KV entry is the token it was computed
from, the target model any function of what it attends to, the draft model proposes any of
`Proposals`.  A draft whose position is past the model length is computed at position 0 and its slot
masked (`PassSlot`).

**LocalIds**: `DeviceAwareLocalIdMapper`.  `Begin`, `Lookup` (one row), `EndLookup`, `Assign`,
`EvictAndAssign` (one missing id), `Fill` are the three passes of the lookup; `Forward` uses the
recurrent states.  The scheduler is reduced to its batches (`ScheduleAny`, `Leave`).  `BatchOf` says
which running requests are in a batch that admits others: with the chunked scheduler those that have
new tokens.  One that is scheduled up to the model's length has none until it ends (`spent`); those
that have none for a while and then go on (a stage of a pipeline still has them, an encoder budget
is used up, drafts were rejected after it reached the length) are there if `PassesOver`.

**SharedStorage**: `SharedStorageConnector` on several engines.  `Admit` is the scheduler side
(match, metadata), `LoadFile`, `LoadFails`, `AttendLayer` the worker side, one file per step;
`Crash` and `Restart` lose everything but the directory.  A KV entry is the sequence of tokens it
depends on, so that an entry computed on wrong ones is seen to be wrong.

Definitions marked `Mutant:`, placed just before the definition they vary, change it the way a
plausible slip would; `PROJECT.json` says which property each of them breaks.  No action uses
them.  Every module has a type invariant `TypeOK`; the runs check it where a slip in the code
would break it (`unchunk_sync`: a negative block count), and TLAPS proves it for the schedulers, the
slots, the local ids and the allocator.

## 3. What is checked

| Run | Instance | Shows |
|---|---|---|
| `unchunk_sync` | scheduler and worker, one batch at a time, PRIORITY, one draft token, blocks of two, a structured request, ids submitted twice, long-prefill threshold 2 | `TypeOK`, `QueueConsistency`; budget and blocks survive a preemption of a request scheduled in the same pass (`BudgetRespected`, `BlockAccounting`); every scheduled token has a slot (`SlotsCoverSchedule`); the same number of tokens for all requests of a decode batch without structured output (`SameTokenCounts`) within the model length (`InputPositionInRange`); the worker knows every request it is sent and its block tables follow (`StateCached`, `WorkerBlocks`); `ImplementsLifecycle` |
| `unchunk_async` | async scheduling, two batches in flight, one draft, a structured request, a pool for exactly one request of full length | placeholders equal the tokens in flight, outputs are applied in sequence, none twice and none left out (`OutputsInSequence`), the batch queue is bounded, and every request finishes in spite of preemptions |
| `chunk_async` | scheduler and worker, async, chunked prompts, one draft, a structured request, two adapters of which one may run, a pool for exactly one request of full length | a deferred batch has an older one to wait for, masks are fresh, the worker's own corrections lead to the positions and samples the scheduler counts on, every request finishes; `ImplementsLifecycle` |
| `sleep_mode` | four interchangeable addresses, at most two physical allocations for each, both levels, any subset of tags | memory is mapped exactly while awake; weights survive level 1, buffers both levels |
| `kv_fcfs` | two slots, two outputs in flight, FCFS, unlimited aborts and resubmissions | a slot has one owner, is given back, exists for every started request; every batch can look up its slots |
| `dp_steps` | two engines of two workers, embedding and logits split over all four, two drafts, graphs, prompts (one of them shorter than a decode row), decodes and dummy batches | collectives agree in kind and size although every rank decides by itself; ranks stay in the same step and drafter round; the gathered lists tell the truth; rows come back; no rank waits for ever; all but `SameRound` and `RowsComeBack` with the exception of irregular batches (section 4) |
| `spec_decode` | one greedy and one random request, four drafts out of four proposals, any batches and budgets, interleaved blocks, a model length of 5 | a greedy request gets the tokens of plain decoding (`Lossless`); rejected drafts leave nothing that is read later (`KvFresh`); the drafter's cache is aligned, drafts past the model length included (`DrafterAligned`) |
| `local_ids` | chunked batches, two in flight, padded decode batches, three requests for two places, three states, requests that wait for their end at the model length | tables agree after every change, rows of a batch have distinct states, a request finds its own |
| `shared_storage` | two engines, prompts that are prefixes of one another in any order, one crash or preemption, two layers | a file holds what its folder is named after; no engine decodes on entries it has not |

Three runs show that the code does not do what a comment of it says (`findings` quotes them):

| Run | Disagreement |
|---|---|
| `unchunk_drafts` | a running request that sat out a prefill batch comes back as "not in the batch" and its draft count is forgotten; a rejection is then not taken back, and the next positions are too far |
| `dp_short_prompts` | a prompt no longer than a decode row reports decode, the group agrees on a graph, and that rank alone runs eagerly |
| `storage_names` | a folder is looked for under one name and read under another when the cached prompt is a multiple of the block size |

*Bounds.*  Scheduler and slot runs: three requests, one of them with a longer prompt, share one or
two places less than they need: enough for one to be preempted by another and to overtake a
third, or to be skipped while two batches are in flight.  Token and block counts are the smallest
at which prompts differ, the length limit bites and preemption happens.  `MaxSubmissions` bounds
client submissions.  `sleep_mode`: four addresses hold a parameter, a buffer, KV blocks and memory
that is given back, in every combination; `MaxHandles` bounds the allocations that repeated
wake-ups lose.  The pools of `unchunk_async` and `chunk_async` hold one request of full length, so
that two that run preempt each other.  `dp_steps`: two tensor-parallel workers make scattering and
uneven padding happen, `MaxSteps = 2` lets a rank run ahead of another by a step.  `spec_decode`:
four drafts are the least at which a request that goes on has a draft past the model length, because
the last pass of the drafter is three positions on; `Proposals` is four sequences, which agree with
the target model for all, some or none of their tokens.
`local_ids`: requests and blocks are interchangeable (`SYMMETRY`); three blocks and the id of padded
rows compete for three states.  `shared_storage`: three blocks per engine, so that a request that
comes back gets others; requests of one engine therefore do not coexist in its cache.
`CHECK_DEADLOCK FALSE` is set where the bounds on submissions or steps let the system stop.

*Fairness.*  `FairSpec`, `EngineFairSpec`: weak fairness of scheduler, engine and worker steps
together, since the busy loop of the engine core steps as long as there are requests, and weak
fairness of each grammar compilation, since a grammar compiles or its request fails.  Nothing is
assumed of clients.  `MinPrefillBatch` is 1, its default: with more, the last few requests starve by
design.  `DataParallel`: weak fairness of `Next` as a whole, that is, the system does not stop
while some rank can go on; and an engine without requests runs dummy batches as long as another
works, which is what the data-parallel loop of vLLM does.

*Where properties hold.*  Some hold only where they are checked.
- `SameTokenCounts` lets a structured request have fewer tokens than the others (section 4).  It fails
  under async scheduling near the length limit, because the limit shrinks with the optimistic
  `num_computed_tokens` (`UnchunkAsync.cfg` with `NumBlocks = 12` and no structured request); with a
  budget below `max_num_seqs * (1 + drafts)` (`UnchunkSync.cfg` with 5 and no structured request); and
  with a long-prefill threshold above `1 + drafts`, because a prompt cut to it is finished by the
  running loop (3, with a prompt of 5).  Elsewhere it is proved (`EvenShares`).
- `GrammarMaskFresh` fails for `MLUUnchunkAsyncScheduler`, which never sets
  `pending_structured_output_tokens`: the engine computes the mask before the previous token is
  known.
- `SlotsSuffice` holds because FCFS keeps preempted requests in front of the queue.
- `SlotsCoverSchedule` and `InputPositionInRange` fail for the unchunked schedulers with two drafts:
  the limit of a running request is extended by `NumSpecTokens`, and near the model length there is
  one position too many (`UnchunkAsync.cfg` with `NumSpecTokens = 2`).  With one draft the `- 1` makes
  up for it; the chunked `schedule()` cuts at the model length itself.
- `PlaceholderAccounting`, `OutputsInSequence` and `GrammarMaskFresh` fail when an aborted id is
  submitted again while a batch of its is in flight (`MaxSubmissions = 2`), and so does
  `WorkerPositions`.  `OutputsInSequence` and `GrammarMaskFresh` also fail without async
  scheduling in a pipeline of three batches (`BatchQueueSize = 3`): a request preempted with a batch
  in flight is computed again before that batch is consumed.  A pipeline of two always consumes it
  first.
- `OutputsInSequence` is about the scheduler alone: what it took a request to have when it scheduled a
  batch, less the drafts rejected since, is what the request has when the output comes.  Where the
  worker computes the tokens is another matter, because it takes rejections back by itself and not
  always (`gpu_model_runner.py:1473`): that is `WorkerPositions`, which fails for the unchunked
  scheduler with drafts in flight (`unchunk_drafts`).
- `GrammarMaskFresh` is about the first token of a row; the masks of the drafts behind it are not
  compared.
- `CollectivesMatch`, `ListsAreTrue` and `EveryStepFinishes` except irregular batches: prompts of at most
  `1 + drafts` tokens, and decode batches in which a grammar has cut drafts (the run has the former
  only).  `ListsAreTrue` says what is wrong with their lists.
- `BuffersSurvive` holds up to a fault: a level 2 sleep followed by a wake-up of the KV cache
  alone writes the saved buffers into unmapped memory (`fault`), which ends the worker.
- `OwnState` fails with `Unchunked = TRUE`: a running request sits out prefill batches, is evicted
  and goes on from a foreign state.  With `PassesOver = TRUE` it fails for the chunked scheduler in the
  same way.  `RowsApart` fails with `BatchSize = MaxNumSeqs` and padded
  batches: the id of the padding takes a state of its own and evicts a row of the same batch.
- `WorkerBlocks` is proved under `Exact` (section 5).  Outside of it, with async scheduling and
  `MaxSubmissions = 2`, a late output can meet another life of its request, and a pass then computes
  a negative number of new tokens for it.
- `WorkerPositions` and `SamplesExpected` hold for both schedulers as long as no drafts are in flight.
  With async scheduling and drafts they are properties of the chunked scheduler: `unchunk_drafts` shows
  that they fail for the unchunked one.  The chunked one, too, keeps them only where every running
  request is in every batch: they fail when the budget has no room for everyone
  (`ChunkAsync.cfg` with a budget of 2, no adapters and the prompts of `OneTwoOne`), with PRIORITY and a
  preemption, when the engine may wait for the batch it has just made (`EarlyDone`), and with a
  long-prefill threshold (4, with three running requests, a budget of 6 and a prompt of 8).  A request
  that misses a batch leaves the persistent batch, and the drafts it had rejected are not taken back.

## 4. Disagreements without a run

Met while modelling, and reproducible by changing constants of an existing configuration.

| Where | What happens |
|---|---|
| `scheduler.py:1196` | the unchunked scheduler counts the adapters of one prefill pass: with `MaxLoras = 1` and `Lora <- TwoLoras` two passes admit both adapters, and the decode batch holds two although the comment says the limit is respected |
| `scheduler.py:1480` | with `NumSpecTokens = 2` `InputPositionInRange` fails: the limit is extended by the drafts, and a request near the model length is scheduled past it |
| `scheduler.py:949` | with async scheduling and `MaxSubmissions = 2` the output of an aborted request is applied to the request resubmitted under its id (`OutputsInSequence` fails); no run of section 3 takes this path |
| `gpu_model_runner.py:349` | aborting a request before its first schedule makes `_remove_req_id` pop a key that was never stored; `kv_fcfs` takes this step and its properties hold up to it |
| `gpu_model_runner.py:327`, `340` | with `PriorityPolicy = TRUE` `SlotsSuffice` fails: new requests overtake preempted ones, which keep their slots ("fail to allocate kv states") |
| `cnmem.py:256` | waking everything up after a part of it was woken overwrites the handles of the awake memory; the first allocation is never released |
| `scheduler.py:318`, `1474` | "ensure same token counts per batch during MTP": the drafts of a structured request are cut where its grammar refuses one, or dropped (`update_draft_token_ids`, `gpu_model_runner.py:1509`), and a decode batch with it is uneven |
| `gpu_model_runner.py:1017` | a uniform decode step reports `1 + drafts` logits rows for each request, but a prompt of at most that many tokens is a decode for `MLUInferMode` (`utils.py:36`) and has one row (`gpu_model_runner.py:1104`): the sizes of the logits' all_gather differ (`CollectivesMatch` without its exception fails in `dp_steps`), beside the graph of `dp_short_prompts`; a decode batch with cut drafts has the same list |
| `_update_request_with_output` | a comment says that preemption resets `num_output_placeholders`; in the code a preempted request keeps those of its batches in flight, and `PlaceholderAccounting` relies on it |

Further places that are hard to test, and that no module reaches: running requests wait while
arrivals keep coming (`scheduler.py:1451`); pipelines three or more deep (`scheduler.py:1447`);
driver calls that fail and are only printed (`cnmem_allocator.cpp:61`); `use_memory_pool` without a
`finally` (`cnmem.py:309`); 32-bit slot numbers (`block_table.py:83`); a local prefix longer than the
stored one (`shared_storage_connector.py:292`); a kv_consumer that polls its peer (`core.py:498`);
the local choice of the all2all path, which no caller enables (`dp_utils.py:393`); sequence lengths
of later drafter passes that keep rejected tokens (`dp_eagle.py:374`); the dummy batch of the plain
runner, which needs a kv-state slot (`gpu_model_runner.py:3276`).

## 5. What is proved

For every set of requests, every workload and every configuration that satisfies
`CoreAssumption` with `UnchunkAssumption` or `ChunkAssumption`, `SlotAssumption`,
`AllocatorAssumption`, `LocalIdsAssumption` or `StorageAssumption` (what an engine that starts
satisfies; for the shared storage also that a prompt has more than one token):

| Module | Theorems | Under |
|---|---|---|
| `UnchunkScheduler_proof` | `TypeCorrect`, `QueueConsistencyHolds`, `BlockAccountingHolds`, `BudgetRespectedHolds`, `BatchQueueBoundedHolds`, `LoopIndexHolds`, `LifecycleImplemented` | - |
| | `SlotsCoverScheduleHolds`, `InputPositionInRangeHolds` | `NumSpecTokens <= 1` |
| | `PlaceholderAccountingHolds` | `MaxSubmissions = 1` |
| | `OutputsInSequenceHolds` | `InOrder` |
| | `SameTokenCountsHolds` | `EvenShares` |
| with the worker | `EngineImplementsScheduler`, `StateCachedHolds` | - |
| | `WorkerBlocksHolds` | `Exact` |
| | `WorkerPositionsHolds`, `SamplesExpectedHolds` | `Unpipelined`, `Plain` |
| `ChunkScheduler_proof` | the same for the chunked schedulers (`ChunkTypeCorrect`, ..., `ChunkLifecycleImplemented`), slots for any number of drafts; `DeferredHasOlderHolds` | as above |
| | `GrammarMaskFreshHolds` | `InOrder` |
| with the worker | `ChunkEngineImplementsScheduler`, `ChunkStateCached` | - |
| | `ChunkWorkerBlocks` | `Exact` |
| | `ChunkWorkerPositions`, `ChunkSamplesExpected` | `Unpipelined`, and `Plain` or `Roomy` |
| `KvStateSlots_proof` | `TypeCorrect`, `SlotsExclusiveHolds`, `SlotsReleasedHolds`, `ForwardIndexableHolds` | - |
| | `SlotsSufficeHolds` | `~PriorityPolicy` |
| `LocalIds_proof` | `TypeCorrect`, `TablesAgreeHolds` | - |
| | `RowsApartHolds` | `Roomy` |
| | `OwnStateHolds` | `Roomy`, `~Unchunked`, `~PassesOver` |
| `CnMemAllocator_proof` | `TypeCorrect`, `MappedWhenAwakeHolds`, `WeightsSurviveHolds`, `BuffersSurviveHolds` | - |
| `SharedStorage_proof` | `TypeCorrect`, `StoredIsRightHolds`, `ComputedIsRightHolds` | - |

The hypotheses:

| Name | Configurations |
|---|---|
| `Exact` | ids are not submitted again (`MaxSubmissions = 1`), or there is no async scheduling |
| `InOrder` | `MaxSubmissions = 1` and at most two batches in flight |
| `Unpipelined` | `MaxSubmissions = 1`, and async scheduling or one batch at a time |
| `Plain` | with async scheduling there are no drafts |
| `Roomy` (chunked) | async scheduling, FCFS, no `EarlyDone`, no long-prefill threshold, and a budget of `max_num_seqs * (1 + drafts)` |
| `EvenShares` | one batch at a time without async scheduling, a long-prefill threshold of at most `1 + drafts` (or none), and a budget with such a share for `max_num_seqs` requests |
| `Roomy` (local ids) | a state for every running request and one for the padding, if there is padding |

Each excludes configurations in which TLC finds the property violated (section 3, "Where properties
hold"), with two exceptions, both in `Unpipelined`.  A pipeline without async scheduling is left
aside because it has several ranks, only the last of them samples, and the others learn the tokens
from the scheduler, which `ModelRunner`, a single rank, does not follow.  And while positions do
fail with async scheduling when ids are submitted again, TLC finds no violation with one batch at a time
(`UnchunkSync.cfg` with `WorkerPositions` and `SamplesExpected` as invariants); the proof does not
cover that, since `PosInv` takes what the worker knows of an id to be of its one life.

`RequestQueue_proof` holds the lemmas on queues the others rest on: which elements appending,
prepending, concatenating, reversing and removing leave, where the others stand then, and that
nothing is repeated.

*Sums.*  Blocks and budgets are sums over a function, computed by a fold in an order nobody knows.
`SchedulerCore_proof` does without an induction over that order: it counts a set with one pair for
each unit (`Units`, `Debts`, `Total`), shows that the fold agrees on the smallest set where it might
not (`SumIsTotal`), and has the rule everything uses, that changing one value changes the sum by the
difference (`SumUpdate`).

*Scheduler steps.*  Both `schedule()` methods are made of the same steps in different orders.
`CoreNext` names them with the weakest guards the proofs need (`Begins`, `Skips`, `Admits`, `PutsBack`,
`Picks`, `LeavesRunning`, `Commits`, `Pops`, ...); each of the two proof modules shows that every step
of its scheduler is one of them (`ScheduleIsCore`, `ChunkScheduleIsCore`), and has `CoreInv`:

* `Inv`: the types.  They are not inductive by themselves: `running[idx]` has a value only while the
  index is in range, and `idx` is only positive because a preemption that takes it back has removed a
  request the loop had passed (`LoopAhead`, which counts what this pass scheduled).
  `Head(queue)` exists only because an output is consumed only while a batch is there
  (`BatchQueueBounded`), and a batch has room because the pass began with room (`PassState`).
* `QueueConsistency` and `BlockAccounting`, inductive relative to `Inv`.
* `PassInv`: the request that is being given blocks is not behind the index (`Picked`), what the loop
  has not reached is not scheduled (`AheadFree`), what may be admitted is not (`WaitingFree`).  This is
  what a preemption needs to refund the right number of tokens, and `BudgetRespected` follows.
* `LifeInv`: a request that is gone has no tokens, so its id may be submitted again, and outputs are
  applied to live requests only.  With `QueueConsistency` the active requests are those in `running`,
  so no more than its length (`ActiveBound`).  One lemma per action names the abstract step it takes.
* `FlightInv`, about the two batches that may be in flight: a batch owes each request it samples one
  token and its drafts (`Due`); the placeholders never exceed what is owed, and equal it if no output
  of an aborted request can meet a new one of its id (`Awaited`); each batch was scheduled on what
  the ones before it will have left (`Placed`).  Drafts that are rejected shorten what the older batch
  leaves and what the younger one was scheduled on alike, and this is the case the invariant is there
  for.
* `Single`, where two batches are in flight without async scheduling: a request whose output is
  awaited has nothing left to compute, so no pass schedules it again, and one that is preempted
  meanwhile waits with its output in the older batch, which is consumed before the waiting loop can
  reach the request.  So no request is in both batches.  With a third batch the waiting loop gets
  there first, and the late output meets a request that was computed anew.
* `Counted`, where `Exact` holds: no request is computed past the tokens it has, with its drafts and
  placeholders, so the number of tokens a pass gives it is positive.  The invariant counts a batch
  in the making and the output that has just arrived and is not applied yet (`Landing`).
* `Covered`: what is scheduled has its slots and ends within the model length.  Both at once, because
  `allocate_slots` cuts at the model length; this is where two drafts break the unchunked loops.

`ChunkInv` adds that running requests are scheduled before waiting ones as long as nothing was
preempted (`ChunkPass`; in a pipeline of two also that what is being sampled then still runs), that
a deferred batch has an older one, and `MaskInv`: the mask of a request in flight was made from its
present output, and a batch behind another one of the same request is the deferred one.

*Worker.*  The engine with its worker takes the steps of the scheduler and its own, so all of the
above holds of both.  What the worker knows lags behind by the outputs it has not executed.
`RunnerInv` follows each request through them: after output `i` the worker knows `r`, with so many
blocks, if it knows it now or some output up to `i` runs it, and no output since has touched it
(`Knows`); an output that sends increments only is preceded by one after which the worker knows the
request, with the blocks that the increment completes to those the request owned (`Told`); and a
running or preempted request will be known after the last of them (`Upcoming`, `Recalled`).  A
resumed request is sent all its blocks again, which `_update_states` stores instead of adding only
if the request is not in the persistent batch: it is not, because the last output in the queue,
which leaves the persistent batch the next one finds, does not run a preempted request
(`Resumable`).  The unchunked loops admit before they preempt, so this holds when they start; the
chunked ones preempt first, and it holds because such a pass resumes nobody (`Apart`).

*Positions.*  The scheduler sends counts of which the worker knows better: with async scheduling
they include a token and drafts nobody has sampled yet.  `PosInv` says what each party will make of
them.  The output of a batch is ahead of the tokens a request really has by what the batch before it
will sample, or, once that has been sampled, by the drafts it rejected (`Behind`, `Leads`), which is
what `_update_states` takes off if the request stays in the persistent batch.  A batch samples for a
request exactly when it computes the last of its tokens, those in flight included (`Posted`); the
worker has noted every token but the accepted drafts it is about to add (`Noted`); and what it
executed, it executed where the request was (`Settled`).  Without drafts in flight `Behind` never
has drafts to take back, and any order of passes will do.  With them a request that has drafts
rejected must be in the very next batch (`Continued`).  For the chunked scheduler this follows from
its pace: every running request has computed all but the last of its tokens, those in flight
included (`Caught`), so a pass needs at most `1 + drafts` for each, the budget has them (`Room`),
none is passed over, and a prompt is cut only by the end of the budget, when it is the last of
`running` (`Pace`).  FCFS preempts the last of `running` as well, and what comes back has left the
batches in flight.  A request the loop leaves out is at the model length, and is so again, with
drafts, when it is scheduled next, so no batch after that one has it (`Streak`).

*Shares.*  With one batch at a time every running request is between two states: its output is awaited
(`Awaits`), or it has one token and its drafts to compute, or part of a prompt that was cut to
the threshold (`Rests`).  It has all its drafts unless its output is structured (`HasDrafts`).  In both
cases the running loop asks the same `Share` for it, and for a structured one no more (`Asks`): at the
length limit the `+ num_spec_tokens` in the limit makes up for the drafts, and the budget never gives
less, because the requests the loop has scheduled are fewer than those it passed and have at most a
share each (`RoomForShare`, by `SumBound`), the preempted ones refunded.  `EvenInv` also follows what
the waiting loop starts, which is a prefill batch and not the subject of the property.

*Slots.*  `SlotsExclusive` is inductive relative to the types.  The other three relate a scheduler to
a worker that lags behind by all outputs in the channel.  `Ledger(H)` says who will own a slot after
each of them: `H[0]` are the owners now, each output takes away what it reports finished and adds
what is new and holds all it runs, who loses a slot is reported finished, and the last `H` are the
requests the scheduler has started, but for finishes it has yet to report.  `SlotInv` asks for the
existence of such an `H`; a step of the scheduler appends to it, a step of the worker drops `H[0]`.
That the pool suffices is a matter of counting (`EnoughSlots`): started requests are as few as slots
because under FCFS they come first in `waiting` and are admitted again first (`StartedFirst`,
`StartedFew`), and so is every `H[i]`.

*Sleep mode.*  That weights survive says nothing about the time they sleep.  `CopiesGood` does:
while they sleep, each has a good copy in the one place `wake_up` takes it from (a saved buffer
before a backup), unless it was discarded; and `Shape` ties tags to kinds of data and mappings to
handles.  With `MappedWhenAwake` and `CopiesOnlyAsleep` these are inductive.

*Local ids.*  `popleft()` and `popitem()` are safe only because the two maps, the order of use and
the free states describe one partial bijection of full size (`TablesAgree`), and that is kept only
because an id that is assigned a state has none (`MissesUnmapped`) and a row that hit is still
mapped when the rows are filled (`RowsFound`): `IInv`.  `RowsApart` needs the order of use: the blocks
of the current batch are the most recently used ones (`UsedLast`), and a batch is no larger than the
mapper (`Small`), so by counting the head of the order is none of them (`HeadOutside`), and what was
found or placed stays true (`StillThere`); `RowsInv` joins these.  `OwnState` needs to know
what the batches that wait in the queue will do: `History(F)` is the table of blocks after each of them.
The table forgets requests that are scheduled to their end.  A batch that admits requests holds all
in the table, one that does not leaves the table alone; so
between two admissions all holders have their states and only the padding was used after them
(`Settled`), and what an admission evicts is older than all of them.

*Shared storage.*  A file is right if the slots it was taken from were, and a slot is right if what
was loaded into it or attended to was: neither property is inductive without the other, nor without
the half-done work of every engine.  `Working` knows it by counting from the end: the operation with
`k` left is always the same one (`Planned`), a load of a layer for `k` above the number of layers
and attention in a layer otherwise, and what it loads or stores is a prefix of the request's tokens
in the slots the request has now (`Describes`).  So the number of operations left also says how many
tokens of a request each layer has right (`Sure`): none before its load, those that need not be
computed after it, all after attention.  `CacheRight` says that they are; that a write for one
request spares all others follows from `Exclusive`, that no block of an engine has two owners.  The
plan needs `Progress`: a request has the blocks of exactly the tokens it counts.  Where the loaded
prefix is longer than what was matched (after a preemption, with output tokens in the key) it covers
at least the tokens that are not computed (`Suffices`).  A crash empties slots, plan and counts
together and leaves the files, each of them right by itself.  Nothing in this needs the files of a
folder to be complete: a load that finds none ends its engine, which `LoadsFindFiles` shows to
happen.

Only model-checked: liveness, which is out of reach of the prover, and the properties of
`DataParallel` and `SpecDecode`.  Their flat indices and row lists are sequences concatenated and
filtered by folds, which the counting argument above does not reach; what they compute would need
induction over data, which the installed provers cannot do.

## 6. What is left out

* In `SchedulerCore`: prefix-cache hits, encoder inputs, KV connectors, pooling models, request
  errors, the scheduler log, and the benchmark mode that raises an error instead of preempting.
  Block identities are not modelled there, only their number.  `max_total_tokens` of the chunked
  `schedule()` is computed and never used.  `_update_computed_tokens_after_speculation` of the
  async scheduler is called by nothing.
* In `ModelRunner`: condensing and reordering of rows (rows are named by their request), encoder
  inputs, sampling metadata, LoRA activation, cascade attention.
* In `SpecDecode`: the unpadded drafter, tree attention, the probabilities of the random kernel
  (any accepted prefix and any recovered token is possible), the benchmark switch
  `VLLM_MTP_FIXED_ACCEPTANCE_RATE`, Medusa and n-gram proposers; the corrections of asynchronous
  scheduling, which are in `ModelRunner`.
* In `DataParallel`: the all2all path, a dense mlp over a group of its own, partition_utils.
* In `SharedStorage`: more than one worker per engine (a file is named after its layer, not after a
  rank of a tensor-parallel group, `shared_storage_connector.py:445`), hits that are partly local,
  chunked prompts, prompts of one token,
  multi-modal hashes, and a reader that meets a half-written file (files appear at once).
* `KvStateSlots`: only a model type with a kv-state pool; no dummy batch.
* The NIXL connector (its handshake and transfers are in a library outside the repository), graph
  capture and replay (an external wrapper), executors and start-up, metrics, import-time patching.
* `tools/ray_mlu` holds patched copies of files of Ray.  `_mlu_ops.py`, the models, layers,
  quantization, triton kernels and attention backends are tensor code: shapes and numbers without
  decisions that outlive a call.  They are more than two thirds of the repository's lines, which is
  why the map of `PROJECT.json` covers about a ninth of all lines, while it covers most of those
  that schedule, allocate, exchange and recover.

## 7. Plan

Done, in this order: request queues, the unchunked schedulers with their engine core, kv-state
slots, sleep mode; then the chunked schedulers with deferred sampling, the worker composed with
both schedulers, the abstract life of a request, data parallelism, speculative decoding, local ids
and the shared storage; then the proofs of section 5: every safety property of the schedulers,
pipelines of two batches included, all refinements, what the worker knows of requests, blocks,
positions and samples, and everything checked of slots, local ids, sleep mode and the shared storage.

Next: prefix caching with block identities, refined by the counts of `SchedulerCore`; the benchmark
and disaggregation switches of the chunked scheduler; the ranks of a pipeline, with positions on
those that do not sample.
