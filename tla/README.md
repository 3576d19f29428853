# Verification of the StreamInfer serving path

StreamInfer serves mixture-of-experts models without a global barrier: every
GPU runs its own engine loop over layer queues, and tokens travel between
GPUs at their own pace. This directory holds TLA+ models of that machinery,
the TLC runs that check them, and TLAPS proofs of the properties that matter
most.
Paths below are relative to `src/StreamInfer/`.

## The system

| Part | State | Operations | Interacts with |
|---|---|---|---|
| Controller (`disagmoe/frontend/controller.py`) | in-flight requests, results awaited | submit, poll, resolve | DP scheduler, tokenizer, detokenizer |
| DP scheduler (`disagmoe/scheduler/dpscheduler.py`) | queue, block stock per rank, reservations, events | waiting loop, four policies, add/del, start, terminate | controller, tokenizer |
| Tokenizer / detokenizer (`disagmoe/frontend/tokenizer.py`) | token streams, finished requests | forward a request; record results | engines, controller |
| Engine (`disagmoe/frontend/engine.py`) | stash rows, sampler state | admit, schedule, compute, sample, release | pool, dispatcher, block manager, KV loader |
| KV block manager (`csrc/engine/block_manager.cpp`, `disagmoe/block_manager/`) | free queue, block tables, lengths | allocate, append, release | engine, KV loader |
| KV loader (`disagmoe/kv_loader.py`) | job and done queues, staging buffers | fetch with retries, poll, install | engine, block manager, Mooncake store |
| Unified pool (`csrc/muhelper/pool.cpp`, `layer.cpp`) | layer queues, counters, top-k join | receive, schedule, take | engine, receiving thread |
| Dispatcher, receiving pool (`dispatcher.cpp`, `muhelper.cpp`) | send queue, pending sends and receives | split, send, receive | peers |
| Transports (`nixl_*.cpp`, `ucxq.cpp`, NCCL) | rings, slots, credits | send, receive | dispatcher, receiving pool |

What is hard here: the asyncio scheduler suspends between a failed placement
and its retry; four kinds of process share the accounting of one memory pool;
loader threads reuse staging buffers the engine still reads; layers are chosen
and fetched in two critical sections; copies of one token are joined by
request id alone, whatever order they arrive in; metadata and tensors travel
on separate channels and are matched by order; rows and metadata of a batch are
permuted by different code; staging buffers are reused without a fence. A failed
C++ `ASSERT` throws into the engine loop, which logs it and ends.

## Modules

| Module | Models | Notes |
|---|---|---|
| `KVBlocks` | block arithmetic of `allocate`, `append_tokens`, `required_blocks` | shared by the next four |
| `BlockManager` | one worker's KV cache | a call is one step (one thread); `update_block_table` is modelled for a batch of one entry |
| `KVBlocksProofs` | lemmas about block arithmetic and about sums | used by the proofs of the next four |
| `BlockManagerProofs` | theorems about `BlockManager` | |
| `DPScheduler` | the asyncio scheduler | a step is the code between two awaits |
| `Serving` | composition: scheduler, engine admission (direct or after a KV load), both samplers, detokenizer, poller | extends `DPScheduler`; blocks are counted, not named |
| `ServingProofs`, `ServingEngineProofs` | theorems about `DPScheduler` and `Serving` | scheduler and invariant; engine steps |
| `KVLoader` | loader threads, staging, install, admit or reject | the store is nondeterministic: any fetch may fail |
| `UnifiedPool` | layer queues, counters, top-k join, layer choice | |
| `MoEPipeline` | engines, dispatchers and receivers of all ranks | extends `UnifiedPool` |
| `DecodeFlow` | abstract promise of the pipeline | `MoEPipeline` implements it |
| `BatchLayout` | rows and metadata of batches through one layer | sorts, splits, merges, join and packing of the code; a row remembers its request and the terms summed into it |
| `EngineLoop` | `single_module_loop_overlap`, CUDA stream, staging rings | the pipeline around it is nondeterministic |
| `Transport` | dispatcher and receiving pool threads over NCCL and the local channel | NCCL is taken to be rendezvous |
| `TransportProofs` | theorems about `Transport` | |
| `Nixl` | slots, sequence numbers, credits, post workers, notifications | any notification may be repeated, late or out of order; any transfer may fail |
| `NixlProofs` | theorems about `Nixl` | |
| `Link` | abstract promise of both transports | `Transport` and `Nixl` implement it |
| `SpscRing` | the lock-free ring of `ucxq.hpp` | one step per load or store |
| `UcxQueue` | UCX senders, progress thread, callbacks and pool | extends `SpscRing` |
| `RingProofs` | theorems about `SpscRing`, `UcxQueue` and `EngineLoop` | |
| `KVLoaderProofs` | theorems about `KVLoader` | |
| `MC*` | instances for TLC | |

Variables and actions carry the source's names where TLA+ allows; `map` in
`PROJECT.json` gives the lines of each definition. Operators whose comment
begins with "Mutant" are deliberately wrong variants of the operator that
follows them; no specification uses them, they exist to show that the
properties notice such a change.

Abstractions to know of:
- `BlockManager.FirstStep` after an install takes only the installed length;
  `_drain_kv_loads` admits no other.
- In `Serving`, a failed engine step records why the loop died and not the
  blocks taken just before: nothing on that rank runs afterwards.
- Settings that are fixed for a behaviour are variables chosen in `Init`, so
  that one run covers several: `policy`, `sampler`, `config` (top-k and layer
  scheduler), `gate`, `window`.
- `Serving` sees of a KV load only that it ends, with or without the pages, and
  whether the copy raised; threads, staging and retries are in `KVLoader`, and
  so is the thread that an oversized prompt ends, where a load never does.
- In `Serving` a request has a declared length (`Prefill`, the code's
  `init_prefill_len`) and the tokens sent with it (`Tokens`), in any combination.
  `config.py:71-73` says that the first is the length of the prompt; with a store
  the engine rejects a request unless it is the length of the prompt's full
  pages. A request rejected after its install keeps its blocks, `lost` in the
  model. Without a store the tokens sent are replayed whatever was declared, so
  `ReservationsCoverUse` speaks of ranks whose requests sent no more than they
  declared (`Declared`). `DummySampler` with a store is not considered.
- Nothing rejects a request that needs more blocks than any rank has: the
  capacity-aware policies hold it at the head of the queue for ever, with all
  requests behind it, and `terminate` waits for the loop. `Stuck` names that
  state; the liveness properties of `DPScheduler` and `Serving` except it.
- `MoEPipeline` admits requests directly.
- A layer queue is the sequence of its tokens, not of its batches. When every
  request of a sampled batch has finished, the code queues an empty batch to
  layer 0; it carries no token and is not represented.
- The token's `step` in `MoEPipeline` is not in the code. It tells one pass of
  a request from the next, so that a wrong join is visible.
- `Transport` numbers the parts an engine puts, as a stand-in for their tokens;
  the code has no such number. Which parts a batch is split into is the subject
  of `MoEPipeline` and `BatchLayout`.
- In `Nixl` the reader of `drain_meta_arrivals` is external: `MuPool::run` calls
  `has_ready_notifs`, `consume_ready` and a two-argument `send_credit`
  (`muhelper.cpp` 610, 613, 745), which `nixl_context.h` no longer declares,
  while `drain_meta_arrivals`, `mark_recv_completed` and the three-argument
  `send_credit` have no caller. That a slot is marked before it is credited is
  an assumption on that reader, which no line of the code states.
- `Nixl` takes every batch to fit a slot. `send_impl` copies it into the send
  slot without comparing sizes (`nixl_channel.cpp:91`); `post_write` asserts it
  for the remote slot afterwards (`nixl_context.cpp:579`).
- `EngineLoop` follows one staging ring per behaviour, since the rings do not
  influence each other: the five of Python, or one of the gather rings of C++
  (`permute.cu`, `gather_and_sum.cu`), which a step uses once or not at all. A
  kernel is the ring slot it reads, an event the number of kernels still in
  front of it. The two buffers the block manager swaps
  (`block_manager.py` 189-190, 225) are not modelled: the one an attention
  batch writes was last used two attention batches before, and the turn in
  between has waited for the event of that batch.
- In `UcxQueue` an overflow ends the process or drops the message, as builds
  with and without assertions do. How many messages of a sender wait is an
  assumption (`window`): no line of `ucxq.cpp` limits it. `AnnouncedIsBounded`
  of `Transport` gives such a limit for parts that go to other engines, and none
  for parts an engine sends itself. Errors of UCX are bounded by `MaxErrors`: one
  in `waitReq`, at a probe or in a callback is not reported and loses its
  message (`ucxq.cpp` 249-256, 283, 541-544).
- In `Transport` the assertion of `clean_pending_sends` ends the process, with
  both threads and its transfers. Errors of CUDA (`muhelper.cpp` 115-117) are
  not modelled, and neither are the NIXL branches, the subject of `Nixl`.
- The defragging scheduler's score is abstracted: it may choose any busy layer.
- `DPScheduler.Start` requires that no reservation is open: the serving
  benchmark awaits all results first. A restart with requests in flight is not
  covered.

## Runs

| Run | Instance | Distinct states |
|---|---|---|
| `block_manager` | 3 requests, 5 blocks of 2 tokens, prompts 0-3, sequences up to 5 | 75,480 |
| `dp_scheduler` | 4 requests, one larger than both ranks (3 and 4 blocks), all four policies | 29,384 |
| `serving` | 3 requests, 2 ranks (4 and 2 blocks of 2), policies RR and max, both samplers, with and without a KV store | 53,426 |
| `kv_loader` | 5 requests, 2 threads, 3 blocks, 3 attempts, polls of 2, copies that raise | 134,176 |
| `moe_pipeline` | 2 requests, 2 ranks, 2 layers, 3 experts; top-2 with flfs, top-1 with defrag | 64,046 |
| `batch_layout` | 3 requests, 2 ranks, top-1 or top-2 of 3 experts, threshold 2 | 54,056 |
| `engine_loop` | 2 requests, 4 ring slots, six rings | 77,986 |
| `transport` | 2 engines; two batches of one part against 1 pending send, one batch of three parts against 2; `spin_count` limit 1 | 193,050 |
| `nixl` | 2 peers, 4 batches, 2 send slots, 1 receive slot per peer, 2 post workers | 18,109 |
| `ucx_queue` | 2 senders, 3 messages each, ring of 4, windows 1 and 2, one UCX error | 102,384 |

- **block_manager**: blocks are never lost or shared (`BlocksPartitioned`), a
  sequence has exactly the blocks its length needs (`KVCoverage`), no two
  tokens share a slot (`NoSlotShared`), slots never move (`KVStable`). Five
  blocks cannot hold three full sequences, so allocation and append both fail
  in some behaviours.
- **dp_scheduler**: stock and reservations add up (`ReservationsBalance`), the
  capacity-aware policies never over-commit (`NoOverCommit`), no completion is
  missed (`NoLostWakeup`), head-of-line blocking ends (`EventuallyPlaced`),
  `terminate` returns (`TerminateReturns`), the last two until the loop is stuck
  at a request that fits no rank. One request needs the whole larger rank, so
  the head of the queue does block, and one more than that, so it also blocks
  for ever.
- **serving**: the scheduler never believes a worker has more free blocks than
  it has, but for those a request rejected after its install keeps
  (`ReservationsCoverUse`), admitted prompts fit
  (`AdmittedPromptFits`), a resolved request has left nothing else behind
  (`ResolvedIsClean`), and every request is resolved unless an engine loop dies
  or the scheduler is stuck (`EventuallyResolved`). One request declares a
  length that is not that of its pages, one has a tail behind its page and
  starts at a block boundary, one fits no rank. With a KV store the tail of the prompt is replayed through the
  decode loop and paid for from the output length, at least one token of which
  remains (`MaxOutputLen`): the reservation covers that too because the tail is
  shorter than a block. `TokensPerRow` is 4
  here instead of the code's 100, so that the stash is small relative to so
  small a pool. The policies `cap_rr` and `weighted` are left to `dp_scheduler`
  for time; the theorems cover all four.
- **kv_loader**: a request is admitted only with its own complete KV
  (`AdmittedWithOwnKV`), has one outcome (`OnePlace`), blocks are accounted for
  (`BlocksHeldByWhom`), and loading goes on while a thread lives
  (`SettledWhileAWorkerLives`). `BlocksHeldByWhom` records a leak as it is in
  the code: a request rejected after `allocate`, because the copy raised or its
  length is wrong, keeps its blocks. No other rejection does.
- **moe_pipeline**: a request is one token or exactly top-k matching copies,
  each waiting where its expert is (`WholeOrSplit`), the chosen layer still has
  tokens when fetched (`ChosenLayerHasTokens`), and the pipeline implements `DecodeFlow`, its
  liveness included (`ImplementsDecodeFlow`). Experts are placed 0, 1, 0 so
  that a sorted batch visits one rank twice.
- **batch_layout**: row i is always the token `req_ids[i]`
  names (`RowsMatchMetadata`); a token reaches the next attention layer as the
  sum of exactly its experts' outputs, each by that expert and with the gate's
  weight (`WeightedSum`); prefill tokens stay in front (`PrefillInFront`);
  nothing is left behind (`NothingLeftBehind`). Three requests with two homes
  give merges of several batches, splits at the threshold and ties in the sorts,
  which `std::sort` may break either way.
- **engine_loop**: no ring slot is written before it was read
  (`SlotReadBeforeReuse`), nothing is dispatched before its kernels ran
  (`DispatchedIsComputed`), exactly the previous turn's result is waiting
  (`OneResultBehind`) and is dispatched (`LaunchedIsDispatched`). Four slots are
  two more than requests, and that is tight: three requests on four slots break
  `SlotReadBeforeReuse`, on five they do not. The code's 256 slots therefore
  carry 254 requests per engine with `DummySampler`.
- **transport**: metadata meets its own tensor
  (`PairedWithOwnTensor`), sources live while they are read
  (`SourcesKeptAlive`), announcements ahead of a slow pool are bounded
  (`AnnouncedIsBounded`), and dispatchers and pools that wait for each other
  still deliver every part once (`ImplementsLink`), as long as both engines
  live. The limit of `spin_count` is 1 here instead of 10,000, so that its
  assertion does fail. The batch of three parts is
  longer than its sender's limit, so its dispatcher drains between two parts
  of one batch.
- **nixl**: every receive slot and every send slot has one owner (`SlotsOwned`),
  no batch is processed twice or with other data
  (`ReceivedIntact`), `Link` is implemented with failed transfers as losses
  (`ImplementsLink`), and the dispatcher goes on until every receive slot of the
  peer was lost to a failed transfer (`DispatcherGoesOn`): a failure never gives
  its receive slot back. One receive slot per peer makes every batch reuse the
  slot of the one before.
- **ucx_queue**: the ring is first-in first-out
  (`FirstInFirstOut`), messages of a sender are not overtaken (`SenderOrder`),
  each is taken unless it was itself lost, to an error of UCX or to an overflow
  (`SentIsTaken`), and the ring does not overflow (`NoOverflow`) while the
  senders' windows together are at most its capacity less two; with window 2
  they are not, and it does.

Deadlock checking is off: each instance has finitely many requests and stops
when they are done.

### Disagreements with the repository's own statements

Two runs are expected to find a violation.

- `serving_append`: `append_tokens` asserts strictly more free blocks than it
  takes (`block_manager.cpp:123`), whereas `can_append` asks for one. A request
  with prompt 16 and output 16 on a worker of two 16-token blocks is admitted
  and ends the engine loop.
- `batch_layout_no_gdrcopy`: with `DMOE_USE_GDRCOPY=0` the expert weights are
  read again after `sort_by_attention` permuted them (`engine.py:543`), and rows
  are multiplied by each other's weights. The default setting is not affected.

Others were met while modelling. The models follow the code; the properties of
the passing runs are worded accordingly, and no run is kept for them.

- The stash is described as one row per running request (`executor.py:253`) but
  has one per 100 tokens of capacity. With 8 blocks of 16 there are two rows;
  three requests of prompt 1 and output 1 are admitted. `EventuallyResolved`
  speaks of engine loops that live.
- A prompt too long for the staging buffer ends its loader thread
  (`kv_loader.py:165`) and is never rejected, although requests whose pages
  cannot be fetched are said to be (`kv_loader.py:25`). Hence the name of
  `SettledWhileAWorkerLives`.
- A rejection is documented to carry no tokens (`engine.py:1049`) and carries
  one, `token_ids=[0]`; `ResolvedIsClean` counts it.
- `clean_pending_sends` asserts that the oldest send does not stay unready
  10,000 times (`muhelper.cpp:112`), but `drain_pending_sends_to` pops sends
  without resetting the count: the assertion can fail while every send
  completes, and a send that never completes blocks in the drain instead.
  `transport` reaches both; `ImplementsLink` promises delivery only while the
  engines live.
- The staging ring is said to be safe because `max_pending_sends` bounds how far
  the CPU runs ahead (`gdr_context.py:63`). Sampler batches of `DummySampler`
  pass no dispatcher and no event; the bound is the number of requests.
- A comment at `permute.cu:223` calls the gather ring event-fenced;
  `gdr_ring.hpp:46` says that no fencing is performed, and none is.

These instances are chosen to be small; how often production sizes meet them
is not something the runs measure.

## Fairness

Weak fairness for what runs for ever in the code: the asyncio loop's ready
tasks, engine loops, loader, dispatcher, receiving and post-worker threads, the
poller, a KV fetch ending, a matched pair of NCCL calls, and the GPU working off
its stream. A thread is fair as a whole: `Engine`, `Dispatcher` and `Pool` are
the disjunctions of their steps. `UcxQueue` assumes strong fairness
for each sender's messages, since the progress thread probes for all of them
with one call. Three assumptions go beyond scheduling: in `DPScheduler` an
admitted request finishes (shown in `Serving` while engines live); in `Serving`
a token between layer 0 and the sampler arrives (shown in `MoEPipeline`); in
`MoEPipeline` a sent message is delivered (shown in `Transport` if NCCL completes
matched pairs, and in `Nixl` for transfers that do not fail). Submission is never
assumed to happen.

## Proofs

All constants are arbitrary, within the assumptions named in the modules:
sets of requests, ranks or senders are finite, sizes are naturals, and in
`Serving` a request asks for at least one token (`ServingAssumption`).

- `BlockManagerProofs`: `TypeCorrect`, `PartitionAlways`, `CoverageAlways`,
  `SlotsExclusive`, `SlotsStable` (types and the four properties of
  `block_manager`). The properties are not inductive alone. `IInv` joins `TypeOK`, `BlocksPartitioned`
  and `KVCoverage`, and adds that a request without a table key has an empty
  block list: without it an allocation could extend a leftover list. Every
  operation is one of two moves, a prefix of the free queue to the end of one
  list, or a whole list to the end of the queue; `MoveKeepsPartition` and
  `ReturnKeepsPartition` show once that both keep the partition, and
  `BlocksForSuccessor` that one token needs a new block exactly when
  `append_tokens` adds one. `SlotsExclusive` follows from `IInv` and the
  uniqueness of division with remainder.
- `ServingProofs`, the scheduler: `ReservationsBalanceAlways`,
  `NoOverCommitAlways`, `NoLostWakeupAlways`. `SchedIInv` adds to the three that
  a request waits in one place and holds no reservation while it does, so that
  the loop never reserves twice; `PickProperties` says of all four policies that
  what they return is a rank, with the blocks unless the policy is round robin.
- `ServingEngineProofs`, the composition: `ReservationsCoverUseAlways`,
  `AdmittedPromptFitsAlways`, `ResolvedIsCleanAlways`. `ServingIInv` says that
  there is a stage for every request (none, sent, loading, at layer 0, in
  transit, reported, finished, fetched, done, or lost with an engine) that all
  queues of all parts agree with (`Located`, `Reported`); how many blocks a
  request holds in each stage (`HeldBy`), and that with a store only requests
  that declared what was loaded are run (`Loaded`); that its output and forced
  tokens are all delivered or under way (`CountedFor`); and that the blocks held
  on a rank, the free and the lost ones add up (`Pool`). The stage is a bound
  variable of the invariant, not a variable of the model. From it, where
  requests sent no more than they declared, the sum of the blocks held
  on a rank is at most the sum of its reservations, which is
  `ReservationsCoverUse`.
- `TransportProofs`: `PartsArePaired`, `SourcesHeld`, `AnnouncedIsBoundedAlways`.
  For the first, the
  invariant `PairIInv` says of every pair of engines that the parts asked for
  by its receiver, followed by its metadata under way, are the same sequence as
  the tensors on the channel, followed by the part in the dispatcher's hand.
  That is what pairing by order rests on; it makes the heads equal whenever a
  transfer takes place. For the second, `SendIInv` adds to `SourcesKeptAlive`
  that a dispatcher past its drain has room for one more send. The third joins
  both: what is announced is among the parts sent or in hand, and a dispatcher
  that died announces no more, whatever the limit of `spin_count`.
  `TransportIsLink`: the steps are steps of `Link`, or none: `put` submits, and a
  batch entering the pool, local or received, is a delivery. That it was
  not delivered before rests on order again. `WayIInv` says that along its way,
  from the queue to the channel and on to the receiver, a part is behind all
  parts that its engine put before it for the same peer, so what leaves the
  channel has a higher number than anything the receiver has from that pair.
- `RingProofs`: `RingIsFifo` for the ring alone. The invariant `RingIInv` relates the indices to the
  lengths of the histories, modulo the capacity, and says which slots hold which
  accepted items while producer and consumer are between two accesses.
  `UcxIsFifo`, `SenderOrderAlways` and `NoOverflowAlways` for the queue around
  it, each step of which is a step of the ring or none. `OrderIInv` orders the
  messages of a sender along their way: accepted, being enqueued, received late,
  on the wire; a large message is its sender's last, because the sender waits.
  For the overflow, the items in the ring and the one being enqueued are
  distinct messages not yet taken, at most a window of each sender (`Windowed`,
  `ShareBounded`), so at most windows times senders (`Boxes`).
- `RingProofs`, the engine loop: `OneResultBehindAlways`,
  `DispatchedIsComputedAlways`, `SlotReadBeforeReuseAlways`. The first two are
  inductive with the types and the loop's control state (`LoopIInv`). The third
  assumes two slots more than requests, the size the run has: with one fewer it
  does not hold. `get_one_handle` hands out slots without waiting for the GPU,
  so the proof counts reads that are still open. `SlotIInv` says that the
  kernels on the stream read consecutive slots up to the last one handed out
  (`Ordered`), and that the reads behind any point of the stream are at most the
  requests sampled and not launched again since, and the results due after that
  point (`InFlight`), of which there are at most two. A launched request is in
  one batch and nowhere else (`Apart`), so none is counted twice. The expert ids
  the CPU reads are those of the last two results, in different slots
  (`TopkOrder`).
- `KVLoaderProofs`: `AdmittedWithOwnKVAlways`, `OnePlaceAlways`,
  `BlocksHeldByWhomAlways`. The invariant `LoadIInv` says that
  the thread of a record not yet drained waits for it to be released, with the
  record's own KV in its staging buffer, and that no two records are of one
  thread. `PlaceIInv` says that a request is somewhere and in no two places;
  `HeldIInv` that the outcome of a request, a history of the branch
  `_drain_kv_loads` took, agrees with where it is, so that a request holds
  blocks exactly if it runs or was rejected after `allocate`.
- `NixlProofs`: `ReceivedIntactAlways`, `SlotsOwnedAlways`. A batch is
  current while the credit its receive slot expects is its own. `NixlIInv` says
  that sequence numbers of a peer are unique, that a slot with an expected
  credit is not available, that every notification is true of its batch, and
  that a batch which is not current was credited, hence completed, so that a
  repeated notification of it is refused. Two current batches never share a
  receive slot, so the slot holds the data of its current batch from the write
  to the copy. For the second theorem, `SlotsListed` and `BusyOwned` add that no
  slot is lost: a free receive slot is listed, a busy send slot has a transfer.
  `NixlIsLink`: `send_batch` submits, the end of a copy delivers, a transfer the
  fabric fails is lost, and every other step is none of the link's. It adds
  `DeliveredIsDone`, that what was processed had been written, so that a
  transfer which fails was not delivered.
- `KVBlocksProofs` has the laws of division by the block size, and those of
  `SumFunctionOnSet` over finite sets: a sum counts pairs (`Units`), so it does
  not depend on the order in which it is taken. The library's induction over
  finite sets takes a predicate as a parameter, which these provers cannot
  instantiate; where a set of sets can be named instead, the existence of a
  minimal counterexample (`SubsetMin`, `NatMin`) takes its place.

Only model-checked: all liveness, with the fairness of `Link` in `Transport` and
`Nixl`, which is out of the prover's reach; `UnifiedPool` and `MoEPipeline` with its
refinement of `DecodeFlow`, where joining, sorting and filtering are folds over
sequences; and `BatchLayout`. What folds and recursive operators compute needs
induction over data.

## Not modelled

`GPUBlockManager` and its memory pools (off by default); legacy, group and
separate attention/expert schedulers, pools and dispatchers; the defragging
score; tensor-parallel attention workers; resets
with requests in flight; placement and start-up, address exchange and
shutdown of transports (`MuHelper::terminate` has no caller). Kernels, models,
weights, logging, profiling and experiments have no protocol to check.

Most of the repository's lines are not StreamInfer's serving path: the baseline
`sglang_dummy_prefill` is a complete fork of SGLang, run on its own and never
together with StreamInfer, and there are third-party sources, simulators and
traces. The models cover the concurrent core of `StreamInfer/`, which is a small
share of all those lines, and no faithful model of kernels, model definitions,
scripts or vendored code could change that proportion. `PROJECT.json` lists the
reason per component, and under `hazards` what could go wrong in each place,
covered or not.
