------------------------------ MODULE Serving -------------------------------
(***************************************************************************)
(* One request's whole life, with KV memory as the contended resource:      *)
(* Controller.put_single_request -> DPScheduler -> Tokenizer -> the engine  *)
(* loop of an attention worker (admission, layer-0 batches that grow the KV *)
(* cache and assign residual-stash rows, the sampler at the final           *)
(* pseudo-layer) -> Detokenizer -> Controller.poll_finished_results, which  *)
(* gives the reservation back.                                              *)
(*                                                                          *)
(* The blocks of a request are counted here; which blocks they are is the   *)
(* subject of BlockManager.  Layers between layer 0 and the sampler change  *)
(* nothing modelled here: a token in them is in transit.                    *)
(***************************************************************************)
EXTENDS DPScheduler

CONSTANTS
    TokensPerRow,   \* the "magic number" of init_kv_cache (100)
    Samplers,       \* configurations considered: "dummy" (DummySampler), "none"
                    \* and "mooncake" (RealSampler with that kv_source)
    Tokens          \* request -> len(token_ids), what the caller sends with it

ASSUME ServingAssumption ==
    /\ TokensPerRow \in Nat \ {0}
    /\ Samplers \subseteq {"dummy", "none", "mooncake"}
    /\ Tokens \in [Req -> Nat \ {0}]
    /\ \A q \in Req : Output[q] > 0

VARIABLES
    sampler,        \* the configured sampler and KV source
    loading,        \* rank -> requests whose prompt KV is being fetched
    forced,         \* request -> tokens of RealSampler.forced left
    status,         \* rank -> "up", or why its engine loop died
    layer0,         \* rank -> requests queued for attention layer 0, FIFO
    transit,        \* rank -> requests between layer 0 and the sampler
    num_free,       \* rank -> free KV blocks of the worker
    blocks,         \* request -> KV blocks it holds
    lost,           \* rank -> KV blocks kept by requests that were rejected
    seq_len,        \* request -> decode_seq_lens, 0 before its first batch
    stash_slots,    \* requests that own a residual-stash row
    output_len,     \* request -> tokens sampled, the forced ones not counted
    results,        \* rank -> BatchDecodeResults on their way, in order
    token_streams,  \* request -> tokens the detokenizer has seen
    finished_seqs,  \* finished, not yet fetched by the controller
    fetched,        \* scheduled process_finished_results tasks, in order
    resolved        \* requests whose AsyncResult was put

engineVars == <<sampler, loading, forced, status, layer0, transit, num_free, blocks, lost,
                seq_len, stash_slots, output_len>>
resultVars == <<results, token_streams, finished_seqs, fetched, resolved>>
servingVars == <<schedVars, engineVars, resultVars>>

\* init_kv_cache: rows of the residual stash.
MaxRunningReqs(r) == (Capacity[r] * BlockSize) \div TokensPerRow + 1

-----------------------------------------------------------------------------
\* What the samplers make of a request.

\* admit_data: KV slots that hold valid context before the current token.
PrefillLen(q) == IF sampler = "none" THEN 0 ELSE Prefill[q]

\* n_pages: the loader is given token_ids[:-1] and fetches full pages only.
Pages(q) == (Tokens[q] - 1) \div BlockSize

\* The test of _drain_kv_loads: init_prefill_len is what the pages hold.
Aligned(q) == Pages(q) * BlockSize = Prefill[q]

\* Tokens replayed through the decode loop: for "none" all but the first of
\* token_ids; for "mooncake" those behind the pages and the admitted one.
ForcedLen(q) == CASE sampler = "dummy" -> 0
                  [] sampler = "none" -> Tokens[q] - 1
                  [] sampler = "mooncake" -> Tokens[q] - 1 - Prefill[q]

\* Mutant: the forced tokens do not count against the output length.
MaxOutputLenUncharged(q) == Output[q]

\* req_max_output_len: the forced tokens of "mooncake" use up block budget.
MaxOutputLen(q) ==
    IF sampler = "mooncake" THEN Max({1, Output[q] - ForcedLen(q)})
                            ELSE Output[q]

ServingInit ==
    /\ SchedInit
    /\ sampler \in Samplers
    /\ loading = [r \in Rank |-> {}]
    /\ forced = [q \in Req |-> 0]
    /\ status = [r \in Rank |-> "up"]
    /\ layer0 = [r \in Rank |-> <<>>]
    /\ transit = [r \in Rank |-> {}]
    /\ num_free = Capacity
    /\ blocks = [q \in Req |-> 0]
    /\ lost = [r \in Rank |-> 0]
    /\ seq_len = [q \in Req |-> 0]
    /\ stash_slots = {}
    /\ output_len = [q \in Req |-> 0]
    /\ results = [r \in Rank |-> <<>>]
    /\ token_streams = [q \in Req |-> 0]
    /\ finished_seqs = {}
    /\ fetched = <<>>
    /\ resolved = {}

-----------------------------------------------------------------------------
\* The engine loop of rank r.

\* _admit_request: sampler state, and the first token to layer 0.
AdmitRequest(r, q) ==
    /\ forced' = [forced EXCEPT ![q] = ForcedLen(q)]
    /\ layer0' = [layer0 EXCEPT ![r] = Append(@, q)]

\* recv_new_request: one request per turn of the loop, handed to the loader
\* if there is a KV store.
RecvNewRequest(r) ==
    /\ status[r] = "up"
    /\ sent[r] # <<>>
    /\ sent' = [sent EXCEPT ![r] = Tail(@)]
    /\ \/ /\ sampler = "mooncake"
          /\ loading' = [loading EXCEPT ![r] = @ \cup {Head(sent[r])}]
          /\ UNCHANGED <<forced, layer0>>
       \/ /\ sampler # "mooncake"
          /\ AdmitRequest(r, Head(sent[r]))
          /\ UNCHANGED loading
    /\ UNCHANGED <<policy, fresh, waiting_queue, got, loop, kv_cache_stats,
                   seq_ranks, cur_rank, sch_event, end_flag, sampler, status,
                   transit, num_free, blocks, lost, seq_len, stash_slots, output_len,
                   resultVars>>

\* _drain_kv_loads for one finished fetch: install takes the blocks of the
\* pages and copies them, and the request is admitted.  It is rejected with
\* one token if the fetch failed or allocate raised, and also, with its
\* blocks taken and nobody left to free them, if the copy raised or
\* init_prefill_len is not what was loaded.  KVLoader has the loader's side.
DrainKVLoad(r, q, ok, copied) ==
    LET taken == IF ok /\ Pages(q) <= num_free[r] THEN Pages(q) ELSE 0
        installed == /\ ok /\ Pages(q) <= num_free[r]
                     /\ copied \/ Pages(q) = 0
        admits == installed /\ Aligned(q)
    IN  /\ status[r] = "up"
        /\ loading' = [loading EXCEPT ![r] = @ \ {q}]
        /\ num_free' = [num_free EXCEPT ![r] = @ - taken]
        /\ \/ /\ admits
              /\ blocks' = [blocks EXCEPT ![q] = taken]
              /\ AdmitRequest(r, q)
              /\ UNCHANGED <<lost, results>>
           \/ /\ ~admits
              /\ lost' = [lost EXCEPT ![r] = @ + taken]
              /\ results' = [results EXCEPT ![r] =
                                Append(@, [req_ids |-> {q}, eos |-> {q}])]
              /\ UNCHANGED <<blocks, forced, layer0>>
        /\ UNCHANGED <<schedVars, sampler, status, transit, seq_len, stash_slots,
                       output_len, token_streams, finished_seqs, fetched, resolved>>

\* preprocess_batch_attn for a batch of the first n queued requests at the
\* first layer: allocate for the new ones that no install allocated for, one
\* token appended for all, then a stash row for each request that has none.
\* A failed step ends the loop; what it had taken by then is not tracked, as
\* nothing on r runs any more.
AttnFirstLayer(r, n) ==
    LET batch == {layer0[r][i] : i \in 1 .. n}
        init == {q \in batch : seq_len[q] = 0}
        context(q) == IF q \in init THEN PrefillLen(q) ELSE seq_len[q]
        prefillBlocks == [q \in Req |-> IF q \in init /\ sampler # "mooncake"
                                        THEN BlocksFor(PrefillLen(q)) ELSE 0]
        alloc == SumFunctionOnSet(prefillBlocks, init)
        grow == {q \in batch : NeedsBlock(context(q))}
        left == num_free[r] - alloc
        holders == {q \in stash_slots : seq_ranks[q] = r}
        allocates == alloc <= num_free[r]
        appends == \A k \in 1 .. Cardinality(grow) : AppendAssert(left - (k - 1))
        stashes == Cardinality(holders \cup batch) <= MaxRunningReqs(r)
        outcome == CASE ~allocates -> "allocate"
                     [] allocates /\ ~appends -> "append_tokens"
                     [] allocates /\ appends /\ ~stashes -> "stash"
                     [] allocates /\ appends /\ stashes -> "up"
    IN  /\ status[r] = "up"
        /\ n \in 1 .. Len(layer0[r])
        /\ status' = [status EXCEPT ![r] = outcome]
        /\ layer0' = [layer0 EXCEPT ![r] = SubSeq(@, n + 1, Len(@))]
        /\ \/ /\ outcome # "up"
              /\ UNCHANGED <<transit, num_free, blocks, seq_len, stash_slots>>
           \/ /\ outcome = "up"
              /\ transit' = [transit EXCEPT ![r] = @ \cup batch]
              /\ num_free' = [num_free EXCEPT ![r] = left - Cardinality(grow)]
              /\ blocks' = [q \in Req |-> blocks[q] + prefillBlocks[q]
                                                   + (IF q \in grow THEN 1 ELSE 0)]
              /\ seq_len' = [q \in Req |-> IF q \in batch THEN context(q) + 1
                                                          ELSE seq_len[q]]
              /\ stash_slots' = stash_slots \cup batch
        /\ UNCHANGED <<schedVars, sampler, loading, lost, forced, output_len, resultVars>>

\* Mutant: the stash rows of finished requests are kept.
ReleaseSeqsKeepRows(r, done) ==
    /\ num_free' = [num_free EXCEPT ![r] = @ + SumFunctionOnSet(blocks, done)]
    /\ blocks' = [q \in Req |-> IF q \in done THEN 0 ELSE blocks[q]]
    /\ seq_len' = [q \in Req |-> IF q \in done THEN 0 ELSE seq_len[q]]
    /\ UNCHANGED stash_slots

\* release_seqs: blocks and stash rows of the finished requests.
ReleaseSeqs(r, done) ==
    /\ num_free' = [num_free EXCEPT ![r] = @ + SumFunctionOnSet(blocks, done)]
    /\ blocks' = [q \in Req |-> IF q \in done THEN 0 ELSE blocks[q]]
    /\ seq_len' = [q \in Req |-> IF q \in done THEN 0 ELSE seq_len[q]]
    /\ stash_slots' = stash_slots \ done

\* step: the requests of a batch that get a sampled token, not a forced one,
\* and those whose token reaches the output length or ends the sequence (early).
Sampled(batch) == {q \in batch : forced[q] = 0}
Finishing(batch, early) ==
    {q \in Sampled(batch) : q \in early \/ output_len[q] + 1 >= MaxOutputLen(q)}

\* The continuing requests of a batch, as a sequence.
InSomeOrder(S) == CHOOSE s \in Injection(1 .. Cardinality(S), S) : TRUE

\* sample_results for a batch at the final pseudo-layer: one token each; the
\* finishing requests are released and reported, the others go back to layer 0.
SampleResults(r, batch, early) ==
    LET sampled == Sampled(batch)
        done == Finishing(batch, early)
    IN  /\ status[r] = "up"
        /\ batch # {}
        /\ early \subseteq sampled
        /\ sampler = "dummy" => early = {}
        /\ output_len' = [q \in Req |-> output_len[q] + (IF q \in sampled THEN 1 ELSE 0)]
        /\ forced' = [q \in Req |-> forced[q] - (IF q \in batch \ sampled THEN 1 ELSE 0)]
        /\ ReleaseSeqs(r, done)
        /\ results' = [results EXCEPT ![r] =
                          Append(@, [req_ids |-> batch, eos |-> done])]
        /\ transit' = [transit EXCEPT ![r] = @ \ batch]
        /\ layer0' = [layer0 EXCEPT ![r] = @ \o InSomeOrder(batch \ done)]
        /\ UNCHANGED <<schedVars, sampler, loading, lost, status, token_streams,
                       finished_seqs, fetched, resolved>>

-----------------------------------------------------------------------------
\* Mutant: a finished request is not recorded when others still run.
DetokProcessBatchDrop(r) ==
    LET batch == Head(results[r])
    IN  /\ results[r] # <<>>
        /\ results' = [results EXCEPT ![r] = Tail(@)]
        /\ token_streams' = [q \in Req |->
              token_streams[q] + (IF q \in batch.req_ids THEN 1 ELSE 0)]
        /\ finished_seqs' = finished_seqs \cup
              (IF batch.eos = batch.req_ids THEN batch.eos ELSE {})
        /\ UNCHANGED <<schedVars, engineVars, fetched, resolved>>

\* Detokenizer.process_batch on the next result of a worker.
DetokProcessBatch(r) ==
    LET batch == Head(results[r])
    IN  /\ results[r] # <<>>
        /\ results' = [results EXCEPT ![r] = Tail(@)]
        /\ token_streams' = [q \in Req |->
              token_streams[q] + (IF q \in batch.req_ids THEN 1 ELSE 0)]
        /\ finished_seqs' = finished_seqs \cup batch.eos
        /\ UNCHANGED <<schedVars, engineVars, fetched, resolved>>

\* poll_finished_results: fetch, and create the task that processes them.
PollFinishedResults ==
    /\ finished_seqs # {}
    /\ fetched' = Append(fetched, finished_seqs)
    /\ finished_seqs' = {}
    /\ UNCHANGED <<schedVars, engineVars, results, token_streams, resolved>>

\* process_finished_results: del_seq for all, then the results.
ProcessFinishedResults ==
    /\ fetched # <<>>
    /\ fetched' = Tail(fetched)
    /\ DelSeqs(Head(fetched))
    /\ resolved' = resolved \cup Head(fetched)
    /\ UNCHANGED <<engineVars, results, token_streams, finished_seqs>>

-----------------------------------------------------------------------------
Scheduler == GetTask \/ LoopWake \/ LoopRetry

Submit == \E q \in Req : PutRequest(q)

Engine(r) ==
    \/ RecvNewRequest(r)
    \/ \E q \in loading[r], ok, copied \in BOOLEAN : DrainKVLoad(r, q, ok, copied)
    \/ \E n \in 1 .. Len(layer0[r]) : AttnFirstLayer(r, n)
    \/ \E batch, early \in SUBSET transit[r] : SampleResults(r, batch, early)

ServingNext ==
    \/ (Submit \/ Scheduler) /\ UNCHANGED <<engineVars, resultVars>>
    \/ \E r \in Rank : Engine(r)
    \/ \E r \in Rank : DetokProcessBatch(r)
    \/ PollFinishedResults
    \/ ProcessFinishedResults

\* The asyncio loop, the detokenizer thread and the engine loops run for ever
\* and do what is there to do; a fetch ends, and a token in transit arrives.
ServingFairness ==
    /\ WF_servingVars(Scheduler /\ UNCHANGED <<engineVars, resultVars>>)
    /\ \A r \in Rank : WF_servingVars(Engine(r)) /\ WF_servingVars(DetokProcessBatch(r))
    /\ WF_servingVars(PollFinishedResults)
    /\ WF_servingVars(ProcessFinishedResults)

ServingSpec == ServingInit /\ [][ServingNext]_servingVars /\ ServingFairness

-----------------------------------------------------------------------------
\* What the caller declares covers what it sends: without a KV store all of
\* token_ids but the first go through the decode loop and take KV slots.
Declared(q) == sampler = "none" => Tokens[q] <= Prefill[q] + 1

(* A reservation is made before a block is taken, covers every block the    *)
(* request ever takes, those of replayed prompt tokens included, and is     *)
(* returned only after the worker has freed them (release_seqs, then the    *)
(* result, the poll, del_seq).  So the controller's stock of a rank is      *)
(* never more optimistic than the worker's pool but by the blocks that      *)
(* requests rejected after their install keep: del_seq gives back the       *)
(* reservation of those too.                                                *)
ReservationsCoverUse ==
    \A r \in Rank :
        /\ status[r] = "up"
        /\ \A q \in Req : seq_ranks[q] = r => Declared(q)
        => kv_cache_stats[r] <= num_free[r] + lost[r]

(* Admission protects the assertion of BlockManager::allocate: a request    *)
(* the capacity-aware policies admit finds the blocks of its prompt, at its *)
(* first batch, or when its pages are installed.  The second is so as far   *)
(* as no rejected request of the rank keeps blocks, and for a request whose *)
(* pages are what was declared.                                             *)
AdmittedPromptFits ==
    policy # "RR" => \A r \in Rank :
        /\ status[r] # "allocate"
        /\ status[r] = "up" =>
              \A q \in loading[r] : Aligned(q) => Pages(q) <= num_free[r] + lost[r]

(* When the controller resolves a request, every one of its tokens, forced  *)
(* and sampled, or the one token of a rejection, has been delivered, no     *)
(* result of it is under way, and the worker has forgotten it: no length,   *)
(* no stash row, no token left in the pipeline.  The blocks of a running    *)
(* worker are free, or held by requests whose reservation stands, or lost   *)
(* to requests that were rejected after their install, which needs a KV     *)
(* store.                                                                   *)
ResolvedIsClean ==
    /\ \A q \in resolved :
        /\ token_streams[q] = IF output_len[q] = 0 THEN 1
                              ELSE output_len[q] + ForcedLen(q)
        /\ blocks[q] = 0 /\ seq_len[q] = 0 /\ q \notin stash_slots
        /\ \A r \in Rank :
              /\ q \notin transit[r]
              /\ q \notin loading[r]
              /\ q \notin Range(layer0[r])
              /\ \A i \in DOMAIN results[r] : q \notin results[r][i].req_ids
    /\ \A r \in Rank :
        /\ status[r] = "up" =>
              num_free[r] + lost[r]
                + SumFunctionOnSet(blocks, {q \in Req : seq_ranks[q] = r}) = Capacity[r]
        /\ lost[r] > 0 => sampler = "mooncake"

(* append_tokens never meets its own assertion num_free_blocks() >          *)
(* blocks_to_add for a request the scheduler admitted.                      *)
AppendAssertHolds == \A r \in Rank : status[r] # "append_tokens"

(* Every submitted request is resolved, with its tokens or as rejected,     *)
(* unless an engine loop dies or the scheduler has met a request that fits  *)
(* no rank, which nothing rejects and nothing overtakes.                    *)
EventuallyResolved ==
    \A q \in Req :
        q \notin fresh ~> \/ q \in resolved
                          \/ \E r \in Rank : status[r] # "up"
                          \/ Stuck

=============================================================================
