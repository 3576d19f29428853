----------------------------- MODULE BatchLayout ----------------------------
(***************************************************************************)
(* What a batch carries through one layer: the rows of its tensor and the   *)
(* parallel vectors of its BatchMetadata, as they are duplicated, sorted,   *)
(* split, merged and packed between an attention layer, the experts and the *)
(* next attention layer.  The vectors and the tensor are permuted by        *)
(* different code (C++ on the host, kernels on the GPU), so that they still *)
(* belong together at the end is what there is to show.                     *)
(*                                                                          *)
(* A batch is a record of sequences.  A row of its tensor remembers the     *)
(* request it belongs to and the terms summed into it so far: pairs of the  *)
(* expert that computed a term and the weight it was multiplied by.  The    *)
(* weight the gate gives request q for expert e is <<q, e>>.                *)
(***************************************************************************)
EXTENDS Integers, SequencesExt

CONSTANTS
    Req,                \* request ids, integers
    Expert,             \* 0 .. n - 1
    Rank,
    Home,               \* request -> its attn_dp_rank
    Channel,            \* expert -> the rank that holds it
    Gates,              \* sets of expert choices a gate may make, one per top_k
    Threshold,          \* tokens a scheduled batch may have
    use_gdrcopy         \* use_gdrcopy_optimization

ASSUME LayoutAssumption ==
    /\ Req \subseteq Int /\ Expert \subseteq Nat
    /\ Home \in [Req -> Rank] /\ Channel \in [Expert -> Rank]
    /\ Threshold \in Nat \ {0}
    /\ \A G \in Gates : \A g, h \in G : Len(g) = Len(h) /\ Len(g) > 0
    /\ use_gdrcopy \in BOOLEAN

VARIABLES
    gate,           \* request -> the experts the gate chooses for it
    attn_queue,     \* rank -> batches queued at the attention layer
    expert_queue,   \* rank -> batches queued at the expert layer
    topk_pool,      \* rank -> request -> copies waiting to join (TokenTopKPool)
    token_queue,    \* rank -> joined tokens queued at the next attention layer
    next_queue,     \* rank -> batches queued there (top_k = 1)
    run_next        \* rank -> batches the next attention layer ran

vars == <<gate, attn_queue, expert_queue, topk_pool, token_queue, next_queue, run_next>>

\* The model's number of experts per token: the same for every request.
top_k == Len(gate[CHOOSE q \in Req : TRUE])

-----------------------------------------------------------------------------
\* Vectors.  An empty vector is a field the batch does not use.
Concat(vectors) == FoldLeft(\o, <<>>, vectors)

permute_vector(v, positions) ==
    [p \in DOMAIN v |-> v[CHOOSE i \in DOMAIN v : positions[i] = p]]

\* Mutant: the whole vector is tiled, t0 t1 t0 t1, as an earlier version did.
TileVector(v, k) == [i \in 1 .. k * Len(v) |-> v[((i - 1) % Len(v)) + 1]]

\* Token-major: t0 t0 t1 t1.
repeat_vector(v, k) == [i \in 1 .. k * Len(v) |-> v[(i - 1) \div k + 1]]

\* Fields of a batch, the tensor included.
Field == {"req_ids", "exp_ids", "attn_dp_ranks", "init_prefill_lens", "topk_weights", "data"}

\* Tokens first .. last of a batch, as split_with_sizes cuts them out.
Slice(b, first, last) ==
    [f \in Field |-> IF b[f] = <<>> THEN <<>> ELSE SubSeq(b[f], first, last)]

Size(b) == Len(b.req_ids)
IsPrefill(b, i) == b.init_prefill_lens[i] # -1
NumPrefill(b) == Cardinality({i \in 1 .. Size(b) : IsPrefill(b, i)})

\* split_with_sizes where neighbours differ in their keys: one part per run.
SplitRuns(b, keys) ==
    LET starts == SetToSortSeq({i \in 1 .. Size(b) : i = 1 \/ keys[i] # keys[i - 1]}, <)
        end(k) == IF k = Len(starts) THEN Size(b) ELSE starts[k + 1] - 1
    IN  [k \in DOMAIN starts |-> Slice(b, starts[k], end(k))]

-----------------------------------------------------------------------------
\* The counting sort of sort_by_expert and merge_by_expert: expert_cnts holds
\* prefix sums, the entry of expert e - 1 is the next place for e, and expert 0
\* has a counter of its own.  Token i goes to positions[i].
expert_positions(exp_ids) ==
    LET expert_cnts == [e \in Expert |-> Cardinality({i \in DOMAIN exp_ids : exp_ids[i] <= e})]
        step(acc, e) ==
            IF e = 0
            THEN [acc EXCEPT !.first = @ + 1, !.positions = Append(@, acc.first + 1)]
            ELSE [acc EXCEPT !.cnts[e - 1] = @ + 1, !.positions = Append(@, acc.cnts[e - 1] + 1)]
    IN  FoldLeft(step, [cnts |-> expert_cnts, first |-> 0, positions |-> <<>>], exp_ids).positions

Permuted(b, positions) == [f \in Field |-> permute_vector(b[f], positions)]

Joint(batches) == [f \in Field |-> Concat([k \in DOMAIN batches |-> batches[k][f]])]

\* Mutant: batches of one expert layer are put one after the other.
ExpertsInOrder(batches) == Joint(batches)

merge_by_expert(batches) ==
    IF Len(batches) = 1 THEN batches[1]
    ELSE LET all == Joint(batches) IN Permuted(all, expert_positions(all.exp_ids))

\* Mutant: batches are simply put one after the other.
MergeInOrder(batches) ==
    [Joint(batches) EXCEPT !.exp_ids = <<>>, !.topk_weights = <<>>, !.attn_dp_ranks = <<>>]

\* The prefill tokens of every batch, then the others: the first num_prefill
\* entries of a batch are taken to be its prefill tokens.
merge_by_attention(batches) ==
    IF Len(batches) = 1 THEN batches[1]
    ELSE LET front(b) == Slice(b, 1, NumPrefill(b))
             back(b) == Slice(b, NumPrefill(b) + 1, Size(b))
             all == Joint([k \in DOMAIN batches |-> front(batches[k])]
                          \o [k \in DOMAIN batches |-> back(batches[k])])
         IN  [all EXCEPT !.exp_ids = <<>>, !.topk_weights = <<>>, !.attn_dp_ranks = <<>>]

\* The comparator of sort_by_attention; pack_topk_tokens sorts the tokens of
\* one rank by its last two criteria.
Before(s, t) ==
    \/ s.rank < t.rank
    \/ /\ s.rank = t.rank
       /\ IF s.prefill = -1 \/ t.prefill = -1 THEN s.prefill > t.prefill ELSE s.req < t.req

\* std::sort leaves equal elements in any order: every permutation that puts no
\* element behind one it precedes.
Sorts(elements) ==
    {positions \in [DOMAIN elements -> DOMAIN elements] :
        /\ \A i, j \in DOMAIN elements : i # j => positions[i] # positions[j]
        /\ \A i, j \in DOMAIN elements :
              Before(elements[i], elements[j]) => positions[i] < positions[j]}

Keys(b) == [i \in 1 .. Size(b) |-> [rank |-> b.attn_dp_ranks[i],
                                    prefill |-> b.init_prefill_lens[i],
                                    req |-> b.req_ids[i]]]

-----------------------------------------------------------------------------
\* Mutant: the rest of a batch that had to be split is not put back.
DropRest(queue) ==
    LET step(acc, b) ==
            LET room == Threshold - acc.total
            IN  IF room = 0 THEN [acc EXCEPT !.left = Append(@, b)]
                ELSE IF Size(b) > room
                THEN [acc EXCEPT !.taken = Append(@, Slice(b, 1, room)), !.total = Threshold]
                ELSE [acc EXCEPT !.taken = Append(@, b), !.total = @ + Size(b)]
    IN  FoldLeft(step, [taken |-> <<>>, left |-> <<>>, total |-> 0], queue)

\* get_batches_restricted: whole batches while they fit, then a part of one.
Restricted(queue) ==
    LET step(acc, b) ==
            LET room == Threshold - acc.total
            IN  IF room = 0 THEN [acc EXCEPT !.left = Append(@, b)]
                ELSE IF Size(b) > room
                THEN [taken |-> Append(acc.taken, Slice(b, 1, room)),
                      left |-> Append(acc.left, Slice(b, room + 1, Size(b))),
                      total |-> Threshold]
                ELSE [acc EXCEPT !.taken = Append(@, b), !.total = @ + Size(b)]
    IN  FoldLeft(step, [taken |-> <<>>, left |-> <<>>, total |-> 0], queue)

\* Batches as they wait at an attention layer, prefill tokens first.
AttnBatch(reqs, prefill) ==
    [req_ids |-> reqs, exp_ids |-> <<>>, attn_dp_ranks |-> <<>>,
     init_prefill_lens |-> [i \in DOMAIN reqs |-> prefill[reqs[i]]],
     topk_weights |-> <<>>,
     data |-> [i \in DOMAIN reqs |-> [req |-> reqs[i], terms |-> <<>>]]]

PrefillFirst(b) == \A i, j \in 1 .. Size(b) : i < j /\ IsPrefill(b, j) => IsPrefill(b, i)

\* One rank's requests in any order, queued as one batch or one by one.
Queues(r, prefill) ==
    LET orders == SetToSeqs({q \in Req : Home[q] = r})
        single(o) == [i \in DOMAIN o |-> AttnBatch(<<o[i]>>, prefill)]
    IN  {single(o) : o \in orders}
        \cup {<<AttnBatch(o, prefill)>> : o \in {p \in orders : PrefillFirst(AttnBatch(p, prefill))}}

Init ==
    /\ \E G \in Gates : gate \in [Req -> G]
    /\ \E prefill \in [Req -> {-1, 1}] :
          attn_queue \in {w \in [Rank -> UNION {Queues(r, prefill) : r \in Rank}] :
                            \A r \in Rank : w[r] \in Queues(r, prefill)}
    /\ expert_queue = [r \in Rank |-> <<>>]
    /\ topk_pool = [r \in Rank |-> [q \in Req |-> <<>>]]
    /\ token_queue = [r \in Rank |-> <<>>]
    /\ next_queue = [r \in Rank |-> <<>>]
    /\ run_next = [r \in Rank |-> <<>>]

\* postprocess_batch_attn: duplicate the metadata, attach the gate's choice
\* (made from the rows, flattened token by token), sort by expert; permute_tokens
\* puts row i / top_k at the place of copy i.
Expanded(r, b) ==
    LET copies == 1 .. top_k * Size(b)
        row(i) == b.data[(i - 1) \div top_k + 1]
        exp_ids == [i \in copies |-> gate[row(i).req][((i - 1) % top_k) + 1]]
    IN  Permuted([req_ids |-> repeat_vector(b.req_ids, top_k),
                  exp_ids |-> exp_ids,
                  attn_dp_ranks |-> [i \in copies |-> r],
                  init_prefill_lens |-> repeat_vector(b.init_prefill_lens, top_k),
                  topk_weights |-> [i \in copies |-> <<row(i).req, exp_ids[i]>>],
                  data |-> [i \in copies |-> row(i)]],
                 expert_positions(exp_ids))

\* An attention step of rank r and _send_to_expert_once: neighbours whose experts
\* share a channel travel together, process_expert_batch queues the parts.
RunAttention(r) ==
    /\ attn_queue[r] # <<>>
    /\ LET fetched == Restricted(attn_queue[r])
           b == Expanded(r, merge_by_attention(fetched.taken))
           parts == SplitRuns(b, [i \in 1 .. Size(b) |-> Channel[b.exp_ids[i]]])
       IN  /\ attn_queue' = [attn_queue EXCEPT ![r] = fetched.left]
           /\ expert_queue' = [x \in Rank |-> expert_queue[x]
                                  \o SelectSeq(parts, LAMBDA p : Channel[p.exp_ids[1]] = x)]
    /\ UNCHANGED <<gate, topk_pool, token_queue, next_queue, run_next>>

\* The weights handed to the kernel by execute_batch_expert: read before
\* sort_by_attention with GDRCopy, read again after it without.
WeightsUsed(b, positions) ==
    IF use_gdrcopy THEN b.topk_weights ELSE permute_vector(b.topk_weights, positions)

\* A grouped GEMM is given the number of tokens of every expert, in ascending
\* order of expert, and takes the rows to be grouped likewise.
ExpertOfRow(b, i) ==
    CHOOSE e \in Expert :
        /\ i <= Cardinality({j \in 1 .. Size(b) : b.exp_ids[j] <= e})
        /\ i > Cardinality({j \in 1 .. Size(b) : b.exp_ids[j] < e})

\* execute_batch_expert: the kernel multiplies row i by weight i and moves it to
\* positions[i]; the metadata was permuted by sort_by_attention.
Computed(b, positions) ==
    LET weights == WeightsUsed(b, positions)
        term(i) == <<ExpertOfRow(b, i), weights[i]>>
    IN  Permuted([b EXCEPT !.exp_ids = <<>>, !.topk_weights = <<>>,
                           !.data = [i \in DOMAIN b.data |->
                                        [b.data[i] EXCEPT !.terms = <<term(i)>>]]],
                 positions)

\* One token of TokenTopKPool::put_batch: the first copy sets what is known of
\* the token, the top_k-th completes it.
PutToken(acc, t) ==
    LET copies == Append(acc.pool[t.req], t)
    IN  IF Len(copies) = top_k
        THEN [pool |-> [acc.pool EXCEPT ![t.req] = <<>>],
              ready |-> Append(acc.ready,
                               [copies[1] EXCEPT !.rows = Concat([k \in DOMAIN copies |-> copies[k].rows])])]
        ELSE [acc EXCEPT !.pool[t.req] = copies]

Tokens(b) == [i \in 1 .. Size(b) |-> [req |-> b.req_ids[i], prefill |-> b.init_prefill_lens[i],
                                      rank |-> b.attn_dp_ranks[i], rows |-> <<b.data[i]>>]]

\* An expert step of rank r and _send_to_attn_once, one part per attention rank.
\* process_batch queues the part (top_k = 1) or joins its copies.
RunExpert(r) ==
    /\ expert_queue[r] # <<>>
    /\ LET fetched == Restricted(expert_queue[r])
           m == merge_by_expert(fetched.taken)
       IN  \E positions \in Sorts(Keys(m)) :
              LET b == Computed(m, positions)
                  parts == SplitRuns(b, b.attn_dp_ranks)
                  mine(x) == SelectSeq(parts, LAMBDA p : p.attn_dp_ranks[1] = x)
                  joined == [x \in Rank |->
                                FoldLeft(PutToken, [pool |-> topk_pool[x], ready |-> <<>>],
                                         Concat([k \in DOMAIN mine(x) |-> Tokens(mine(x)[k])]))]
              IN  /\ expert_queue' = [expert_queue EXCEPT ![r] = fetched.left]
                  /\ IF top_k = 1
                     THEN /\ next_queue' = [x \in Rank |-> next_queue[x] \o mine(x)]
                          /\ UNCHANGED <<topk_pool, token_queue>>
                     ELSE /\ topk_pool' = [x \in Rank |-> joined[x].pool]
                          /\ token_queue' = [x \in Rank |-> token_queue[x] \o joined[x].ready]
                          /\ UNCHANGED next_queue
    /\ UNCHANGED <<gate, attn_queue, run_next>>

\* pack_topk_tokens: sort the tokens, and sum the rows of each
\* (gather_and_sum_tokens).
Packed(tokens, positions) ==
    LET sorted == permute_vector(tokens, positions)
        sum(t) == [req |-> t.rows[1].req, terms |-> Concat([k \in DOMAIN t.rows |-> t.rows[k].terms])]
    IN  [req_ids |-> [i \in DOMAIN sorted |-> sorted[i].req],
         exp_ids |-> <<>>,
         attn_dp_ranks |-> [i \in DOMAIN sorted |-> sorted[i].rank],
         init_prefill_lens |-> [i \in DOMAIN sorted |-> sorted[i].prefill],
         topk_weights |-> <<>>,
         data |-> [i \in DOMAIN sorted |-> sum(sorted[i])]]

\* The next attention layer of rank r fetches its tokens or batches.
RunNext(r) ==
    /\ \/ /\ next_queue[r] # <<>>
          /\ LET fetched == Restricted(next_queue[r])
             IN  /\ next_queue' = [next_queue EXCEPT ![r] = fetched.left]
                 /\ run_next' = [run_next EXCEPT ![r] = Append(@, merge_by_attention(fetched.taken))]
          /\ UNCHANGED token_queue
       \/ /\ token_queue[r] # <<>>
          /\ LET n == Min({Threshold, Len(token_queue[r])})
                 tokens == SubSeq(token_queue[r], 1, n)
             IN  \E positions \in Sorts(tokens) :
                    run_next' = [run_next EXCEPT ![r] = Append(@, Packed(tokens, positions))]
          /\ token_queue' = [token_queue EXCEPT ![r] =
                                SubSeq(@, Min({Threshold, Len(@)}) + 1, Len(@))]
          /\ UNCHANGED next_queue
    /\ UNCHANGED <<gate, attn_queue, expert_queue, topk_pool>>

Next == \E r \in Rank : RunAttention(r) \/ RunExpert(r) \/ RunNext(r)

Spec == Init /\ [][Next]_vars

-----------------------------------------------------------------------------
All(queues) == UNION {Range(queues[r]) : r \in Rank}

\* Row i of every queued tensor is the token that req_ids[i] names, although rows
\* and metadata are duplicated, sorted and merged by different code.
RowsMatchMetadata ==
    \A b \in All(attn_queue) \cup All(expert_queue) \cup All(next_queue) \cup All(run_next) :
        \A i \in 1 .. Size(b) : b.data[i].req = b.req_ids[i]

\* A token reaches the next attention layer on its own rank as the sum of the
\* outputs of exactly the experts its gate chose, each computed by that expert's
\* weights and multiplied by the gate's weight for it.
WeightedSum ==
    \A r \in Rank : \A b \in Range(run_next[r]) : \A i \in 1 .. Size(b) :
        LET q == b.req_ids[i]
        IN  /\ Home[q] = r
            /\ Len(b.data[i].terms) = top_k
            /\ Range(b.data[i].terms) = {<<e, <<q, e>>>> : e \in Range(gate[q])}

\* Whatever was split, sorted or merged before, an attention batch has its prefill
\* tokens in front: merge_by_attention and the attention kernels rely on the
\* counts alone.
PrefillInFront ==
    \A b \in All(attn_queue) \cup All(next_queue) \cup All(run_next) : PrefillFirst(b)

\* When no batch or token is queued anywhere, every request has reached the next
\* attention layer: no part of a split batch was dropped, and no copy still waits
\* in the join for one that cannot come.
NothingLeftBehind ==
    (\A r \in Rank : attn_queue[r] = <<>> /\ expert_queue[r] = <<>>
                     /\ token_queue[r] = <<>> /\ next_queue[r] = <<>>)
    => \A q \in Req : \E b \in All(run_next) : q \in Range(b.req_ids)

=============================================================================
