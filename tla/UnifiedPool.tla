----------------------------- MODULE UnifiedPool ----------------------------
(***************************************************************************)
(* The unified pool of every rank: the queues of its attention and expert   *)
(* layers (UnifiedLayer), their token counters, the join of the top_k       *)
(* expert outputs of a token (TokenTopKPool), and the layer scheduler.      *)
(*                                                                          *)
(* Layers are numbered by pipeline position, 2i for attention layer i and   *)
(* 2i+1 for expert layer i; position 2*NumLayers is the sampler's           *)
(* pseudo-layer.  A queue is the sequence of its tokens: batches are split  *)
(* and merged freely by get_batches_restricted, so only token order counts. *)
(***************************************************************************)
EXTENDS Integers, SequencesExt

CONSTANTS
    Req,
    DpSize,             \* ranks
    NumLayers,
    NumExperts,
    AttnThreshold,      \* max_batch_size_attn
    ExpertThreshold,    \* max_batch_size_expert
    Configs             \* values of config to consider

Rank == 0 .. DpSize - 1
Expert == 0 .. NumExperts - 1
Position == 0 .. 2 * NumLayers
AttnPos(l) == 2 * l
ExpertPos(l) == 2 * l + 1
IsAttn(p) == p % 2 = 0

ASSUME PoolAssumption ==
    /\ {DpSize, NumLayers, NumExperts} \subseteq Nat \ {0}
    /\ AttnThreshold \in Nat \ {0} /\ ExpertThreshold \in Nat \ {0}
    /\ Configs \subseteq [top_k : 1 .. NumExperts, scheduler : {"flfs", "defrag"}]

VARIABLES
    config,         \* the model's top_k and the layer scheduler, fixed at the start
    layers,         \* rank -> position -> queued tokens
    num_tokens,     \* rank -> position -> UnifiedLayer::num_tokens
    topk_pools      \* rank -> layer -> request -> expert outputs waiting to join

poolVars == <<config, layers, num_tokens, topk_pools>>

TopK == config.top_k

\* An attention token is [req, step]; a copy routed to an expert is
\* [req, step, exp, dp] with dp its attn_dp_rank.  step, the number of tokens
\* sampled before, is not in the code: it tells one pass from the next.
PoolInit ==
    /\ config \in Configs
    /\ layers = [r \in Rank |-> [p \in Position |-> <<>>]]
    /\ num_tokens = [r \in Rank |-> [p \in Position |-> 0]]
    /\ topk_pools = [r \in Rank |-> [l \in 1 .. NumLayers |-> [q \in Req |-> <<>>]]]

-----------------------------------------------------------------------------
\* add_batch / add_tokens.
Add(r, p, tokens) ==
    /\ layers' = [layers EXCEPT ![r][p] = @ \o tokens]
    /\ num_tokens' = [num_tokens EXCEPT ![r][p] = @ + Len(tokens)]

\* Mutant: a token is ready one copy early.
JoinedEarly(copies) == Len(copies) >= TopK - 1

\* The count() == top_k test of TokenTopKPool::put_batch.
Joined(copies) == Len(copies) = TopK

\* One token of put_batch: the last copy completes it.  The sum of copies of
\* different passes, or of one expert twice, would be no pass's output: -1.
JoinOne(acc, c) ==
    LET copies == Append(acc.pool[c.req], c)
        clean == /\ \A i \in DOMAIN copies : copies[i].step = c.step
                 /\ Cardinality({copies[i].exp : i \in DOMAIN copies}) = Len(copies)
    IN  IF Joined(copies)
        THEN [pool |-> [acc.pool EXCEPT ![c.req] = <<>>],
              ready |-> Append(acc.ready, [req |-> c.req,
                                           step |-> IF clean THEN c.step ELSE -1])]
        ELSE [acc EXCEPT !.pool[c.req] = copies]

\* UnifiedPool::process_batch in the receiving thread of rank r.
ProcessBatch(r, tag, l, tokens) ==
    \/ /\ tag = "attention"
       /\ Add(r, ExpertPos(l), tokens)
       /\ UNCHANGED topk_pools
    \/ /\ tag = "expert" /\ TopK = 1
       /\ Add(r, AttnPos(l), [i \in DOMAIN tokens |->
                                [req |-> tokens[i].req, step |-> tokens[i].step]])
       /\ UNCHANGED topk_pools
    \/ /\ tag = "expert" /\ TopK > 1
       /\ LET joined == FoldLeft(JoinOne, [pool |-> topk_pools[r][l], ready |-> <<>>], tokens)
          IN  /\ topk_pools' = [topk_pools EXCEPT ![r][l] = joined.pool]
              /\ Add(r, AttnPos(l), joined.ready)

-----------------------------------------------------------------------------
Busy(r) == {p \in Position : num_tokens[r][p] > 0}

\* Mutant: the loop over the layers stops before the last attention layer.
ScheduleShort(r) == {p \in Busy(r) : p < 2 * NumLayers
                                     /\ \A o \in Busy(r) : p <= o}

\* schedule: the first busy layer in pipeline order (flfs); the defragging
\* scheduler scores busy layers only, and may choose any of them.
Schedule(r) == IF config.scheduler = "flfs"
               THEN {p \in Busy(r) : \A o \in Busy(r) : p <= o}
               ELSE Busy(r)

\* get_batch_from_layer: at most the threshold, first come first served.
Taken(r, p) ==
    LET bound == IF IsAttn(p) THEN AttnThreshold ELSE ExpertThreshold
    IN  SubSeq(layers[r][p], 1, Min({bound, Len(layers[r][p])}))

\* Mutant: the counter is cleared as if the whole queue had been taken.
TakeAll(r, p, loop) ==
    LET n == Len(Taken(r, p))
        left == SubSeq(layers[r][p], n + 1, Len(layers[r][p]))
    IN  /\ layers' = [layers EXCEPT ![r][p] = left, ![r][0] = @ \o loop]
        /\ num_tokens' = [num_tokens EXCEPT ![r][p] = 0, ![r][0] = @ + Len(loop)]

\* The taken tokens leave the queue of p; put_batch adds the tokens in loop
\* to layer 0.
Take(r, p, loop) ==
    LET n == Len(Taken(r, p))
        left == SubSeq(layers[r][p], n + 1, Len(layers[r][p]))
    IN  /\ layers' = [layers EXCEPT ![r][p] = left, ![r][0] = @ \o loop]
        /\ num_tokens' = [num_tokens EXCEPT ![r][p] = @ - n, ![r][0] = @ + Len(loop)]

=============================================================================
