----------------------------- MODULE MoEPipeline ----------------------------
(***************************************************************************)
(* The barrier-free layer pipeline over all ranks: each rank runs an engine *)
(* loop (schedule a layer, take a batch, compute, hand the result to the    *)
(* dispatcher), a dispatcher thread (UnifiedDispatcher) and a receiving     *)
(* thread (MuPool::run) that feeds its UnifiedPool.  Every token is copied  *)
(* to its TopK experts, wherever they are, and its outputs come back to the *)
(* rank that holds its KV cache.                                            *)
(*                                                                          *)
(* Messages under way form a set: any delivery order, which covers NIXL     *)
(* completions and NCCL receives polled across peers.                       *)
(***************************************************************************)
EXTENDS UnifiedPool

CONSTANTS
    Home,           \* request -> rank that DPScheduler chose
    ExpertRank,     \* expert -> rank
    Output          \* request -> output length

VARIABLES
    chosen,         \* rank -> position scheduled and not yet fetched, or -1
    send_queue,     \* rank -> batches queued for the dispatcher
    network,        \* messages between a dispatcher and a pool
    fresh,          \* requests not admitted yet
    out,            \* request -> tokens sampled
    finished        \* requests whose last token was sampled

netVars == <<chosen, send_queue, network, fresh, out, finished>>
vars == <<poolVars, netVars>>

Init ==
    /\ PoolInit
    /\ chosen = [r \in Rank |-> -1]
    /\ send_queue = [r \in Rank |-> <<>>]
    /\ network = {}
    /\ fresh = Req
    /\ out = [q \in Req |-> 0]
    /\ finished = {}

-----------------------------------------------------------------------------
\* The engine loop of rank r.

\* recv_new_request, before the loop schedules.
Admit(q) ==
    /\ q \in fresh
    /\ chosen[Home[q]] = -1
    /\ fresh' = fresh \ {q}
    /\ Add(Home[q], AttnPos(0), <<[req |-> q, step |-> out[q]]>>)
    /\ UNCHANGED <<config, topk_pools, chosen, send_queue, network, out, finished>>

\* Scheduler::schedule_unified, first half: the choice, under its own lock.
ChooseLayer(r) ==
    /\ chosen[r] = -1
    /\ \E p \in Schedule(r) : chosen' = [chosen EXCEPT ![r] = p]
    /\ UNCHANGED <<poolVars, send_queue, network, fresh, out, finished>>

\* sort_by_expert, a stable counting sort.
SortByExpert(copies) ==
    FlattenSeq([e \in 1 .. NumExperts |-> SelectSeq(copies, LAMBDA c : c.exp = e - 1)])

\* sort_by_attention, by rank; the order within a rank does not matter here.
SortByAttention(copies) ==
    FlattenSeq([r \in 1 .. DpSize |-> SelectSeq(copies, LAMBDA c : c.dp = r - 1)])

\* One row of duplicate_topk and of the router's choice.
Copy(r, token, e) ==
    [req |-> token.req, step |-> token.step, exp |-> e, dp |-> r]

\* A batch of an attention layer: the router sends each token to TopK experts.
AttnBatch(r) ==
    LET p == chosen[r]
        batch == Taken(r, p)
    IN  /\ p # -1 /\ IsAttn(p) /\ p < 2 * NumLayers
        /\ \E route \in [DOMAIN batch -> kSubset(TopK, Expert)] :
              LET copies == FlattenSeq([i \in DOMAIN batch |->
                      LET to == SetToSortSeq(route[i], <)
                      IN  [k \in DOMAIN to |-> Copy(r, batch[i], to[k])]])
              IN  send_queue' = [send_queue EXCEPT ![r] = Append(@,
                      [tag |-> "attention", layer |-> p \div 2,
                       tokens |-> SortByExpert(copies)])]
        /\ Take(r, p, <<>>)
        /\ chosen' = [chosen EXCEPT ![r] = -1]
        /\ UNCHANGED <<config, topk_pools, network, fresh, out, finished>>

\* A batch of an expert layer: outputs for the next layer (step_layer).
ExpertBatch(r) ==
    LET p == chosen[r]
    IN  /\ p # -1 /\ ~IsAttn(p)
        /\ send_queue' = [send_queue EXCEPT ![r] = Append(@,
              [tag |-> "expert", layer |-> p \div 2 + 1,
               tokens |-> SortByAttention(Taken(r, p))])]
        /\ Take(r, p, <<>>)
        /\ chosen' = [chosen EXCEPT ![r] = -1]
        /\ UNCHANGED <<config, topk_pools, network, fresh, out, finished>>

\* A batch of the final pseudo-layer: sample_results, then put_batch of the
\* requests that go on.
SampleBatch(r) ==
    LET p == chosen[r]
        batch == Taken(r, p)
        sampled == {batch[i].req : i \in DOMAIN batch}
        more == SelectSeq(batch, LAMBDA t : out[t.req] + 1 < Output[t.req])
        loop == [i \in DOMAIN more |-> [more[i] EXCEPT !.step = @ + 1]]
    IN  /\ p = 2 * NumLayers
        /\ out' = [q \in Req |-> IF q \in sampled THEN out[q] + 1 ELSE out[q]]
        /\ finished' = finished \cup {q \in sampled : out[q] + 1 >= Output[q]}
        /\ Take(r, p, loop)
        /\ chosen' = [chosen EXCEPT ![r] = -1]
        /\ UNCHANGED <<config, topk_pools, send_queue, network, fresh>>

-----------------------------------------------------------------------------
\* The maximal runs of consecutive tokens with one destination (split_sizes).
Runs(tokens, dest) ==
    {SubSeq(tokens, s[1], s[2]) : s \in {s \in (DOMAIN tokens) \X (DOMAIN tokens) :
        /\ s[1] <= s[2]
        /\ \A k \in s[1] .. s[2] : dest[k] = dest[s[1]]
        /\ s[1] = 1 \/ dest[s[1] - 1] # dest[s[1]]
        /\ s[2] = Len(tokens) \/ dest[s[2] + 1] # dest[s[2]]}}

\* The rank a token of a batch goes to.
Destination(tag, c) == IF tag = "attention" THEN ExpertRank[c.exp] ELSE c.dp

\* One turn of MuDispatcher::run with UnifiedDispatcher::_send_once.
SendOnce(r) ==
    LET batch == Head(send_queue[r])
        dest == [i \in DOMAIN batch.tokens |-> Destination(batch.tag, batch.tokens[i])]
    IN  /\ send_queue[r] # <<>>
        /\ send_queue' = [send_queue EXCEPT ![r] = Tail(@)]
        /\ network' = network \cup
              {[to |-> Destination(batch.tag, run[1]), tag |-> batch.tag,
                layer |-> batch.layer, tokens |-> run] : run \in Runs(batch.tokens, dest)}
        /\ UNCHANGED <<poolVars, chosen, fresh, out, finished>>

\* MuPool::run: a message and its tensor have arrived.
Receive(m) ==
    /\ network' = network \ {m}
    /\ ProcessBatch(m.to, m.tag, m.layer, m.tokens)
    /\ UNCHANGED <<config, chosen, send_queue, fresh, out, finished>>

-----------------------------------------------------------------------------
Compute(r) == AttnBatch(r) \/ ExpertBatch(r) \/ SampleBatch(r)

Next ==
    \/ \E q \in Req : Admit(q)
    \/ \E r \in Rank : ChooseLayer(r) \/ Compute(r) \/ SendOnce(r)
    \/ \E m \in network : Receive(m)

\* The three threads of every rank run for ever, and messages arrive.
Fairness ==
    /\ \A r \in Rank :
        /\ WF_vars(ChooseLayer(r))
        /\ WF_vars(Compute(r))
        /\ WF_vars(SendOnce(r))
        /\ WF_vars(\E m \in network : m.to = r /\ Receive(m))

Spec == Init /\ [][Next]_vars /\ Fairness

-----------------------------------------------------------------------------
\* Where request q is: attention tokens, as <<rank, layer, token>> ...
Tokens(q) ==
    UNION {{<<r, l, i, layers[r][2 * l][i]>> :
              i \in {i \in DOMAIN layers[r][2 * l] : layers[r][2 * l][i].req = q}} :
           r \in Rank, l \in 0 .. NumLayers}

\* ... and copies, as <<expert layer, place, copy>>.
CopiesAt(q, l, place, tokens) ==
    {<<l, place, i, tokens[i]>> : i \in {i \in DOMAIN tokens : tokens[i].req = q}}

Copies(q) ==
    UNION ({CopiesAt(q, l, <<"layer", r>>, layers[r][2 * l + 1]) :
                r \in Rank, l \in 0 .. NumLayers - 1}
      \cup {CopiesAt(q, l - 1, <<"join", r>>, topk_pools[r][l][q]) :
                r \in Rank, l \in 1 .. NumLayers}
      \cup UNION {{LET b == send_queue[r][k]
                   IN  CopiesAt(q, IF b.tag = "expert" THEN b.layer - 1 ELSE b.layer,
                                <<"send", r, k>>, b.tokens) :
                        k \in DOMAIN send_queue[r]} : r \in Rank}
      \cup {CopiesAt(q, IF m.tag = "expert" THEN m.layer - 1 ELSE m.layer,
                     <<"net", m>>, m.tokens) : m \in network})

(* A running request is in one piece or in exactly TopK: either one token   *)
(* in an attention queue of the rank that holds its KV cache, or one copy   *)
(* for each of TopK different experts, all of the same layer and the same   *)
(* pass, all to be returned to that rank; a copy queued at an expert layer  *)
(* is on the rank that has that expert's weights.  So nothing is lost or duplicated *)
(* by splitting, sending, reordering and joining, and a join (TokenTopKPool *)
(* is keyed by request only) never mixes layers or passes.                  *)
WholeOrSplit ==
    \A q \in Req :
        LET ts == Tokens(q)
            cs == Copies(q)
            whole == /\ Cardinality(ts) = 1 /\ cs = {}
                     /\ \A t \in ts : t[1] = Home[q] /\ t[4].step = out[q]
            split == /\ ts = {} /\ Cardinality(cs) = TopK
                     /\ Cardinality({c[4].exp : c \in cs}) = TopK
                     /\ Cardinality({c[1] : c \in cs}) = 1
                     /\ \A c \in cs : c[4].step = out[q] /\ c[4].dp = Home[q]
                     /\ \A c \in cs : c[2][1] = "layer" => c[2][2] = ExpertRank[c[4].exp]
        IN  IF q \in fresh \cup finished THEN ts = {} /\ cs = {} ELSE whole \/ split

(* The counters the scheduler reads are the queue lengths, and the layer an *)
(* engine has chosen still has tokens when it comes back for them, although *)
(* the receiving thread has run in between (two separate critical sections):*)
(* the "Got nothing from layer" assertion never fails.                      *)
ChosenLayerHasTokens ==
    /\ \A r \in Rank, p \in Position : num_tokens[r][p] = Len(layers[r][p])
    /\ \A r \in Rank : chosen[r] # -1 => layers[r][chosen[r]] # <<>>

-----------------------------------------------------------------------------
\* Where q is, for the abstract specification.
FlowOf(q) ==
    LET ts == Tokens(q)
        cs == Copies(q)
    IN  CASE q \in fresh -> [at |-> "fresh", layer |-> 0, out |-> 0]
          [] q \in finished -> [at |-> "done", layer |-> 0, out |-> out[q]]
          [] q \notin fresh \cup finished /\ ts # {} ->
                [at |-> "attn", layer |-> (CHOOSE t \in ts : TRUE)[2], out |-> out[q]]
          [] q \notin fresh \cup finished /\ ts = {} ->
                [at |-> "moe", layer |-> (CHOOSE c \in cs : TRUE)[1], out |-> out[q]]

Flow == INSTANCE DecodeFlow WITH flow <- [q \in Req |-> FlowOf(q)]

(* The pipeline implements DecodeFlow: seen request by request, every       *)
(* interleaving of engines, dispatchers, receivers and messages is a walk   *)
(* through the layers in order, with the sampler after the last one, that   *)
(* ends after Output tokens and never stops before.                         *)
ImplementsDecodeFlow == Flow!Spec

=============================================================================
