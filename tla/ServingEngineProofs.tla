------------------------ MODULE ServingEngineProofs -------------------------
(***************************************************************************)
(* The steps of the engine loops keep the invariant of ServingProofs; the   *)
(* theorems about the composition.                                          *)
(***************************************************************************)
EXTENDS ServingProofs


\* A step of rank r moves the requests B, all of them on r, and nothing else.
Moves(B, stage, stage2, ranks, r) ==
    /\ stage2 \in [Req -> Stages]
    /\ B \in SUBSET Req
    /\ \A q \in B : /\ stage[q] \in {"sent", "loading", "layer0", "transit"}
                    /\ stage2[q] \in {"loading", "layer0", "transit", "lost", "reported"}
                    /\ ranks[q] = r
    /\ \A q \in Req : q \notin B => stage2[q] = stage[q]

OthersKept(r) ==
    /\ UNCHANGED <<fresh, waiting_queue, got, seq_ranks, sampler, finished_seqs, fetched, resolved>>
    /\ \A k \in Rank : k # r =>
          /\ sent'[k] = sent[k] /\ layer0'[k] = layer0[k] /\ loading'[k] = loading[k]
          /\ transit'[k] = transit[k] /\ results'[k] = results[k] /\ status'[k] = status[k]

Accounted(stage) == \A q \in Req : HeldBy(q, stage[q]) /\ CountedFor(q, stage[q])


(* A step of one rank that accounts for the requests it moves keeps the      *)
(* rest.                                                                     *)
LEMMA EngineFrame ==
    ASSUME SchedTypes, ServTypes, NEW stage, Whole(stage), NEW stage2, NEW r \in Rank, NEW B,
           Moves(B, stage, stage2, seq_ranks, r), OthersKept(r),
           LocatedAt(stage2, r)', ToldBy(results'[r], stage2, seq_ranks, r),
           Accounted(stage2)'
    PROVE  Whole(stage2)'
<1> USE DEF Moves, OthersKept
<1>1. Queued(stage) /\ Located(stage) /\ Reported(stage) /\ stage \in [Req -> Stages]
  BY Zenon DEF Whole
<1>2. Queued(stage2)'
  <2>1. /\ fresh \in SUBSET Req /\ \A i \in DOMAIN waiting_queue : waiting_queue[i] \in Req
        /\ got # NoReq => got \in Req
    BY DEF SchedTypes
  <2>2. \A q \in Req : stage[q] \in {"none", "done"} <=> stage2[q] \in {"none", "done"}
    BY Zenon
  <2>3. \A q \in Req : stage[q] = "none" => stage2[q] = "none"
    BY Zenon
  <2>4. QED  BY <1>1, <2>1, <2>2, <2>3 DEF Queued
<1>3. ASSUME NEW k \in Rank
      PROVE  LocatedAt(stage2, k)'
  <2>1. CASE k = r
    BY <2>1, Zenon
  <2>2. CASE k # r
    <3>1. /\ sent[k] \in Seq(Req) /\ layer0[k] \in Seq(Req)
          /\ loading[k] \in SUBSET Req /\ transit[k] \in SUBSET Req
          /\ LocatedAt(stage, k)
      BY <1>1, Zenon DEF SchedTypes, ServTypes, Located
    <3>2. \A q \in Req : seq_ranks[q] = k => stage2[q] = stage[q]
      BY <2>2, Zenon
    <3>3. \A s \in Seq(Req) : \A st : HeldIn(s, stage, st, seq_ranks, k)
                                        => HeldIn(s, stage2, st, seq_ranks, k)
      BY <3>2 DEF HeldIn
    <3>4. QED  BY <2>2, <3>1, <3>2, <3>3, SMTT(30) DEF LocatedAt
  <2>3. QED  BY <2>1, <2>2, Zenon
<1>4. Reported(stage2)'
  <2>1. ASSUME NEW k \in Rank
        PROVE  ToldBy(results'[k], stage2, seq_ranks, k)
    <3>1. CASE k = r
      BY <3>1, Zenon
    <3>2. CASE k # r
      <4>1. results[k] \in Seq(Result) /\ ToldBy(results[k], stage, seq_ranks, k)
        BY <1>1, ZenonT(30) DEF ServTypes, Reported
      <4>2. \A q \in Req : seq_ranks[q] = k => stage2[q] = stage[q]
        BY <3>2, Zenon
      <4>3. ToldBy(results[k], stage2, seq_ranks, k)
        BY <4>1, <4>2, ToldBySame
      <4>4. QED  BY <3>2, <4>3, Zenon
    <3>3. QED  BY <3>1, <3>2, Zenon
  <2>2. /\ finished_seqs \in SUBSET Req /\ resolved \in SUBSET Req
        /\ \A i \in DOMAIN fetched : fetched[i] \in SUBSET Req
    BY DEF ServTypes
  <2>3. \A q \in Req : stage[q] \in {"finished", "fetched", "done"} => stage2[q] = stage[q]
    BY Zenon
  <2>4. QED  BY <1>1, <2>1, <2>2, <2>3 DEF Reported
<1>5. QED  BY <1>2, <1>3, <1>4, Zenon DEF Whole, Located, Accounted

(* An engine loop receives a request: to layer 0, or to the KV loader.       *)
LEMMA RecvServes ==
    ASSUME ServingIInv, NEW r \in Rank, RecvNewRequest(r)
    PROVE  ServingIInv'
<1>1. PICK stage : Whole(stage)
  BY Zenon DEF ServingIInv
<1>2. PICK q : q = Head(sent[r])
  BY Zenon
<1>3. /\ sent[r] # <<>> /\ sent' = [sent EXCEPT ![r] = Tail(@)]
      /\ \/ /\ sampler = "mooncake" /\ loading' = [loading EXCEPT ![r] = @ \cup {q}]
            /\ UNCHANGED <<forced, layer0>>
         \/ /\ sampler # "mooncake" /\ UNCHANGED loading
            /\ forced' = [forced EXCEPT ![q] = ForcedLen(q)]
            /\ layer0' = [layer0 EXCEPT ![r] = Append(@, q)]
      /\ UNCHANGED <<policy, fresh, waiting_queue, got, loop, kv_cache_stats, seq_ranks, cur_rank,
                     sch_event, end_flag, sampler, status, transit, num_free, blocks, lost, seq_len,
                     stash_slots, output_len, results, token_streams, finished_seqs, fetched, resolved>>
  BY <1>2, Zenon DEF RecvNewRequest, AdmitRequest, resultVars
<1>4. SchedIInv /\ SchedTypes /\ Unplaced /\ ServTypes /\ Pool /\ AllocSafe
  BY Zenon DEF ServingIInv, SchedIInv
<1>5. /\ sent[r] \in Seq(Req) /\ q \in Req /\ q = sent[r][1] /\ 1 \in DOMAIN sent[r]
      /\ sent'[r] = SubSeq(sent[r], 2, Len(sent[r])) /\ Len(sent[r]) \in Nat \ {0}
      /\ \A k \in Rank : k # r => sent'[k] = sent[k]
      /\ sent' \in [Rank -> Seq(Req)]
  <2>1. sent[r] \in Seq(Req) /\ sent \in [Rank -> Seq(Req)]
    BY <1>4, Zenon DEF SchedTypes
  <2>2. Tail(sent[r]) \in Seq(Req) /\ Tail(sent[r]) = SubSeq(sent[r], 2, Len(sent[r]))
    BY <1>3, <2>1
  <2>3. QED  BY <1>2, <1>3, <2>1, <2>2
<1>6. SchedIInv'
  <2>1. SchedTypes'
    BY <1>3, <1>4, <1>5, Zenon DEF SchedTypes
  <2>2. Unplaced'
    BY <1>3, <1>4, Zenon DEF Unplaced
  <2>3. QED  BY <1>3, <1>4, <2>1, <2>2, StockKept, ZenonT(30) DEF SchedIInv
<1>7. Queued(stage) /\ Located(stage) /\ Reported(stage) /\ stage \in [Req -> Stages]
  BY <1>1, Zenon DEF Whole
<1>8. stage[q] = "sent" /\ seq_ranks[q] = r
  BY <1>5, <1>7 DEF Located, LocatedAt, HeldIn
<1>9. PICK to, stage2 : /\ to = IF sampler = "mooncake" THEN "loading" ELSE "layer0"
                        /\ stage2 = [stage EXCEPT ![q] = to]
  BY Zenon
<1>10. /\ stage2 \in [Req -> Stages] /\ stage2[q] = to /\ to \in {"loading", "layer0"}
       /\ \A p \in Req : p # q => stage2[p] = stage[p]
  BY <1>5, <1>7, <1>9, Zenon DEF Stages
<1>11. sampler # "mooncake" =>
         /\ PrefillLen(q) \in Nat /\ ForcedLen(q) \in Nat /\ MaxOutputLen(q) \in Nat \ {0}
         /\ Loaded(q)
  <2>1. sampler # "mooncake" => Loaded(q)
    BY Zenon DEF Loaded
  <2>2. QED  BY <1>4, <1>5, <2>1, RequestTypes, ZenonT(30)
<1>12. ServTypes'
  <2>1. layer0' \in [Rank -> Seq(Req)] /\ loading' \in [Rank -> SUBSET Req]
    <3>1. loading \in [Rank -> SUBSET Req] /\ loading[r] \cup {q} \in SUBSET Req
      BY <1>4, <1>5, ZenonT(30) DEF ServTypes
    <3>2. layer0 \in [Rank -> Seq(Req)] /\ Append(layer0[r], q) \in Seq(Req)
      BY <1>4, <1>5 DEF ServTypes
    <3>3. QED  BY <1>3, <3>1, <3>2, ZenonT(30)
  <2>2. forced' \in [Req -> Nat]
    BY <1>3, <1>4, <1>5, <1>11, ZenonT(30) DEF ServTypes
  <2>3. QED  BY <1>3, <1>4, <2>1, <2>2, ZenonT(30) DEF ServTypes
<1>13. LocatedAt(stage, r) /\ layer0[r] \in Seq(Req) /\ loading[r] \in SUBSET Req
       /\ transit[r] \in SUBSET Req
  BY <1>4, <1>7, Zenon DEF Located, ServTypes
<1>14. HeldIn(sent'[r], stage2, "sent", seq_ranks, r)
  <2>1. HeldIn(sent[r], stage, "sent", seq_ranks, r)
    BY <1>13, Zenon DEF LocatedAt
  <2>2. \A i \in 1 + 1 .. Len(sent[r]) : sent[r][i] \in Req /\ sent[r][i] # q
    BY <1>5, <2>1, SMTT(30) DEF HeldIn
  <2>3. \A i \in 1 + 1 .. Len(sent[r]) : stage2[sent[r][i]] = "sent"
    BY <1>5, <1>10, <2>1, <2>2, SMTT(30) DEF HeldIn
  <2>4. Cut(sent[r], 1, sent'[r]) /\ 1 \in 0 .. Len(sent[r])
    BY <1>5 DEF Cut
  <2>5. QED  BY <1>5, <2>1, <2>3, <2>4, HeldInSubSeq, Zenon
<1>15. LocatedAt(stage2, r)'
  <2>1. \A p \in Req : stage2[p] = "lost" => stage[p] = "lost"
    BY <1>10, Zenon
  <2>2. \A p \in transit[r] : stage2[p] = "transit" /\ seq_ranks[p] = r
    BY <1>8, <1>10, <1>13, Zenon DEF LocatedAt
  <2>3. \A p \in loading[r] : stage2[p] = "loading" /\ seq_ranks[p] = r /\ sampler = "mooncake"
    BY <1>8, <1>10, <1>13, ZenonT(30) DEF LocatedAt
  <2>4. CASE sampler = "mooncake"
    <3>1. \A p \in Req : stage[p] = "layer0" => stage2[p] = "layer0"
      BY <1>8, <1>10, Zenon
    <3>2. HeldIn(layer0[r], stage2, "layer0", seq_ranks, r)
      BY <1>13, <3>1, HeldInSame, Zenon DEF LocatedAt
    <3>3. loading'[r] = loading[r] \cup {q} /\ stage2[q] = "loading"
      BY <1>3, <1>4, <1>9, <1>10, <2>4, ZenonT(30) DEF ServTypes
    <3>4. QED  BY <1>3, <1>8, <1>13, <1>14, <2>1, <2>2, <2>3, <2>4, <3>2, <3>3, SMTT(30) DEF LocatedAt
  <2>5. CASE sampler # "mooncake"
    <3>1. Enters(q, stage, stage2, "layer0", seq_ranks, seq_ranks, r)
      BY <1>8, <1>9, <1>10, <2>5, ZenonT(30) DEF Enters
    <3>2. Pushed(layer0[r], q, layer0'[r])
      BY <1>3, <1>4, <2>5, ZenonT(30) DEF Pushed, ServTypes
    <3>3. HeldIn(layer0[r], stage, "layer0", seq_ranks, r)
      BY <1>13, Zenon DEF LocatedAt
    <3>4. HeldIn(layer0'[r], stage2, "layer0", seq_ranks, r)
      BY <1>5, <1>13, <3>1, <3>2, <3>3, HeldInAppend, ZenonT(30)
    <3>5. QED  BY <1>3, <1>13, <1>14, <2>1, <2>2, <2>3, <2>5, <3>4, ZenonT(30) DEF LocatedAt
  <2>6. QED  BY <2>4, <2>5, Zenon
<1>16. ToldBy(results'[r], stage2, seq_ranks, r)
  <2>1. results[r] \in Seq(Result) /\ ToldBy(results[r], stage, seq_ranks, r)
    BY <1>4, <1>7, Zenon DEF ServTypes, Reported
  <2>2. \A p \in Req : stage[p] # "sent" => stage2[p] = stage[p]
    BY <1>8, <1>10, Zenon
  <2>3. ToldBy(results[r], stage2, seq_ranks, r)
    BY <2>1, <2>2, ToldBySame
  <2>4. QED  BY <1>3, <2>3, ZenonT(30)
<1>17. ASSUME NEW p \in Req
       PROVE  HeldBy(p, stage2[p])' /\ CountedFor(p, stage2[p])'
  <2>1. HeldBy(p, stage[p]) /\ CountedFor(p, stage[p])
    BY <1>1, Zenon DEF Whole
  <2>2. CASE p # q
    <3>1. stage2[p] = stage[p] /\ forced'[p] = forced[p]
      BY <1>3, <1>4, <1>5, <1>10, <2>2, ZenonT(30) DEF ServTypes
    <3>2. QED  BY <1>3, <2>1, <3>1, SameHeld, SameCounted, ZenonT(30)
  <2>3. CASE p = q
    <3>1. /\ blocks[q] = 0 /\ seq_len[q] = 0 /\ q \notin stash_slots
          /\ output_len[q] = 0 /\ forced[q] = 0 /\ token_streams[q] = 0
      BY <1>8, <2>1, <2>3, ZenonT(30) DEF HeldBy, CountedFor
    <3>2. CASE sampler = "mooncake"
      <4>1. HeldBy(q, "loading")' /\ CountedFor(q, "loading")'
        BY <1>3, <3>1, <3>2, Zenon DEF HeldBy, CountedFor
      <4>2. QED  BY <1>9, <1>10, <2>3, <3>2, <4>1, ZenonT(30)
    <3>3. CASE sampler # "mooncake"
      <4>1. /\ forced'[q] = ForcedLen(q) /\ ForcedLen(q)' = ForcedLen(q)
            /\ MaxOutputLen(q)' = MaxOutputLen(q) /\ Loaded(q)'
        BY <1>3, <1>4, <1>5, <3>3, ZenonT(30) DEF ServTypes, ForcedLen, MaxOutputLen, Loaded
      <4>2. HeldBy(q, "layer0")'
        BY <1>3, <1>11, <3>1, <3>3, <4>1 DEF HeldBy
      <4>3. Told(q)' = 0
        <5>1. ToldBy(results[r], stage, seq_ranks, r)
          BY <1>7, Zenon DEF Reported
        <5>2. Mentions(results[r], q) = {}
          BY <1>8, <5>1, Zenon DEF ToldBy, Mentions
        <5>3. QED  BY <1>3, <1>8, <5>2, FS_EmptySet, Zenon DEF Told
      <4>4. CountedFor(q, "layer0")'
        BY <1>3, <1>11, <3>1, <3>3, <4>1, <4>3, SMTT(30) DEF CountedFor, TokensDone
      <4>5. QED  BY <1>9, <1>10, <2>3, <3>3, <4>2, <4>4, ZenonT(30)
    <3>4. QED  BY <3>2, <3>3, Zenon
  <2>4. QED  BY <2>2, <2>3, ZenonT(30)
<1>18. Whole(stage2)'
  <2>1. Moves({q}, stage, stage2, seq_ranks, r)
    BY <1>5, <1>8, <1>10, Zenon DEF Moves
  <2>2. OthersKept(r)
    BY <1>3, <1>4, <1>5, ZenonT(30) DEF ServTypes, OthersKept
  <2>3. Accounted(stage2)'
    BY <1>17, Zenon DEF Accounted
  <2>4. QED  BY <1>1, <1>4, <1>15, <1>16, <2>1, <2>2, <2>3, EngineFrame, ZenonT(30)
<1>19. Pool' /\ AllocSafe'
  BY <1>3, <1>4, Zenon DEF Pool, AllocSafe
<1>20. QED  BY <1>6, <1>12, <1>18, <1>19, ZenonT(30) DEF ServingIInv

(* A KV load ends: the request is admitted with its blocks, or rejected;     *)
(* blocks taken for a rejected request are lost.                             *)
LEMMA DrainServes ==
    ASSUME ServingIInv, NEW r \in Rank, NEW q \in loading[r],
           NEW ok \in BOOLEAN, NEW copied \in BOOLEAN, DrainKVLoad(r, q, ok, copied)
    PROVE  ServingIInv'
<1> DEFINE taken == IF ok /\ Pages(q) <= num_free[r] THEN Pages(q) ELSE 0
           installed == /\ ok /\ Pages(q) <= num_free[r]
                        /\ copied \/ Pages(q) = 0
           admits == installed /\ Aligned(q)
           e == [req_ids |-> {q}, eos |-> {q}]
<1>1. PICK stage : Whole(stage)
  BY Zenon DEF ServingIInv
<1>2. /\ status[r] = "up" /\ loading' = [loading EXCEPT ![r] = @ \ {q}]
      /\ num_free' = [num_free EXCEPT ![r] = @ - taken]
      /\ \/ /\ admits
            /\ blocks' = [blocks EXCEPT ![q] = taken]
            /\ forced' = [forced EXCEPT ![q] = ForcedLen(q)]
            /\ layer0' = [layer0 EXCEPT ![r] = Append(@, q)]
            /\ UNCHANGED <<lost, results>>
         \/ /\ ~admits
            /\ lost' = [lost EXCEPT ![r] = @ + taken]
            /\ results' = [results EXCEPT ![r] = Append(@, e)]
            /\ UNCHANGED <<blocks, forced, layer0>>
      /\ UNCHANGED <<schedVars, sampler, status, transit, seq_len, stash_slots, output_len,
                     token_streams, finished_seqs, fetched, resolved>>
  BY Zenon DEF DrainKVLoad, AdmitRequest
<1> HIDE DEF taken, admits
<1>3. SchedIInv' /\ SchedIInv /\ SchedTypes /\ ServTypes /\ Pool /\ AllocSafe
  BY <1>2, SchedStutters, Zenon DEF ServingIInv, SchedIInv
<1>4. UNCHANGED <<policy, fresh, waiting_queue, got, seq_ranks, sent>>
  BY <1>2, Zenon DEF schedVars
<1>5. Queued(stage) /\ Located(stage) /\ Reported(stage) /\ stage \in [Req -> Stages]
  BY <1>1, Zenon DEF Whole
<1>6. /\ LocatedAt(stage, r) /\ layer0[r] \in Seq(Req) /\ loading[r] \in SUBSET Req
      /\ transit[r] \in SUBSET Req /\ sent[r] \in Seq(Req) /\ results[r] \in Seq(Result)
      /\ ToldBy(results[r], stage, seq_ranks, r)
  BY <1>3, <1>5, Zenon DEF Located, ServTypes, SchedTypes, Reported
<1>7. q \in Req /\ stage[q] = "loading" /\ seq_ranks[q] = r /\ sampler = "mooncake"
  BY <1>6, Zenon DEF LocatedAt
<1>8. taken \in Nat /\ num_free[r] - taken \in Nat
  <2>1. Pages(q) \in Nat /\ num_free[r] \in Nat
    BY <1>3, <1>7, AlignedPages, Zenon DEF ServTypes
  <2>2. QED  BY <2>1 DEF taken
<1>9. /\ blocks[q] = 0 /\ seq_len[q] = 0 /\ q \notin stash_slots
      /\ output_len[q] = 0 /\ forced[q] = 0 /\ token_streams[q] = 0
  BY <1>1, <1>7, Zenon DEF Whole, HeldBy, CountedFor
<1>10. Mentions(results[r], q) = {}
  BY <1>6, <1>7, Zenon DEF ToldBy, Mentions
<1>11. /\ loading \in [Rank -> SUBSET Req] /\ loading[r] \ {q} \in SUBSET Req
       /\ Append(layer0[r], q) \in Seq(Req) /\ layer0 \in [Rank -> Seq(Req)]
       /\ num_free \in [Rank -> Nat] /\ blocks \in [Req -> Nat] /\ forced \in [Req -> Nat]
       /\ lost \in [Rank -> Nat] /\ results \in [Rank -> Seq(Result)]
       /\ num_free' \in [Rank -> Nat]
       /\ loading'[r] = loading[r] \ {q} /\ loading' \in [Rank -> SUBSET Req]
  <2>1. loading \in [Rank -> SUBSET Req] /\ loading[r] \ {q} \in SUBSET Req
    BY <1>3, <1>6, ZenonT(30) DEF ServTypes
  <2>2. Append(layer0[r], q) \in Seq(Req)
    BY <1>6, <1>7
  <2>3. num_free' \in [Rank -> Nat]
    BY <1>2, <1>3, <1>8, ZenonT(30) DEF ServTypes
  <2>4. QED  BY <1>2, <1>3, <2>1, <2>2, <2>3, ZenonT(30) DEF ServTypes
<1>12. CASE admits
  <2>1. /\ blocks' = [blocks EXCEPT ![q] = taken]
        /\ forced' = [forced EXCEPT ![q] = ForcedLen(q)]
        /\ layer0' = [layer0 EXCEPT ![r] = Append(@, q)]
        /\ UNCHANGED <<lost, results>>
        /\ taken = BlocksFor(Prefill[q]) /\ Loaded(q) /\ Aligned(q)
        /\ PrefillLen(q) \in Nat /\ ForcedLen(q) \in Nat /\ MaxOutputLen(q) \in Nat \ {0}
        /\ PrefillLen(q) = Prefill[q]
    <3>1. Aligned(q) /\ taken = Pages(q) /\ Loaded(q)
      BY <1>12, Zenon DEF admits, taken, Loaded
    <3>2. taken = BlocksFor(Prefill[q])
      BY <1>7, <3>1, AlignedPages, Zenon
    <3>3. /\ PrefillLen(q) \in Nat /\ ForcedLen(q) \in Nat /\ MaxOutputLen(q) \in Nat \ {0}
          /\ PrefillLen(q) = Prefill[q]
      BY <1>3, <1>7, <3>1, RequestTypes, ZenonT(30)
    <3>4. QED  BY <1>2, <1>12, <3>1, <3>2, <3>3, Zenon
  <2>2. ServTypes'
    <3>1. blocks' \in [Req -> Nat] /\ forced' \in [Req -> Nat]
      BY <1>8, <1>11, <2>1, ZenonT(30)
    <3>2. layer0' \in [Rank -> Seq(Req)]
      BY <1>11, <2>1, Zenon
    <3>3. QED  BY <1>2, <1>3, <1>11, <2>1, <3>1, <3>2, ZenonT(30) DEF ServTypes
  <2>3. PICK stage2 : stage2 = [stage EXCEPT ![q] = "layer0"]
    BY Zenon
  <2>4. /\ stage2 \in [Req -> Stages] /\ stage2[q] = "layer0"
        /\ \A p \in Req : p # q => stage2[p] = stage[p]
    BY <1>5, <1>7, <2>3, ZenonT(30) DEF Stages
  <2>5. LocatedAt(stage2, r)'
    <3>1. Enters(q, stage, stage2, "layer0", seq_ranks, seq_ranks, r)
      BY <1>7, <2>4, Zenon DEF Enters
    <3>2. Pushed(layer0[r], q, layer0'[r])
      BY <1>11, <2>1, Zenon DEF Pushed
    <3>3. /\ HeldIn(layer0[r], stage, "layer0", seq_ranks, r)
          /\ HeldIn(sent[r], stage, "sent", seq_ranks, r)
      BY <1>6, Zenon DEF LocatedAt
    <3>4. HeldIn(layer0'[r], stage2, "layer0", seq_ranks, r)
      BY <1>6, <1>7, <3>1, <3>2, <3>3, HeldInAppend, ZenonT(30)
    <3>5. \A p \in Req : stage[p] = "sent" => stage2[p] = "sent"
      BY <1>7, <2>4, Zenon
    <3>6. HeldIn(sent[r], stage2, "sent", seq_ranks, r)
      BY <1>6, <3>3, <3>5, HeldInSame, ZenonT(30)
    <3>7. \A p \in loading'[r] : stage2[p] = "loading" /\ seq_ranks[p] = r /\ sampler = "mooncake"
      BY <1>6, <1>11, <2>4, ZenonT(30) DEF LocatedAt
    <3>8. \A p \in transit[r] : stage2[p] = "transit" /\ seq_ranks[p] = r
      BY <1>6, <1>7, <2>4, ZenonT(30) DEF LocatedAt
    <3>9. \A p \in Req : stage2[p] = "lost" => stage[p] = "lost"
      BY <2>4, Zenon
    <3>10. QED  BY <1>2, <1>4, <1>6, <3>4, <3>6, <3>7, <3>8, <3>9, ZenonT(30) DEF LocatedAt
  <2>6. ToldBy(results'[r], stage2, seq_ranks, r)
    <3>1. \A p \in Req : stage[p] # "loading" => stage2[p] = stage[p]
      BY <1>7, <2>4, ZenonT(30)
    <3>2. ToldBy(results[r], stage2, seq_ranks, r)
      BY <1>6, <3>1, ToldBySame, SMTT(30)
    <3>3. QED  BY <2>1, <3>2, Zenon
  <2>7. ASSUME NEW p \in Req
        PROVE  HeldBy(p, stage2[p])' /\ CountedFor(p, stage2[p])'
    <3>1. HeldBy(p, stage[p]) /\ CountedFor(p, stage[p])
      BY <1>1, Zenon DEF Whole
    <3>2. CASE p # q
      <4>1. stage2[p] = stage[p] /\ forced'[p] = forced[p] /\ blocks'[p] = blocks[p]
        BY <1>11, <2>1, <2>4, <3>2, ZenonT(30)
      <4>2. QED  BY <1>2, <1>4, <2>1, <3>1, <4>1, SameHeld, SameCounted, ZenonT(30)
    <3>3. CASE p = q
      <4>1. /\ forced'[q] = ForcedLen(q) /\ ForcedLen(q)' = ForcedLen(q)
            /\ MaxOutputLen(q)' = MaxOutputLen(q) /\ PrefillLen(q)' = Prefill[q]
            /\ blocks'[q] = BlocksFor(Prefill[q]) /\ Loaded(q)'
        BY <1>2, <1>7, <1>11, <2>1, ZenonT(30) DEF ForcedLen, MaxOutputLen, PrefillLen, Loaded
      <4>2. HeldBy(q, "layer0")'
        BY <1>2, <1>7, <1>9, <2>1, <4>1, SMTT(30) DEF HeldBy
      <4>3. Told(q)' = 0
        BY <1>4, <1>7, <1>10, <2>1, FS_EmptySet, ZenonT(30) DEF Told
      <4>4. CountedFor(q, "layer0")'
        BY <1>2, <1>9, <2>1, <4>1, <4>3, SMTT(30) DEF CountedFor, TokensDone
      <4>5. QED  BY <2>4, <3>3, <4>2, <4>4, ZenonT(30)
    <3>4. QED  BY <3>2, <3>3, Zenon
  <2>8. Whole(stage2)'
    <3>1. Moves({q}, stage, stage2, seq_ranks, r)
      BY <1>7, <2>4, Zenon DEF Moves
    <3>2. OthersKept(r)
      BY <1>2, <1>4, <1>11, <2>1, ZenonT(30) DEF OthersKept
    <3>3. Accounted(stage2)'
      BY <2>7, Zenon DEF Accounted
    <3>4. QED  BY <1>1, <1>3, <2>5, <2>6, <3>1, <3>2, <3>3, EngineFrame, ZenonT(30)
  <2>9. Pool'
    <3>1. SUFFICES ASSUME NEW k \in Rank, status[k] = "up"
                   PROVE  num_free'[k] + lost[k] + InUse(blocks', seq_ranks, k) = Capacity[k]
      BY <1>2, <1>3, <1>4, <2>1, Zenon DEF Pool
    <3> DEFINE S == On(Req, seq_ranks, k)
    <3>2. /\ IsFiniteSet(S) /\ S \in SUBSET Req /\ Capacity[k] \in Nat
          /\ num_free[k] + lost[k] + SumFunctionOnSet(blocks, S) = Capacity[k]
      BY <1>3, <3>1, OnRank, ZenonT(30) DEF Pool, InUse
    <3>3. \A x \in S : blocks[x] \in Nat /\ blocks'[x] \in Nat
      BY <1>8, <1>11, <2>1, <3>2, ZenonT(30)
    <3>4. CASE k # r
      <4>1. \A x \in S : blocks'[x] = blocks[x]
        BY <1>7, <1>11, <2>1, <3>4, ZenonT(30) DEF On
      <4> HIDE DEF S
      <4>2. SumFunctionOnSet(blocks', S) = SumFunctionOnSet(blocks, S)
        BY <3>2, <3>3, <4>1, SumSame, ZenonT(30)
      <4>3. num_free'[k] = num_free[k]
        BY <1>2, <1>11, <3>4, ZenonT(30)
      <4>4. QED  BY <3>2, <4>2, <4>3, ZenonT(30) DEF InUse, S
    <3>5. CASE k = r
      <4>1. q \in S
        BY <1>7, <3>5, Zenon DEF On
      <4>2. blocks'[q] = taken /\ \A x \in S \ {q} : blocks'[x] = blocks[x]
        BY <1>7, <1>11, <2>1, <3>2, ZenonT(30)
      <4> HIDE DEF S
      <4>3. /\ SumFunctionOnSet(blocks', S) = blocks'[q] + SumFunctionOnSet(blocks', S \ {q})
            /\ SumFunctionOnSet(blocks, S) = blocks[q] + SumFunctionOnSet(blocks, S \ {q})
        BY <3>2, <3>3, <4>1, SumRest, ZenonT(30)
      <4>4. IsFiniteSet(S \ {q}) /\ S \ {q} \in SUBSET S
        BY <3>2, FS_RemoveElement, Zenon
      <4>5. \A x \in S \ {q} : blocks[x] \in Nat /\ blocks'[x] = blocks[x]
        BY <3>3, <4>2, Zenon
      <4>6. SumFunctionOnSet(blocks', S \ {q}) = SumFunctionOnSet(blocks, S \ {q})
        BY <4>4, <4>5, SumSame, Zenon
      <4>7. SumFunctionOnSet(blocks, S \ {q}) \in Nat
        BY <4>4, <4>5, SumType, Zenon
      <4>8. num_free'[k] = num_free[k] - taken /\ num_free[k] \in Nat /\ lost[k] \in Nat
        BY <1>2, <1>11, <3>5, ZenonT(30)
      <4>9. num_free'[k] + lost[k] + SumFunctionOnSet(blocks', S) = Capacity[k]
        BY <1>8, <1>9, <3>2, <4>2, <4>3, <4>6, <4>7, <4>8, SMTT(30)
      <4>10. QED  BY <4>9, Zenon DEF InUse, S
    <3>6. QED  BY <3>4, <3>5, Zenon
  <2>10. AllocSafe'
    BY <1>2, <1>3, <1>4, Zenon DEF AllocSafe
  <2>11. QED  BY <1>3, <2>2, <2>8, <2>9, <2>10, ZenonT(30) DEF ServingIInv
<1>13. CASE ~admits
  <2>1. /\ results' = [results EXCEPT ![r] = Append(@, e)]
        /\ lost' = [lost EXCEPT ![r] = @ + taken]
        /\ UNCHANGED <<blocks, forced, layer0>>
    BY <1>2, <1>13, ZenonT(30)
  <2>2. e \in Result /\ Append(results[r], e) \in Seq(Result)
    <3>1. e \in Result
      BY <1>7, Zenon DEF Result
    <3> HIDE DEF e
    <3>2. QED  BY <1>6, <3>1
  <2>3. ServTypes'
    <3>1. results' \in [Rank -> Seq(Result)]
      BY <1>11, <2>1, <2>2, ZenonT(30)
    <3>2. lost[r] + taken \in Nat
      BY <1>8, <1>11
    <3>3. lost' \in [Rank -> Nat]
      BY <1>11, <2>1, <3>2, ZenonT(30)
    <3> HIDE DEF e
    <3>4. QED  BY <1>2, <1>3, <1>11, <2>1, <3>1, <3>3, ZenonT(30) DEF ServTypes
  <2>4. PICK stage2 : stage2 = [stage EXCEPT ![q] = "reported"]
    BY Zenon
  <2>5. /\ stage2 \in [Req -> Stages] /\ stage2[q] = "reported"
        /\ \A p \in Req : p # q => stage2[p] = stage[p]
    BY <1>5, <1>7, <2>4, ZenonT(30) DEF Stages
  <2>6. LocatedAt(stage2, r)'
    <3>1. /\ HeldIn(layer0[r], stage, "layer0", seq_ranks, r)
          /\ HeldIn(sent[r], stage, "sent", seq_ranks, r)
      BY <1>6, Zenon DEF LocatedAt
    <3>2. \A p \in Req : stage[p] # "loading" => stage2[p] = stage[p]
      BY <1>7, <2>5, ZenonT(30)
    <3>3. HeldIn(layer0[r], stage2, "layer0", seq_ranks, r)
      BY <1>6, <3>1, <3>2, HeldInSame, SMTT(30)
    <3>4. HeldIn(sent[r], stage2, "sent", seq_ranks, r)
      BY <1>6, <3>1, <3>2, HeldInSame, SMTT(30)
    <3>5. \A p \in loading'[r] : stage2[p] = "loading" /\ seq_ranks[p] = r /\ sampler = "mooncake"
      BY <1>6, <1>11, <2>5, ZenonT(30) DEF LocatedAt
    <3>6. \A p \in transit[r] : stage2[p] = "transit" /\ seq_ranks[p] = r
      BY <1>6, <1>7, <2>5, ZenonT(30) DEF LocatedAt
    <3>7. \A p \in Req : stage2[p] = "lost" => stage[p] = "lost"
      BY <2>5, ZenonT(30)
    <3>8. QED  BY <1>2, <1>4, <1>6, <2>1, <3>3, <3>4, <3>5, <3>6, <3>7, ZenonT(30) DEF LocatedAt
  <2>7. ToldBy(results'[r], stage2, seq_ranks, r)
    <3>1. \A p \in Req : stage[p] # "loading" => stage2[p] = stage[p]
      BY <1>7, <2>5, Zenon
    <3>2. ToldBy(results[r], stage2, seq_ranks, r)
      BY <1>6, <3>1, ToldBySame
    <3>3. /\ DOMAIN results'[r] = 1 .. Len(results[r]) + 1
          /\ DOMAIN results[r] = 1 .. Len(results[r]) /\ Len(results[r]) \in Nat
          /\ results'[r][Len(results[r]) + 1] = e
          /\ \A i \in 1 .. Len(results[r]) : results'[r][i] = results[r][i]
      <4>1. results'[r] = Append(results[r], e)
        BY <1>11, <2>1, ZenonT(30)
      <4> HIDE DEF e
      <4>2. QED  BY <1>6, <4>1, SMTT(30)
    <3>4. \A i \in DOMAIN results[r] : q \notin results[r][i].req_ids
      BY <1>10, Zenon DEF Mentions
    <3>5. \A i \in DOMAIN results[r] : q \notin results[r][i].eos
      BY <3>2, <3>4, ZenonT(30) DEF ToldBy
    <3>6. ASSUME NEW i \in DOMAIN results'[r]
          PROVE  /\ \A p \in results'[r][i].req_ids :
                       seq_ranks[p] = r /\ stage2[p] \in {"layer0", "transit", "lost", "reported"}
                 /\ \A p \in results'[r][i].eos :
                       /\ p \in results'[r][i].req_ids /\ stage2[p] = "reported"
                       /\ \A j \in DOMAIN results'[r] : j > i => p \notin results'[r][j].req_ids
      <4>1. CASE i = Len(results[r]) + 1
        BY <1>7, <2>5, <3>3, <4>1, SMTT(30)
      <4>2. CASE i # Len(results[r]) + 1
        <5>1. i \in DOMAIN results[r] /\ results'[r][i] = results[r][i]
          BY <3>3, <4>2, SMTT(30)
        <5>2. \A p \in results[r][i].eos : p # q
          BY <3>5, <5>1, ZenonT(30)
        <5>3. \A j \in DOMAIN results'[r] : \/ j \in DOMAIN results[r] /\ results'[r][j] = results[r][j]
                                            \/ results'[r][j].req_ids = {q}
          BY <3>3, SMTT(30)
        <5>4. QED  BY <3>2, <5>1, <5>2, <5>3, SMTT(30) DEF ToldBy
      <4>3. QED  BY <4>1, <4>2, ZenonT(30)
    <3>7. QED  BY <3>6, SMTT(30) DEF ToldBy
  <2>8. ASSUME NEW p \in Req
        PROVE  HeldBy(p, stage2[p])' /\ CountedFor(p, stage2[p])'
    <3>1. HeldBy(p, stage[p]) /\ CountedFor(p, stage[p])
      BY <1>1, Zenon DEF Whole
    <3>2. HeldBy(p, stage2[p])'
      <4>1. HeldBy(p, stage2[p])
        BY <1>7, <1>9, <2>5, <3>1, ZenonT(30) DEF HeldBy
      <4>2. QED  BY <1>2, <2>1, <4>1, SameHeld, ZenonT(30)
    <3>3. CASE seq_ranks[p] \notin Rank
      <4>1. seq_ranks[p] = -1 /\ p # q
        BY <1>3, <1>7, <3>3, ZenonT(30) DEF SchedTypes
      <4>2. stage[p] \in {"none", "done"} /\ stage2[p] = stage[p]
        BY <1>5, <2>5, <4>1, ZenonT(30) DEF Queued
      <4>3. QED  BY <1>2, <2>1, <3>1, <3>2, <4>2, ZenonT(30) DEF CountedFor, Total, ForcedLen
    <3>4. CASE seq_ranks[p] \in Rank /\ seq_ranks[p] # r
      <4>1. results'[seq_ranks'[p]] = results[seq_ranks[p]] /\ stage2[p] = stage[p]
        BY <1>4, <1>7, <1>11, <2>1, <2>5, <3>4, SMTT(30)
      <4>2. QED  BY <1>2, <2>1, <3>1, <3>2, <4>1, SameCounted, ZenonT(30)
    <3>5. CASE seq_ranks[p] = r
      <4>1. Told(p)' = Told(p) + (IF p \in e.req_ids THEN 1 ELSE 0)
        <5>1. Told(p) = Cardinality(Mentions(results[r], p))
          BY <3>5, Zenon DEF Told
        <5>2. Told(p)' = Cardinality(Mentions(Append(results[r], e), p))
          BY <1>4, <1>11, <2>1, <3>5, ZenonT(30) DEF Told
        <5> HIDE DEF e
        <5>3. QED  BY <1>6, <2>2, <5>1, <5>2, MentionsAppend, ZenonT(30)
      <4>2. Told(p) \in Nat
        BY <1>6, <3>5, MentionsType, ZenonT(30) DEF Told
      <4>3. Total(p)' = Total(p) /\ TokensDone(p)' = TokensDone(p) /\ token_streams' = token_streams
        BY <1>2, <2>1 DEF Total, TokensDone, ForcedLen
      <4>4. CASE p # q
        <5>1. Told(p)' = Told(p) /\ stage2[p] = stage[p]
          BY <2>5, <4>1, <4>2, <4>4, SMTT(30)
        <5>2. QED  BY <3>1, <3>2, <4>3, <5>1, ZenonT(30) DEF CountedFor
      <4>5. CASE p = q
        <5>1. Told(q) = 0
          BY <1>7, <1>10, FS_EmptySet, ZenonT(30) DEF Told
        <5>2. Told(q)' = 1
          BY <4>1, <4>5, <5>1, SMTT(30)
        <5>3. Total(q)' = 1
          BY <1>2, <1>9, ZenonT(30) DEF Total
        <5>4. CountedFor(q, "reported")'
          BY <1>2, <1>9, <5>2, <5>3, SMTT(30) DEF CountedFor
        <5>5. QED  BY <2>5, <3>2, <4>5, <5>4, ZenonT(30)
      <4>6. QED  BY <4>4, <4>5, Zenon
    <3>6. QED  BY <3>3, <3>4, <3>5, Zenon
  <2>9. Whole(stage2)'
    <3>1. Moves({q}, stage, stage2, seq_ranks, r)
      BY <1>7, <2>5, Zenon DEF Moves
    <3>2. OthersKept(r)
      <4> HIDE DEF e
      <4>1. QED  BY <1>2, <1>4, <1>11, <2>1, ZenonT(30) DEF OthersKept
    <3>3. Accounted(stage2)'
      BY <2>8, Zenon DEF Accounted
    <3>4. QED  BY <1>1, <1>3, <2>6, <2>7, <3>1, <3>2, <3>3, EngineFrame, Zenon
  <2>10. Pool'
    <3> HIDE DEF e
    <3>1. SUFFICES ASSUME NEW k \in Rank
                   PROVE  num_free'[k] + lost'[k] = num_free[k] + lost[k]
      BY <1>2, <1>3, <1>4, <1>7, <2>1, ZenonT(30) DEF Pool
    <3>2. CASE k # r
      BY <1>2, <1>11, <2>1, <3>2, ZenonT(30)
    <3>3. CASE k = r
      <4>1. num_free'[k] = num_free[k] - taken /\ lost'[k] = lost[k] + taken
        BY <1>2, <1>11, <2>1, <3>3, ZenonT(30)
      <4>2. num_free[k] \in Nat /\ lost[k] \in Nat
        BY <1>11, Zenon
      <4>3. QED  BY <1>8, <4>1, <4>2
    <3>4. QED  BY <3>2, <3>3, Zenon
  <2>11. AllocSafe'
    BY <1>2, <1>3, <1>4, Zenon DEF AllocSafe
  <2>12. QED  BY <1>3, <2>3, <2>9, <2>10, <2>11, ZenonT(30) DEF ServingIInv
<1>14. QED  BY <1>12, <1>13, Zenon

-----------------------------------------------------------------------------
\* The batch of a step in the first layer, its new requests, and the blocks
\* its prompts take.
FirstOf(s, n) == {s[i] : i \in 1 .. n}
Starting(batch) == {q \in batch : seq_len[q] = 0}
PromptBlocks(init) == [q \in Req |-> IF q \in init /\ sampler # "mooncake"
                                     THEN BlocksFor(PrefillLen(q)) ELSE 0]
\* use2 is what is in use after the step.
StepOf(S, init, grow, use, pre, use2) ==
    /\ \A q \in S : /\ use[q] \in Nat /\ pre[q] \in Nat
                    /\ use2[q] = use[q] + pre[q] + (IF q \in grow THEN 1 ELSE 0)
    /\ \A q \in S \ init : pre[q] = 0

(* The first n requests of layer 0 are requests of this rank, and none of    *)
(* them is among the others.                                                 *)
LEMMA BatchOf ==
    ASSUME NEW stage, NEW r \in Rank, LocatedAt(stage, r), layer0[r] \in Seq(Req),
           NEW n \in 1 .. Len(layer0[r]), NEW batch, batch = FirstOf(layer0[r], n)
    PROVE  /\ batch \in SUBSET Req
           /\ \A q \in batch : stage[q] = "layer0" /\ seq_ranks[q] = r
           /\ \A i \in n + 1 .. Len(layer0[r]) : layer0[r][i] \notin batch
<1> USE DEF FirstOf
<1>1. /\ \A i \in 1 .. Len(layer0[r]) : /\ layer0[r][i] \in Req /\ stage[layer0[r][i]] = "layer0"
                                        /\ seq_ranks[layer0[r][i]] = r
      /\ \A i, j \in 1 .. Len(layer0[r]) : layer0[r][i] = layer0[r][j] => i = j
  BY DEF LocatedAt, HeldIn
<1>2. \A i \in 1 .. n : i \in 1 .. Len(layer0[r])
  OBVIOUS
<1>3. \A i \in n + 1 .. Len(layer0[r]) : i \in 1 .. Len(layer0[r]) /\ i \notin 1 .. n
  OBVIOUS
<1>4. \A q \in batch : q \in Req /\ stage[q] = "layer0" /\ seq_ranks[q] = r
  BY <1>1, <1>2
<1>5. ASSUME NEW i \in n + 1 .. Len(layer0[r]), layer0[r][i] \in batch
      PROVE  FALSE
  <2>1. PICK j \in 1 .. n : layer0[r][i] = layer0[r][j]
    BY <1>5, Zenon
  <2>2. QED  BY <1>1, <1>2, <1>3, <2>1, Zenon
<1>6. QED  BY <1>4, <1>5, Zenon

(* Before its step in the first layer a request has the blocks of its        *)
(* context once its prompt is allocated.                                     *)
LEMMA ContextBlocks ==
    ASSUME SchedTypes, ServTypes, NEW q \in Req, HeldBy(q, "layer0"),
           NEW context, context = IF seq_len[q] = 0 THEN PrefillLen(q) ELSE seq_len[q],
           NEW pre, pre = IF seq_len[q] = 0 /\ sampler # "mooncake"
                          THEN BlocksFor(PrefillLen(q)) ELSE 0
    PROVE  /\ context \in Nat /\ pre \in Nat /\ BlocksFor(context) \in Nat
           /\ blocks[q] + pre = BlocksFor(context)
           /\ context = PrefillLen(q) + TokensDone(q)
           /\ TokensDone(q) \in Nat
           /\ context < PrefillLen(q) + ForcedLen(q) + MaxOutputLen(q)
<1>1. /\ PrefillLen(q) \in Nat /\ ForcedLen(q) \in Nat /\ MaxOutputLen(q) \in Nat \ {0}
      /\ BlocksFor(PrefillLen(q)) \in Nat
  <2>1. Loaded(q)
    BY Zenon DEF HeldBy
  <2>2. QED  BY <2>1, RequestTypes, BlocksForSuccessor, Zenon
<1>2. /\ blocks[q] \in Nat /\ seq_len[q] \in Nat /\ output_len[q] \in Nat /\ forced[q] \in Nat
      /\ BlocksFor(seq_len[q]) \in Nat
  BY BlocksForSuccessor, Zenon DEF ServTypes
<1>3. /\ output_len[q] < MaxOutputLen(q) /\ forced[q] <= ForcedLen(q)
      /\ forced[q] > 0 => output_len[q] = 0
  BY Zenon DEF HeldBy
<1>4. CASE seq_len[q] = 0
  <2>1. /\ blocks[q] = IF sampler = "mooncake" THEN BlocksFor(PrefillLen(q)) ELSE 0
        /\ output_len[q] = 0 /\ forced[q] = ForcedLen(q)
    BY <1>4, Zenon DEF HeldBy
  <2>2. QED  BY <1>1, <1>2, <1>4, <2>1 DEF TokensDone
<1>5. CASE seq_len[q] # 0
  <2>1. blocks[q] = BlocksFor(seq_len[q]) /\ seq_len[q] = PrefillLen(q) + TokensDone(q)
    BY <1>2, <1>5 DEF HeldBy
  <2>2. QED  BY <1>1, <1>2, <1>3, <1>5, <2>1, SMTT(30) DEF TokensDone
<1>6. QED  BY <1>4, <1>5, Zenon

(* The blocks of one step in the first layer: those of the prompts and one   *)
(* for every request whose last block is full.                               *)
LEMMA StepBlocks ==
    ASSUME NEW S, IsFiniteSet(S), NEW init \in SUBSET S, NEW grow \in SUBSET S,
           NEW use, NEW pre, NEW use2, StepOf(S, init, grow, use, pre, use2)
    PROVE  /\ SumFunctionOnSet(pre, init) = SumFunctionOnSet(pre, S)
           /\ SumFunctionOnSet(use2, S)
                = SumFunctionOnSet(use, S) + SumFunctionOnSet(pre, init) + Cardinality(grow)
           /\ SumFunctionOnSet(use, S) \in Nat /\ SumFunctionOnSet(pre, init) \in Nat
           /\ Cardinality(grow) \in Nat
<1> USE DEF StepOf
<1>1. PICK one : one = [q \in S |-> IF q \in grow THEN 1 ELSE 0]
  BY Zenon
<1>2. PICK both : both = [q \in S |-> use[q] + pre[q]]
  BY Zenon
<1>3. /\ \A q \in S : use[q] \in Nat /\ pre[q] \in Nat /\ both[q] = use[q] + pre[q]
      /\ \A q \in S : one[q] = IF q \in grow THEN 1 ELSE 0
      /\ \A q \in S : both[q] \in Nat /\ one[q] \in Nat /\ use2[q] = both[q] + one[q]
  BY <1>1, <1>2
<1>4. SumFunctionOnSet(pre, S) = SumFunctionOnSet(pre, init)
  BY <1>3, SumSupport, Zenon
<1>5. SumFunctionOnSet(both, S) = SumFunctionOnSet(use, S) + SumFunctionOnSet(pre, S)
  BY <1>3, SumPlus
<1>6. SumFunctionOnSet(use2, S) = SumFunctionOnSet(both, S) + SumFunctionOnSet(one, S)
  BY <1>3, SumPlus
<1>7. SumFunctionOnSet(one, S) = Cardinality(grow)
  BY <1>3, SumOnes, Zenon
<1>8. SumFunctionOnSet(use, S) \in Nat /\ SumFunctionOnSet(pre, S) \in Nat
  BY <1>3, SumType, Zenon
<1>9. Cardinality(grow) \in Nat
  BY FS_Subset, FS_CardinalityType, Zenon
<1>10. QED  BY <1>4, <1>5, <1>6, <1>7, <1>8, <1>9, ZenonT(30)

(* No prompt is allocated beyond the pool of the rank when its scheduler     *)
(* counts reservations: what the batch takes was reserved for it.  Only the  *)
(* dummy sampler allocates prompts here, and no block is lost without a KV   *)
(* store.                                                                    *)
LEMMA PromptsFit ==
    ASSUME SchedIInv, ServTypes, Pool, NEW stage, Whole(stage), NEW r \in Rank, status[r] = "up",
           NEW batch \in SUBSET Req, \A q \in batch : stage[q] = "layer0" /\ seq_ranks[q] = r,
           NEW init, init = Starting(batch), NEW pre, pre = PromptBlocks(init)
    PROVE  /\ \A q \in batch : Loaded(q) /\ HeldBy(q, "layer0") /\ CountedFor(q, "layer0")
           /\ pre \in [Req -> Nat] /\ \A q \in Req \ init : pre[q] = 0
           /\ policy # "RR" => SumFunctionOnSet(pre, init) <= num_free[r]
<1> USE DEF Starting, PromptBlocks
<1>1. SchedTypes /\ NoOverCommit
  BY Zenon DEF SchedIInv
<1>2. \A q \in batch : Loaded(q) /\ HeldBy(q, "layer0") /\ CountedFor(q, "layer0")
  <2>1. SUFFICES ASSUME NEW q \in batch
                 PROVE  Loaded(q) /\ HeldBy(q, "layer0") /\ CountedFor(q, "layer0")
    BY Zenon
  <2>2. HeldBy(q, "layer0") /\ CountedFor(q, "layer0")
    BY Zenon DEF Whole
  <2>3. QED  BY <2>2, Zenon DEF HeldBy
<1>3. ASSUME NEW q \in Req
      PROVE  /\ pre[q] \in Nat
             /\ q \notin init => pre[q] = 0
             /\ q \in batch /\ Declared(q) => blocks[q] + pre[q] <= Required[q]
  <2>1. CASE q \in batch
    <3>1. PICK context : context = IF seq_len[q] = 0 THEN PrefillLen(q) ELSE seq_len[q]
      BY Zenon
    <3>2. pre[q] = IF seq_len[q] = 0 /\ sampler # "mooncake" THEN BlocksFor(PrefillLen(q)) ELSE 0
      BY <2>1, Zenon
    <3>3. /\ context \in Nat /\ pre[q] \in Nat /\ blocks[q] + pre[q] = BlocksFor(context)
          /\ context < PrefillLen(q) + ForcedLen(q) + MaxOutputLen(q)
      BY <1>1, <1>2, <2>1, <3>1, <3>2, ContextBlocks, ZenonT(30)
    <3>4. context <= PrefillLen(q) + ForcedLen(q) + MaxOutputLen(q)
      <4>1. PrefillLen(q) \in Nat /\ ForcedLen(q) \in Nat /\ MaxOutputLen(q) \in Nat
        BY <1>1, <1>2, <2>1, RequestTypes, ZenonT(30)
      <4>2. QED  BY <3>3, <4>1
    <3>5. Declared(q) => BlocksFor(context) <= Required[q]
      BY <1>1, <1>2, <2>1, <3>3, <3>4, UseBound, ZenonT(30)
    <3>6. q \notin init => pre[q] = 0
      BY Zenon
    <3>7. QED  BY <3>3, <3>5, <3>6, Zenon
  <2>2. CASE q \notin batch
    BY <2>2, Zenon
  <2>3. QED  BY <2>1, <2>2, Zenon
<1>4. pre \in [Req -> Nat] /\ \A q \in Req \ init : pre[q] = 0
  <2>1. pre = [q \in Req |-> pre[q]]
    BY Zenon
  <2>2. QED  BY <1>3, <2>1, Zenon
<1>5. ASSUME sampler # "dummy"
      PROVE  SumFunctionOnSet(pre, init) <= num_free[r]
  <2>1. IsFiniteSet(init) /\ init \in SUBSET Req
    <3>1. init \in SUBSET Req /\ IsFiniteSet(Req)
      BY SchedAssumption, Zenon
    <3>2. QED  BY <3>1, FS_Subset, Zenon
  <2>2. sampler = "none" => \A q \in Req : BlocksFor(PrefillLen(q)) = 0
    <3>1. BlocksFor(0) = 0
      BY BlocksForMultiple, BlockSizeAssumption
    <3>2. QED  BY <3>1, Zenon DEF PrefillLen
  <2>3. \A q \in init : pre[q] = 0
    BY <1>5, <2>1, <2>2, ServingAssumption, Zenon DEF ServTypes
  <2>4. SumFunctionOnSet(pre, init) = 0 /\ num_free[r] \in Nat
    BY <2>1, <2>3, SumZero, Zenon DEF ServTypes
  <2>5. QED  BY <2>4
<1>6. ASSUME policy # "RR", sampler = "dummy"
      PROVE  SumFunctionOnSet(pre, init) <= num_free[r]
  <2> DEFINE S == On(Req, seq_ranks, r)
  <2>1. /\ S \in SUBSET Req /\ IsFiniteSet(S) /\ kv_cache_stats[r] \in Int
        /\ \A q \in S : q \in Req /\ seq_ranks[q] = r
        /\ init \in SUBSET S
    BY <1>1, OnRank, Zenon DEF On
  <2> HIDE DEF S
  <2>2. \A q \in S : blocks[q] + pre[q] <= Required[q]
    <3>1. SUFFICES ASSUME NEW q \in S
                   PROVE  blocks[q] + pre[q] <= Required[q]
      BY Zenon
    <3>2. Declared(q)
      BY <1>6, Zenon DEF Declared
    <3>3. CASE q \in batch
      BY <1>3, <2>1, <3>2, <3>3, Zenon
    <3>4. CASE q \notin batch
      <4>1. blocks[q] <= Required[q] /\ pre[q] = 0 /\ blocks[q] \in Nat
        BY <1>1, <1>4, <2>1, <3>2, <3>4, HoldsReserved, Zenon DEF ServTypes
      <4>2. QED  BY <4>1
    <3>5. QED  BY <3>3, <3>4, Zenon
  <2>3. SumFunctionOnSet(pre, S) <= num_free[r] + lost[r] - kv_cache_stats[r]
    BY <1>4, <2>2, RoomFor, Zenon DEF S
  <2>4. SumFunctionOnSet(pre, S) = SumFunctionOnSet(pre, init)
    <3>1. \A q \in S : pre[q] \in Nat
      BY <1>4, <2>1, Zenon
    <3>2. \A q \in S \ init : pre[q] = 0
      BY <1>4, <2>1, Zenon
    <3>3. QED  BY <2>1, <3>1, <3>2, SumSupport, ZenonT(30)
  <2>5. /\ kv_cache_stats[r] >= 0 /\ num_free[r] \in Nat /\ lost[r] = 0
        /\ SumFunctionOnSet(pre, S) \in Nat
    <3>1. \A q \in S : pre[q] \in Nat
      BY <1>4, <2>1, Zenon
    <3>2. SumFunctionOnSet(pre, S) \in Nat
      BY <2>1, <3>1, SumType, Zenon
    <3>3. lost[r] \in Nat /\ ~ (lost[r] > 0)
      BY <1>6, Zenon DEF Pool, ServTypes
    <3>4. lost[r] = 0
      BY <3>3
    <3>5. QED  BY <1>1, <1>6, <3>2, <3>4, Zenon DEF NoOverCommit, ServTypes
  <2>6. QED  BY <2>1, <2>3, <2>4, <2>5
<1>7. QED  BY <1>2, <1>4, <1>5, <1>6, Zenon

(* A batch enters the first layer (allocate, append_tokens, stash): it moves *)
(* to transit, or is lost with the engine loop when an assertion fails.      *)
LEMMA AttnServes ==
    ASSUME ServingIInv, NEW r \in Rank, NEW n, AttnFirstLayer(r, n)
    PROVE  ServingIInv'
<1> DEFINE batch == {layer0[r][i] : i \in 1 .. n}
           init == {q \in batch : seq_len[q] = 0}
           context(q) == IF q \in init THEN PrefillLen(q) ELSE seq_len[q]
           pre == [q \in Req |-> IF q \in init /\ sampler # "mooncake"
                                 THEN BlocksFor(PrefillLen(q)) ELSE 0]
           alloc == SumFunctionOnSet(pre, init)
           grow == {q \in batch : NeedsBlock(context(q))}
           holders == {q \in stash_slots : seq_ranks[q] = r}
           allocates == alloc <= num_free[r]
           appends == \A k \in 1 .. Cardinality(grow) : AppendAssert(num_free[r] - alloc - (k - 1))
           stashes == Cardinality(holders \cup batch) <= MaxRunningReqs(r)
           outcome == CASE ~allocates -> "allocate"
                        [] allocates /\ ~appends -> "append_tokens"
                        [] allocates /\ appends /\ ~stashes -> "stash"
                        [] allocates /\ appends /\ stashes -> "up"
<1>1. PICK stage : Whole(stage)
  BY Zenon DEF ServingIInv
<1>2. /\ status[r] = "up" /\ n \in 1 .. Len(layer0[r])
      /\ status' = [status EXCEPT ![r] = outcome]
      /\ layer0' = [layer0 EXCEPT ![r] = SubSeq(@, n + 1, Len(@))]
      /\ \/ /\ outcome # "up"
            /\ UNCHANGED <<transit, num_free, blocks, seq_len, stash_slots>>
         \/ /\ outcome = "up"
            /\ transit' = [transit EXCEPT ![r] = @ \cup batch]
            /\ num_free' = [num_free EXCEPT ![r] = num_free[r] - alloc - Cardinality(grow)]
            /\ blocks' = [q \in Req |-> blocks[q] + pre[q] + (IF q \in grow THEN 1 ELSE 0)]
            /\ seq_len' = [q \in Req |-> IF q \in batch THEN context(q) + 1 ELSE seq_len[q]]
            /\ stash_slots' = stash_slots \cup batch
      /\ UNCHANGED <<schedVars, sampler, loading, lost, forced, output_len, resultVars>>
  BY Zenon DEF AttnFirstLayer
<1>3. /\ outcome \in {"up", "allocate", "append_tokens", "stash"}
      /\ outcome = "allocate" => ~ (alloc <= num_free[r])
      /\ outcome = "up" => alloc <= num_free[r] /\ appends
  <2> HIDE DEF appends, stashes, alloc
  <2>1. QED  BY Zenon DEF outcome, allocates
<1>4. /\ batch = {layer0[r][i] : i \in 1 .. n} /\ init = {q \in batch : seq_len[q] = 0}
      /\ pre = [q \in Req |-> IF q \in init /\ sampler # "mooncake"
                              THEN BlocksFor(PrefillLen(q)) ELSE 0]
      /\ alloc = SumFunctionOnSet(pre, init)
      /\ grow = {q \in batch : NeedsBlock(context(q))}
      /\ \A q \in batch : context(q) = IF seq_len[q] = 0 THEN PrefillLen(q) ELSE seq_len[q]
  BY Zenon
<1> HIDE DEF outcome, batch, init, context, pre, alloc, grow
<1>5. SchedIInv' /\ SchedIInv /\ SchedTypes /\ ServTypes /\ Pool /\ AllocSafe
  BY <1>2, SchedStutters, Zenon DEF ServingIInv, SchedIInv
<1>6. /\ UNCHANGED <<policy, fresh, waiting_queue, got, seq_ranks, sent>>
      /\ UNCHANGED <<results, token_streams, finished_seqs, fetched, resolved>>
  BY <1>2, Zenon DEF schedVars, resultVars
<1>7. /\ LocatedAt(stage, r) /\ ToldBy(results[r], stage, seq_ranks, r) /\ stage \in [Req -> Stages]
      /\ layer0[r] \in Seq(Req) /\ sent[r] \in Seq(Req) /\ results[r] \in Seq(Result)
      /\ transit[r] \in SUBSET Req /\ loading[r] \in SUBSET Req
  BY <1>1, <1>5, Zenon DEF Whole, Located, Reported, ServTypes, SchedTypes
<1>8. /\ batch \in SUBSET Req
      /\ \A q \in batch : stage[q] = "layer0" /\ seq_ranks[q] = r
      /\ \A i \in n + 1 .. Len(layer0[r]) : layer0[r][i] \notin batch
  <2>1. batch = FirstOf(layer0[r], n)
    BY <1>4, Zenon DEF FirstOf
  <2>2. n \in 1 .. Len(layer0[r]) /\ LocatedAt(stage, r) /\ layer0[r] \in Seq(Req)
    BY <1>2, <1>7, Zenon
  <2>3. QED  BY <2>1, <2>2, BatchOf, SMT
<1>9. /\ \A q \in batch : Loaded(q) /\ HeldBy(q, "layer0") /\ CountedFor(q, "layer0")
      /\ pre \in [Req -> Nat] /\ \A q \in Req \ init : pre[q] = 0
      /\ policy # "RR" => alloc <= num_free[r]
  <2>1. init = Starting(batch) /\ pre = PromptBlocks(init)
    BY <1>4, Zenon DEF Starting, PromptBlocks
  <2>3. batch \in SUBSET Req /\ \A q \in batch : stage[q] = "layer0" /\ seq_ranks[q] = r
    BY <1>8, ZenonT(30)
  <2>4. /\ \A q \in batch : Loaded(q) /\ HeldBy(q, "layer0") /\ CountedFor(q, "layer0")
        /\ pre \in [Req -> Nat] /\ \A q \in Req \ init : pre[q] = 0
        /\ policy # "RR" => SumFunctionOnSet(pre, init) <= num_free[r]
    <3>1. status[r] = "up" /\ Whole(stage) /\ SchedIInv /\ ServTypes /\ Pool
      BY <1>1, <1>2, <1>5, Zenon
    <3>2. QED  BY <2>1, <2>3, <3>1, PromptsFit, SMTT(30)
  <2>5. QED  BY <1>4, <2>4, Zenon
<1>10. PICK nst : nst = IF outcome = "up" THEN "transit" ELSE "lost"
  BY Zenon
<1>11. PICK stage2 : stage2 = [q \in Req |-> IF q \in batch THEN nst ELSE stage[q]]
  BY Zenon
<1>12. /\ nst \in {"transit", "lost"} /\ stage2 \in [Req -> Stages]
       /\ \A q \in batch : stage2[q] = nst
       /\ \A q \in Req : q \notin batch => stage2[q] = stage[q]
  BY <1>7, <1>8, <1>10, <1>11, Zenon DEF Stages
<1>13. layer0'[r] = SubSeq(layer0[r], n + 1, Len(layer0[r])) /\ status'[r] = outcome
  BY <1>2, <1>5, Zenon DEF ServTypes
<1>14. HeldIn(layer0'[r], stage2, "layer0", seq_ranks, r) /\ HeldIn(sent[r], stage2, "sent", seq_ranks, r)
  <2>1. HeldIn(layer0[r], stage, "layer0", seq_ranks, r) /\ HeldIn(sent[r], stage, "sent", seq_ranks, r)
    BY <1>7, Zenon DEF LocatedAt
  <2>2. \A i \in n + 1 .. Len(layer0[r]) : stage2[layer0[r][i]] = "layer0"
    <3>1. \A i \in n + 1 .. Len(layer0[r]) : i \in DOMAIN layer0[r] /\ layer0[r][i] \in Req
      BY <1>2, <1>7
    <3>2. QED  BY <1>8, <1>12, <2>1, <3>1, ZenonT(30) DEF HeldIn
  <2>3. Cut(layer0[r], n, layer0'[r]) /\ n \in 0 .. Len(layer0[r])
    BY <1>2, <1>13, SMTT(30) DEF Cut
  <2>4. HeldIn(layer0'[r], stage2, "layer0", seq_ranks, r)
    BY <1>7, <2>1, <2>2, <2>3, HeldInSubSeq, Zenon
  <2>5. \A q \in Req : stage[q] = "sent" => stage2[q] = "sent"
    BY <1>8, <1>12, Zenon
  <2>6. QED  BY <1>7, <2>1, <2>4, <2>5, HeldInSame, ZenonT(30)
<1>15. LocatedAt(stage2, r)'
  <2>1. \A q \in loading[r] : stage2[q] = "loading" /\ seq_ranks[q] = r /\ sampler = "mooncake"
    BY <1>7, <1>8, <1>12, Zenon DEF LocatedAt
  <2>2. \A q \in transit'[r] : stage2[q] = "transit" /\ seq_ranks[q] = r
    <3>1. \A q \in transit[r] : stage2[q] = "transit" /\ seq_ranks[q] = r
      BY <1>7, <1>8, <1>12, Zenon DEF LocatedAt
    <3>2. CASE outcome # "up"
      BY <1>2, <3>1, <3>2, Zenon
    <3>3. CASE outcome = "up"
      <4>1. transit'[r] = transit[r] \cup batch /\ nst = "transit"
        BY <1>2, <1>5, <1>10, <3>3, ZenonT(30) DEF ServTypes
      <4>2. QED  BY <1>8, <1>12, <3>1, <4>1, Zenon
    <3>4. QED  BY <3>2, <3>3, Zenon
  <2>3. \A q \in Req : stage2[q] = "lost" /\ seq_ranks[q] = r => outcome # "up"
    <3>1. \A q \in Req : seq_ranks[q] = r => stage[q] # "lost"
      BY <1>2, <1>7, Zenon DEF LocatedAt
    <3>2. QED  BY <1>10, <1>12, <3>1, Zenon
  <2>4. QED  BY <1>2, <1>6, <1>13, <1>14, <2>1, <2>2, <2>3, ZenonT(30) DEF LocatedAt
<1>16. ToldBy(results'[r], stage2, seq_ranks, r)
  <2>1. \A p \in Req :
          seq_ranks[p] = r /\ stage[p] \in {"layer0", "transit", "lost", "reported"} =>
            /\ stage2[p] \in {"layer0", "transit", "lost", "reported"}
            /\ stage[p] = "reported" => stage2[p] = "reported"
            /\ seq_ranks[p] = seq_ranks[p]
    BY <1>8, <1>12, Zenon
  <2>2. QED  BY <1>6, <1>7, <2>1, ToldBySame, ZenonT(30)

<1>17. /\ blocks \in [Req -> Nat] /\ seq_len \in [Req -> Nat] /\ output_len \in [Req -> Nat]
       /\ forced \in [Req -> Nat] /\ num_free \in [Rank -> Nat] /\ stash_slots \in SUBSET Req
       /\ lost \in [Rank -> Nat] /\ transit \in [Rank -> SUBSET Req] /\ layer0 \in [Rank -> Seq(Req)]
       /\ init \in SUBSET batch /\ grow \in SUBSET batch
  BY <1>4, <1>5, Zenon DEF ServTypes
<1>18. ASSUME NEW q \in batch
       PROVE  /\ context(q) \in Nat /\ pre[q] \in Nat /\ BlocksFor(context(q)) \in Nat
              /\ blocks[q] + pre[q] = BlocksFor(context(q))
              /\ context(q) = PrefillLen(q) + TokensDone(q)
              /\ TokensDone(q) \in Nat /\ PrefillLen(q) \in Nat
              /\ blocks[q] + pre[q] + (IF q \in grow THEN 1 ELSE 0) = BlocksFor(context(q) + 1)
  <2>1. q \in Req /\ Loaded(q) /\ HeldBy(q, "layer0")
    BY <1>8, <1>9, Zenon
  <2>2. context(q) = IF seq_len[q] = 0 THEN PrefillLen(q) ELSE seq_len[q]
    BY <1>4, Zenon
  <2>3. pre[q] = IF seq_len[q] = 0 /\ sampler # "mooncake" THEN BlocksFor(PrefillLen(q)) ELSE 0
    BY <1>4, <2>1, Zenon
  <2>4. /\ context(q) \in Nat /\ pre[q] \in Nat /\ BlocksFor(context(q)) \in Nat
        /\ blocks[q] + pre[q] = BlocksFor(context(q))
        /\ context(q) = PrefillLen(q) + TokensDone(q)
        /\ TokensDone(q) \in Nat
    BY <1>5, <2>1, <2>2, <2>3, ContextBlocks, ZenonT(30)
  <2>5. PrefillLen(q) \in Nat
    BY <1>5, <2>1, RequestTypes, Zenon
  <2>6. q \in grow <=> NeedsBlock(context(q))
    BY <1>4, Zenon
  <2>7. BlocksFor(context(q)) + (IF NeedsBlock(context(q)) THEN 1 ELSE 0) = BlocksFor(context(q) + 1)
    BY <2>4, BlocksForSuccessor, Zenon
  <2>8. QED  BY <2>4, <2>5, <2>6, <2>7, ZenonT(30)
<1>19. ASSUME NEW q \in Req
       PROVE  HeldBy(q, stage2[q])' /\ CountedFor(q, stage2[q])'
  <2>1. HeldBy(q, stage[q]) /\ CountedFor(q, stage[q])
    BY <1>1, Zenon DEF Whole
  <2>2. CASE q \notin batch
    <3>1. stage2[q] = stage[q]
      BY <1>12, <2>2, Zenon
    <3>2. CASE outcome # "up"
      BY <1>2, <1>6, <2>1, <3>1, <3>2, SameHeld, SameCounted, ZenonT(30)
    <3>3. CASE outcome = "up"
      <4>1. q \notin init /\ q \notin grow /\ pre[q] = 0
        BY <1>9, <1>17, <2>2, Zenon
      <4>2. /\ blocks'[q] = blocks[q] + 0 + 0 /\ seq_len'[q] = seq_len[q]
            /\ (q \in stash_slots' <=> q \in stash_slots)
        BY <1>2, <2>2, <3>3, <4>1, ZenonT(30)
      <4>3. blocks'[q] = blocks[q]
        BY <1>17, <4>2
      <4>4. QED  BY <1>2, <1>6, <2>1, <3>1, <4>2, <4>3, SameHeld, SameCounted, ZenonT(30)
    <3>4. QED  BY <3>2, <3>3, Zenon
  <2>3. CASE q \in batch /\ outcome # "up"
    <3>1. stage2[q] = "lost"
      BY <1>10, <1>12, <2>3, Zenon
    <3>2. QED  BY <3>1, Zenon DEF HeldBy, CountedFor
  <2>4. CASE q \in batch /\ outcome = "up"
    <3>1. stage2[q] = "transit" /\ stage[q] = "layer0"
      BY <1>8, <1>10, <1>12, <2>4, ZenonT(30)
    <3>2. /\ seq_len'[q] = context(q) + 1
          /\ blocks'[q] = blocks[q] + pre[q] + (IF q \in grow THEN 1 ELSE 0)
      BY <1>2, <2>4, Zenon
    <3>3. /\ forced'[q] = forced[q] /\ output_len'[q] = output_len[q] /\ token_streams'[q] = token_streams[q]
          /\ ForcedLen(q)' = ForcedLen(q) /\ MaxOutputLen(q)' = MaxOutputLen(q)
          /\ PrefillLen(q)' = PrefillLen(q) /\ TokensDone(q)' = TokensDone(q)
          /\ Loaded(q)' = Loaded(q)
      BY <1>2, <1>6, Zenon DEF ForcedLen, MaxOutputLen, PrefillLen, TokensDone, Loaded
    <3>4. blocks'[q] = BlocksFor(seq_len'[q]) /\ seq_len'[q] = PrefillLen(q) + TokensDone(q) + 1
      BY <1>18, <2>4, <3>2, ZenonT(30)
    <3>5. /\ output_len[q] < MaxOutputLen(q) /\ forced[q] <= ForcedLen(q)
          /\ forced[q] > 0 => output_len[q] = 0
          /\ Loaded(q)
      BY <2>1, <3>1, ZenonT(30) DEF HeldBy
    <3>6. HeldBy(q, "transit")'
      BY <3>3, <3>4, <3>5, ZenonT(30) DEF HeldBy
    <3>7. Told(q)' = Told(q)
      BY <1>6, Zenon DEF Told
    <3>8. token_streams[q] + Told(q) = TokensDone(q)
      BY <2>1, <3>1, Zenon DEF CountedFor
    <3>9. CountedFor(q, "transit")'
      BY <3>3, <3>7, <3>8, Zenon DEF CountedFor
    <3>10. QED  BY <3>1, <3>6, <3>9, ZenonT(30)
  <2>5. QED  BY <2>2, <2>3, <2>4, Zenon
<1>20. Whole(stage2)'
  <2>1. Moves(batch, stage, stage2, seq_ranks, r)
    BY <1>8, <1>12, Zenon DEF Moves
  <2>2. OthersKept(r)
    BY <1>2, <1>6, <1>17, <1>5, ZenonT(30) DEF OthersKept, ServTypes
  <2>3. Accounted(stage2)'
    BY <1>19, Zenon DEF Accounted
  <2>4. QED  BY <1>1, <1>5, <1>15, <1>16, <2>1, <2>2, <2>3, EngineFrame, ZenonT(30)
<1>21. /\ alloc \in Nat /\ Cardinality(grow) \in Nat
       /\ LET S == On(Req, seq_ranks, r)
          IN  outcome = "up" => SumFunctionOnSet(blocks', S)
                                  = SumFunctionOnSet(blocks, S) + alloc + Cardinality(grow)
  <2> DEFINE S == On(Req, seq_ranks, r)
  <2>1. IsFiniteSet(S) /\ S \in SUBSET Req
    BY <1>5, OnRank, Zenon
  <2>2. batch \in SUBSET S
    BY <1>8, Zenon DEF On
  <2>3. init \in SUBSET S /\ grow \in SUBSET S
    BY <1>17, <2>2, Zenon
  <2>4. PICK use2 : use2 = [q \in Req |-> blocks[q] + pre[q] + (IF q \in grow THEN 1 ELSE 0)]
    BY Zenon
  <2>5. StepOf(S, init, grow, blocks, pre, use2)
    BY <1>9, <1>17, <2>1, <2>4, ZenonT(30) DEF StepOf
  <2>6. outcome = "up" => blocks' = use2
    BY <1>2, <2>4, Zenon
  <2> HIDE DEF S
  <2>7. /\ SumFunctionOnSet(use2, S)
             = SumFunctionOnSet(blocks, S) + SumFunctionOnSet(pre, init) + Cardinality(grow)
        /\ SumFunctionOnSet(pre, init) \in Nat /\ Cardinality(grow) \in Nat
    <3>1. PICK c, s, g, f, u : c = init /\ s = S /\ g = grow /\ f = pre /\ u = blocks
      BY Zenon
    <3>2. IsFiniteSet(s) /\ c \in SUBSET s /\ g \in SUBSET s /\ StepOf(s, c, g, u, f, use2)
      BY <2>1, <2>3, <2>5, <3>1, ZenonT(30)
    <3>3. /\ SumFunctionOnSet(use2, s) = SumFunctionOnSet(u, s) + SumFunctionOnSet(f, c) + Cardinality(g)
          /\ SumFunctionOnSet(f, c) \in Nat /\ Cardinality(g) \in Nat
      BY <3>2, StepBlocks, SMTT(30)
    <3>4. QED  BY <3>1, <3>3, Zenon
  <2>8. QED  BY <1>4, <2>6, <2>7, ZenonT(30) DEF S
<1>22. ServTypes'
  <2>1. status' \in [Rank -> {"up", "allocate", "append_tokens", "stash"}]
    BY <1>2, <1>3, <1>5, Zenon DEF ServTypes
  <2>2. layer0' \in [Rank -> Seq(Req)]
    <3>1. SubSeq(layer0[r], n + 1, Len(layer0[r])) \in Seq(Req)
      BY <1>2, <1>7
    <3>2. QED  BY <1>2, <1>17, <3>1, ZenonT(30)
  <2>3. CASE outcome # "up"
    BY <1>2, <1>5, <1>6, <2>1, <2>2, <2>3, ZenonT(30) DEF ServTypes
  <2>4. CASE outcome = "up"
    <3>1. transit' \in [Rank -> SUBSET Req]
      <4>1. transit[r] \cup batch \in SUBSET Req
        BY <1>7, <1>8, Zenon
      <4>2. QED  BY <1>2, <1>17, <2>4, <4>1, ZenonT(30)
    <3>2. num_free' \in [Rank -> Nat]
      <4>1. num_free[r] - alloc - Cardinality(grow) \in Nat
        <5>1. PICK f, a, g : f = num_free[r] /\ a = alloc /\ g = Cardinality(grow)
          BY Zenon
        <5>2. /\ f \in Nat /\ a \in Nat /\ g \in Nat /\ a <= f
              /\ \A k \in 1 .. g : AppendAssert(f - a - (k - 1))
          BY <1>3, <1>17, <1>21, <2>4, <5>1, ZenonT(30)
        <5>3. f - a - g \in Nat
          BY <5>2 DEF AppendAssert
        <5>4. QED  BY <5>1, <5>3, Zenon
      <4>2. QED  BY <1>2, <1>17, <2>4, <4>1, ZenonT(30)
    <3>3. blocks' \in [Req -> Nat]
      <4>1. \A q \in Req : blocks[q] + pre[q] + (IF q \in grow THEN 1 ELSE 0) \in Nat
        BY <1>9, <1>17
      <4>2. QED  BY <1>2, <2>4, <4>1, Zenon
    <3>4. seq_len' \in [Req -> Nat]
      <4>1. \A q \in batch : context(q) + 1 \in Nat
        BY <1>18
      <4>2. seq_len' = [q \in Req |-> IF q \in batch THEN context(q) + 1 ELSE seq_len[q]]
        BY <1>2, <2>4, Zenon
      <4>3. \A q \in Req : (IF q \in batch THEN context(q) + 1 ELSE seq_len[q]) \in Nat
        BY <1>17, <4>1, Zenon
      <4>4. QED  BY <4>2, <4>3, Zenon
    <3>5. stash_slots' \in SUBSET Req
      BY <1>2, <1>8, <1>17, <2>4, Zenon
    <3>6. QED  BY <1>2, <1>5, <1>6, <2>1, <2>2, <3>1, <3>2, <3>3, <3>4, <3>5, ZenonT(30) DEF ServTypes
  <2>5. QED  BY <2>3, <2>4, Zenon

<1>23. Pool'
  <2>1. SUFFICES ASSUME NEW k \in Rank, status'[k] = "up"
                 PROVE  num_free'[k] + lost[k] + InUse(blocks', seq_ranks, k) = Capacity[k]
    BY <1>2, <1>5, <1>6, Zenon DEF Pool
  <2> DEFINE S == On(Req, seq_ranks, k)
  <2>2. status[k] = "up"
    BY <1>2, <1>5, <2>1, Zenon DEF ServTypes
  <2>3. /\ IsFiniteSet(S) /\ S \in SUBSET Req /\ Capacity[k] \in Nat
        /\ num_free[k] + lost[k] + SumFunctionOnSet(blocks, S) = Capacity[k]
        /\ \A x \in S : blocks[x] \in Nat
    BY <1>5, <1>17, <2>2, OnRank, ZenonT(30) DEF Pool, InUse
  <2>4. CASE k # r
    <3>1. num_free'[k] = num_free[k] /\ \A x \in S : blocks'[x] = blocks[x]
      <4>1. CASE outcome # "up"
        BY <1>2, <4>1, Zenon
      <4>2. CASE outcome = "up"
        <5>1. \A x \in S : x \notin batch /\ x \in Req
          BY <1>8, <2>3, <2>4, Zenon DEF On
        <5>2. \A x \in S : x \notin grow /\ pre[x] = 0
          BY <1>9, <1>17, <5>1, Zenon
        <5>3. \A x \in S : blocks'[x] = blocks[x] + 0 + 0
          BY <1>2, <4>2, <5>1, <5>2, ZenonT(30)
        <5>4. \A x \in S : blocks'[x] = blocks[x]
          BY <2>3, <5>3
        <5>5. QED  BY <1>2, <1>17, <2>4, <4>2, <5>4, ZenonT(30)
      <4>3. QED  BY <4>1, <4>2, Zenon
    <3> HIDE DEF S
    <3>2. SumFunctionOnSet(blocks', S) = SumFunctionOnSet(blocks, S)
      BY <2>3, <3>1, SumSame, Zenon
    <3>3. QED  BY <2>3, <3>1, <3>2, Zenon DEF InUse, S
  <2>5. CASE k = r
    <3>1. outcome = "up"
      BY <1>13, <2>1, <2>5, Zenon
    <3>2. /\ num_free'[k] = num_free[k] - alloc - Cardinality(grow)
          /\ num_free[k] \in Nat /\ lost[k] \in Nat
      BY <1>2, <1>17, <2>5, <3>1, ZenonT(30)
    <3>3. SumFunctionOnSet(blocks', S) = SumFunctionOnSet(blocks, S) + alloc + Cardinality(grow)
      BY <1>21, <2>5, <3>1, ZenonT(30)
    <3> HIDE DEF S
    <3>4. SumFunctionOnSet(blocks, S) \in Nat
      BY <2>3, SumType, ZenonT(30)
    <3>5. num_free'[k] + lost[k] + SumFunctionOnSet(blocks', S) = Capacity[k]
      BY <1>21, <2>3, <3>2, <3>3, <3>4, SMTT(30)
    <3>6. QED  BY <3>5, Zenon DEF InUse, S
  <2>6. QED  BY <2>4, <2>5, Zenon
<1>24. AllocSafe'
  <2>1. policy # "RR" => outcome # "allocate"
    BY <1>3, <1>9, Zenon
  <2>2. QED  BY <1>2, <1>5, <1>6, <2>1, ZenonT(30) DEF AllocSafe, ServTypes
<1>25. QED  BY <1>5, <1>20, <1>22, <1>23, <1>24, ZenonT(30) DEF ServingIInv


-----------------------------------------------------------------------------
\* What result e adds to the results s of rank r.
NewsOf(e, s, stage, ranks, r) ==
    /\ \A p \in e.req_ids : ranks[p] = r /\ stage[p] \in {"layer0", "transit", "lost", "reported"}
    /\ \A p \in e.eos : p \in e.req_ids /\ stage[p] = "reported"
    /\ \A i \in DOMAIN s : \A p \in s[i].eos : p \notin e.req_ids

(* A worker appends a result that names none of the requests it has already  *)
(* ended (self.results, one entry for every batch).                          *)
LEMMA ToldByAppend ==
    ASSUME NEW s \in Seq(Result), NEW e \in Result, NEW t, Pushed(s, e, t), NEW stage, NEW ranks, NEW r,
           ToldBy(s, stage, ranks, r), NewsOf(e, s, stage, ranks, r)
    PROVE  ToldBy(t, stage, ranks, r)
<1>1. /\ DOMAIN t = 1 .. Len(s) + 1 /\ DOMAIN s = 1 .. Len(s) /\ Len(s) \in Nat
      /\ t[Len(s) + 1] = e /\ \A i \in 1 .. Len(s) : t[i] = s[i]
  BY DEF Pushed
<1>2. \A j \in DOMAIN t : \/ j \in DOMAIN s /\ t[j] = s[j]
                          \/ j = Len(s) + 1 /\ t[j] = e
  BY <1>1
<1>3. ASSUME NEW i \in DOMAIN t
      PROVE  /\ \A p \in t[i].req_ids :
                   ranks[p] = r /\ stage[p] \in {"layer0", "transit", "lost", "reported"}
             /\ \A p \in t[i].eos :
                   /\ p \in t[i].req_ids /\ stage[p] = "reported"
                   /\ \A j \in DOMAIN t : j > i => p \notin t[j].req_ids
  <2>1. CASE i \in DOMAIN s
    <3>1. t[i] = s[i]
      BY <1>1, <2>1, Zenon
    <3>2. \A p \in s[i].eos : \A j \in DOMAIN t : j > i => p \notin t[j].req_ids
      BY <1>2, <2>1, Zenon DEF ToldBy, NewsOf
    <3>3. QED  BY <2>1, <3>1, <3>2, Zenon DEF ToldBy
  <2>2. CASE i = Len(s) + 1
    <3>1. \A j \in DOMAIN t : ~ (j > i)
      BY <1>1, <2>2
    <3>2. t[i] = e
      BY <1>1, <2>2, Zenon
    <3>3. QED  BY <3>1, <3>2, ZenonT(30) DEF NewsOf
  <2>3. QED  BY <1>2, <2>1, <2>2, Zenon
<1>4. QED  BY <1>3, Zenon DEF ToldBy

\* use2 is what is in use on S after the blocks of done are released.
ReleaseOf(S, done, use, use2) ==
    \A q \in S : use[q] \in Nat /\ use2[q] = IF q \in done THEN 0 ELSE use[q]

(* release_seqs gives back exactly what the finished requests hold.          *)
LEMMA ReleasedBlocks ==
    ASSUME NEW S, IsFiniteSet(S), NEW done \in SUBSET S, NEW use, NEW use2, ReleaseOf(S, done, use, use2)
    PROVE  /\ SumFunctionOnSet(use, S) = SumFunctionOnSet(use2, S) + SumFunctionOnSet(use, done)
           /\ SumFunctionOnSet(use2, S) \in Nat /\ SumFunctionOnSet(use, done) \in Nat
<1>1. /\ IsFiniteSet(done) /\ IsFiniteSet(S \ done) /\ done \cap (S \ done) = {}
      /\ S = done \cup (S \ done)
  <2>1. S \ done \in SUBSET S
    BY Zenon
  <2>2. QED  BY <2>1, FS_Subset, Zenon
<1>2. /\ \A q \in S : use[q] \in Nat /\ use2[q] \in Nat
      /\ \A q \in done : use2[q] = 0
      /\ \A q \in S \ done : use2[q] = use[q]
  BY DEF ReleaseOf
<1>3. PICK rest : rest = S \ done
  BY Zenon
<1>4. /\ \A q \in done \cup rest : use[q] \in Nat /\ use2[q] \in Nat
      /\ \A q \in rest : use[q] \in Nat /\ use2[q] = use[q]
      /\ IsFiniteSet(rest) /\ done \cap rest = {} /\ S = done \cup rest
  BY <1>1, <1>2, <1>3, ZenonT(30)
<1>5. SumFunctionOnSet(use, done \cup rest) = SumFunctionOnSet(use, done) + SumFunctionOnSet(use, rest)
  BY <1>1, <1>4, SumBoth
<1>6. SumFunctionOnSet(use2, done \cup rest) = SumFunctionOnSet(use2, done) + SumFunctionOnSet(use2, rest)
  BY <1>1, <1>4, SumBoth
<1>7. SumFunctionOnSet(use2, done) = 0
  BY <1>1, <1>2, SumZero, Zenon
<1>8. SumFunctionOnSet(use2, rest) = SumFunctionOnSet(use, rest)
  BY <1>4, SumSame, Zenon
<1>9. SumFunctionOnSet(use, rest) \in Nat
  BY <1>4, SumType, Zenon
<1>10. SumFunctionOnSet(use, done) \in Nat
  BY <1>1, <1>4, SumType, Zenon
<1>11. QED  BY <1>4, <1>5, <1>6, <1>7, <1>8, <1>9, <1>10, SMTT(30)


(* step takes one token of q, forced or sampled: q goes on with the same     *)
(* blocks, or it is over with its last sampled token.                        *)
LEMMA TokenTaken ==
    ASSUME SchedTypes, ServTypes, NEW q \in Req,
           HeldBy(q, "transit"), CountedFor(q, "transit"), Told(q) \in Nat,
           sampler' = sampler, token_streams'[q] = token_streams[q], Told(q)' = Told(q) + 1,
           output_len'[q] = output_len[q] + (IF forced[q] = 0 THEN 1 ELSE 0),
           forced'[q] = forced[q] - (IF forced[q] = 0 THEN 0 ELSE 1)
    PROVE  /\ blocks'[q] = blocks[q] /\ seq_len'[q] = seq_len[q]
                 /\ (forced[q] = 0 => output_len[q] + 1 < MaxOutputLen(q))
              => HeldBy(q, "layer0")' /\ CountedFor(q, "layer0")'
           /\ blocks'[q] = 0 /\ seq_len'[q] = 0 /\ q \notin stash_slots' /\ forced[q] = 0
              => HeldBy(q, "reported")' /\ CountedFor(q, "reported")'
           /\ output_len'[q] \in Nat /\ forced'[q] \in Nat
<1>1. /\ PrefillLen(q) \in Nat /\ ForcedLen(q) \in Nat /\ MaxOutputLen(q) \in Nat \ {0}
      /\ Loaded(q)
  <2>1. Loaded(q)
    BY Zenon DEF HeldBy
  <2>2. QED  BY <2>1, RequestTypes, Zenon
<1>2. /\ ForcedLen(q)' = ForcedLen(q) /\ MaxOutputLen(q)' = MaxOutputLen(q)
      /\ PrefillLen(q)' = PrefillLen(q) /\ Loaded(q)'
  BY <1>1, Zenon DEF ForcedLen, MaxOutputLen, PrefillLen, Loaded
<1>3. /\ blocks[q] \in Nat /\ seq_len[q] \in Nat /\ output_len[q] \in Nat /\ forced[q] \in Nat
      /\ token_streams[q] \in Nat
  BY Zenon DEF ServTypes
<1>4. /\ output_len[q] < MaxOutputLen(q) /\ forced[q] <= ForcedLen(q)
      /\ forced[q] > 0 => output_len[q] = 0
  BY Zenon DEF HeldBy
<1>5. blocks[q] = BlocksFor(seq_len[q]) /\ seq_len[q] = PrefillLen(q) + TokensDone(q) + 1
  BY Zenon DEF HeldBy
<1>6. token_streams[q] + Told(q) = TokensDone(q)
  BY Zenon DEF CountedFor
<1>7. TokensDone(q) = ForcedLen(q) - forced[q] + output_len[q] /\ TokensDone(q) \in Nat
  BY <1>1, <1>3, <1>4, SMTT(30) DEF TokensDone
<1>8. output_len'[q] \in Nat /\ forced'[q] \in Nat
  BY <1>3
<1>9. TokensDone(q)' = TokensDone(q) + 1
  <2>1. TokensDone(q)' = ForcedLen(q) - forced'[q] + output_len'[q]
    BY <1>2, Zenon DEF TokensDone
  <2>2. CASE forced[q] = 0
    BY <1>1, <1>3, <1>7, <2>1, <2>2, SMTT(30)
  <2>3. CASE forced[q] # 0
    BY <1>1, <1>3, <1>7, <2>1, <2>3, SMTT(30)
  <2>4. QED  BY <2>2, <2>3, Zenon
<1>10. ASSUME blocks'[q] = blocks[q], seq_len'[q] = seq_len[q],
              forced[q] = 0 => output_len[q] + 1 < MaxOutputLen(q)
       PROVE  HeldBy(q, "layer0")' /\ CountedFor(q, "layer0")'
  <2>1. output_len'[q] < MaxOutputLen(q) /\ forced'[q] <= ForcedLen(q)
    BY <1>1, <1>3, <1>4, <1>10, SMTT(30)
  <2>2. forced'[q] > 0 => output_len'[q] = 0
    BY <1>3, <1>4, SMTT(30)
  <2>3. seq_len'[q] > 0 /\ seq_len'[q] # 0 /\ seq_len'[q] = PrefillLen(q) + (TokensDone(q) + 1)
    BY <1>1, <1>5, <1>7, <1>10
  <2>4. HeldBy(q, "layer0")'
    BY <1>2, <1>5, <1>9, <1>10, <2>1, <2>2, <2>3, ZenonT(30) DEF HeldBy
  <2>5. token_streams'[q] + Told(q)' = TokensDone(q)'
    BY <1>3, <1>6, <1>9
  <2>6. QED  BY <2>4, <2>5, Zenon DEF CountedFor
<1>11. ASSUME blocks'[q] = 0, seq_len'[q] = 0, q \notin stash_slots', forced[q] = 0
       PROVE  HeldBy(q, "reported")' /\ CountedFor(q, "reported")'
  <2>1. HeldBy(q, "reported")'
    BY <1>11, Zenon DEF HeldBy
  <2>2. output_len'[q] # 0 /\ output_len'[q] + ForcedLen(q) = TokensDone(q) + 1
    BY <1>1, <1>3, <1>7, <1>11
  <2>3. Total(q)' = TokensDone(q) + 1
    BY <1>2, <2>2, Zenon DEF Total
  <2>4. token_streams'[q] + Told(q)' = TokensDone(q) + 1
    BY <1>3, <1>6
  <2>5. CountedFor(q, "reported")'
    BY <2>3, <2>4, Zenon DEF CountedFor
  <2>6. QED  BY <2>1, <2>5, Zenon
<1>12. QED  BY <1>8, <1>10, <1>11, Zenon


(* sample_results takes a token of every request of a batch; the finished    *)
(* ones are released and reported, the others queue at layer 0 again.        *)
LEMMA SampleServes ==
    ASSUME ServingIInv, NEW r \in Rank, NEW batch \in SUBSET transit[r], NEW early,
           SampleResults(r, batch, early)
    PROVE  ServingIInv'
<1>1. PICK stage : Whole(stage)
  BY Zenon DEF ServingIInv
<1>2. PICK sampled, done : sampled = Sampled(batch) /\ done = Finishing(batch, early)
  BY Zenon
<1>3. PICK e : e = [req_ids |-> batch, eos |-> done]
  BY Zenon
<1>4. PICK more : more = InSomeOrder(batch \ done)
  BY Zenon
<1>5. /\ status[r] = "up"
      /\ output_len' = [q \in Req |-> output_len[q] + (IF q \in sampled THEN 1 ELSE 0)]
      /\ forced' = [q \in Req |-> forced[q] - (IF q \in batch \ sampled THEN 1 ELSE 0)]
      /\ num_free' = [num_free EXCEPT ![r] = @ + SumFunctionOnSet(blocks, done)]
      /\ blocks' = [q \in Req |-> IF q \in done THEN 0 ELSE blocks[q]]
      /\ seq_len' = [q \in Req |-> IF q \in done THEN 0 ELSE seq_len[q]]
      /\ stash_slots' = stash_slots \ done
      /\ results' = [results EXCEPT ![r] = Append(@, e)]
      /\ transit' = [transit EXCEPT ![r] = @ \ batch]
      /\ layer0' = [layer0 EXCEPT ![r] = @ \o more]
      /\ UNCHANGED <<schedVars, sampler, loading, lost, status, token_streams, finished_seqs, fetched,
                     resolved>>
  BY <1>2, <1>3, <1>4, Zenon DEF SampleResults, ReleaseSeqs
<1>6. SchedIInv' /\ SchedIInv /\ SchedTypes /\ ServTypes /\ Pool /\ AllocSafe
  BY <1>5, SchedStutters, Zenon DEF ServingIInv, SchedIInv
<1>7. UNCHANGED <<policy, fresh, waiting_queue, got, seq_ranks, sent>>
  BY <1>5, Zenon DEF schedVars
<1>8. /\ LocatedAt(stage, r) /\ ToldBy(results[r], stage, seq_ranks, r) /\ stage \in [Req -> Stages]
      /\ layer0[r] \in Seq(Req) /\ sent[r] \in Seq(Req) /\ results[r] \in Seq(Result)
      /\ transit[r] \in SUBSET Req /\ loading[r] \in SUBSET Req
  BY <1>1, <1>6, Zenon DEF Whole, Located, Reported, ServTypes, SchedTypes
<1>9. /\ batch \in SUBSET Req /\ \A q \in batch : stage[q] = "transit" /\ seq_ranks[q] = r
      /\ done \in SUBSET batch
      /\ \A q \in batch : q \in sampled <=> forced[q] = 0
      /\ \A q \in done : forced[q] = 0
      /\ \A q \in Req : q \in sampled => q \in batch
      /\ \A q \in batch : q \notin done /\ forced[q] = 0 => ~ (output_len[q] + 1 >= MaxOutputLen(q))
  BY <1>2, <1>8, Zenon DEF LocatedAt, Sampled, Finishing
<1>10. /\ output_len \in [Req -> Nat] /\ forced \in [Req -> Nat] /\ num_free \in [Rank -> Nat]
       /\ lost \in [Rank -> Nat]
       /\ blocks \in [Req -> Nat] /\ seq_len \in [Req -> Nat] /\ stash_slots \in SUBSET Req
       /\ results \in [Rank -> Seq(Result)] /\ transit \in [Rank -> SUBSET Req]
       /\ layer0 \in [Rank -> Seq(Req)]
  BY <1>6, Zenon DEF ServTypes
<1>11. /\ layer0'[r] = layer0[r] \o more /\ transit'[r] = transit[r] \ batch
       /\ results'[r] = Append(results[r], e)
       /\ num_free'[r] = num_free[r] + SumFunctionOnSet(blocks, done)
       /\ \A k \in Rank : k # r => /\ layer0'[k] = layer0[k] /\ transit'[k] = transit[k]
                                   /\ results'[k] = results[k] /\ num_free'[k] = num_free[k]
  BY <1>5, <1>10, ZenonT(30)
<1>12. /\ IsFiniteSet(batch \ done) /\ more \in Seq(Req)
       /\ \A i \in DOMAIN more : more[i] \in batch /\ more[i] \notin done
       /\ \A i, j \in DOMAIN more : more[i] = more[j] => i = j
  <2>1. batch \ done \in SUBSET Req /\ IsFiniteSet(Req)
    BY <1>9, SchedAssumption, Zenon
  <2>2. IsFiniteSet(batch \ done)
    BY <2>1, FS_Subset, Zenon
  <2>3. more \in Seq(batch \ done) /\ \A i, j \in DOMAIN more : more[i] = more[j] => i = j
    BY <1>4, <2>2, InSomeOrderIs, Zenon
  <2>4. QED  BY <1>9, <2>2, <2>3
<1>13. e \in Result /\ e.req_ids = batch /\ e.eos = done
  BY <1>3, <1>9, Zenon DEF Result
<1>14. PICK stage2 : stage2 = [q \in Req |-> IF q \in done THEN "reported"
                                             ELSE IF q \in batch THEN "layer0" ELSE stage[q]]
  BY Zenon
<1>15. /\ stage2 \in [Req -> Stages]
       /\ \A q \in done : stage2[q] = "reported"
       /\ \A q \in batch : q \notin done => stage2[q] = "layer0"
       /\ \A q \in Req : q \notin batch => stage2[q] = stage[q]
  BY <1>8, <1>9, <1>14, Zenon DEF Stages
<1>16. LocatedAt(stage2, r)'
  <2>1. HeldIn(layer0[r], stage, "layer0", seq_ranks, r) /\ HeldIn(sent[r], stage, "sent", seq_ranks, r)
    BY <1>8, Zenon DEF LocatedAt
  <2>2. \A q \in Req : q \in batch => stage[q] # "layer0" /\ stage[q] # "sent" /\ stage[q] # "loading"
    BY <1>9, Zenon
  <2>3. AllEnter(more, stage, stage2, "layer0", seq_ranks, r)
    BY <1>9, <1>12, <1>15, <2>2, ZenonT(30) DEF AllEnter
  <2>4. Joined(layer0[r], more, layer0'[r])
    BY <1>11, Zenon DEF Joined
  <2>5. HeldIn(layer0'[r], stage2, "layer0", seq_ranks, r)
    BY <1>8, <1>12, <2>1, <2>3, <2>4, HeldInConcat, ZenonT(30)
  <2>6. \A q \in Req : stage[q] = "sent" => stage2[q] = "sent"
    BY <1>15, <2>2, Zenon
  <2>7. HeldIn(sent[r], stage2, "sent", seq_ranks, r)
    BY <1>8, <2>1, <2>6, HeldInSame, Zenon
  <2>8. \A q \in loading[r] : stage2[q] = "loading" /\ seq_ranks[q] = r /\ sampler = "mooncake"
    BY <1>8, <1>15, <2>2, Zenon DEF LocatedAt
  <2>9. \A q \in transit'[r] : stage2[q] = "transit" /\ seq_ranks[q] = r
    BY <1>8, <1>11, <1>15, Zenon DEF LocatedAt
  <2>10. \A q \in Req : stage2[q] = "lost" => stage[q] = "lost"
    BY <1>15, Zenon
  <2>11. QED  BY <1>5, <1>7, <1>8, <2>5, <2>7, <2>8, <2>9, <2>10, ZenonT(30) DEF LocatedAt
<1>17. ToldBy(results'[r], stage2, seq_ranks, r)
  <2>1. \A p \in Req : seq_ranks[p] = r /\ stage[p] \in {"layer0", "transit", "lost", "reported"} =>
            /\ stage2[p] \in {"layer0", "transit", "lost", "reported"}
            /\ stage[p] = "reported" => stage2[p] = "reported"
            /\ seq_ranks[p] = seq_ranks[p]
    BY <1>9, <1>15, Zenon
  <2>2. ToldBy(results[r], stage2, seq_ranks, r)
    BY <1>8, <2>1, ToldBySame, Zenon
  <2>3. \A i \in DOMAIN results[r] : \A p \in results[r][i].eos : p \notin e.req_ids
    BY <1>8, <1>9, <1>13, Zenon DEF ToldBy
  <2>4. NewsOf(e, results[r], stage2, seq_ranks, r)
    BY <1>9, <1>13, <1>15, <2>3, Zenon DEF NewsOf
  <2>5. Pushed(results[r], e, results'[r])
    BY <1>11, Zenon DEF Pushed
  <2>6. QED  BY <1>8, <1>13, <2>2, <2>4, <2>5, ToldByAppend, ZenonT(30)
<1>18. ASSUME NEW q \in Req
       PROVE  /\ HeldBy(q, stage2[q])' /\ CountedFor(q, stage2[q])'
              /\ output_len'[q] \in Nat /\ forced'[q] \in Nat
  <2>1. HeldBy(q, stage[q]) /\ CountedFor(q, stage[q])
    BY <1>1, Zenon DEF Whole
  <2>2. seq_ranks[q] = r => Told(q) \in Nat /\ Told(q)' = Told(q) + (IF q \in batch THEN 1 ELSE 0)
    <3>1. SUFFICES ASSUME seq_ranks[q] = r
                   PROVE  Told(q) \in Nat /\ Told(q)' = Told(q) + (IF q \in batch THEN 1 ELSE 0)
      BY Zenon
    <3>2. /\ Told(q) = Cardinality(Mentions(results[r], q))
          /\ Told(q)' = Cardinality(Mentions(Append(results[r], e), q))
      BY <1>7, <1>11, <3>1, Zenon DEF Told
    <3>3. QED  BY <1>8, <1>13, <3>2, MentionsType, MentionsAppend, ZenonT(30)
  <2>3. CASE q \in batch
    <3>1. Loaded(q) /\ HeldBy(q, "transit") /\ CountedFor(q, "transit")
      BY <1>9, <2>1, <2>3, ZenonT(30) DEF HeldBy
    <3>2. Told(q) \in Nat /\ Told(q)' = Told(q) + 1
      BY <1>9, <2>2, <2>3, Zenon
    <3>3. /\ output_len'[q] = output_len[q] + (IF forced[q] = 0 THEN 1 ELSE 0)
          /\ forced'[q] = forced[q] - (IF forced[q] = 0 THEN 0 ELSE 1)
      BY <1>5, <1>9, <2>3, Zenon
    <3>4. token_streams'[q] = token_streams[q] /\ sampler' = sampler
      BY <1>5, Zenon
    <3>5. /\ blocks'[q] = blocks[q] /\ seq_len'[q] = seq_len[q]
                /\ (forced[q] = 0 => output_len[q] + 1 < MaxOutputLen(q))
             => HeldBy(q, "layer0")' /\ CountedFor(q, "layer0")'
          /\ blocks'[q] = 0 /\ seq_len'[q] = 0 /\ q \notin stash_slots' /\ forced[q] = 0
             => HeldBy(q, "reported")' /\ CountedFor(q, "reported")'
          /\ output_len'[q] \in Nat /\ forced'[q] \in Nat
      BY <1>6, <3>1, <3>2, <3>3, <3>4, TokenTaken, ZenonT(30)
    <3>6. CASE q \in done
      <4>1. /\ blocks'[q] = 0 /\ seq_len'[q] = 0 /\ q \notin stash_slots'
            /\ forced[q] = 0 /\ stage2[q] = "reported"
        BY <1>5, <1>9, <1>15, <3>6, Zenon
      <4>2. QED  BY <3>5, <4>1, Zenon
    <3>7. CASE q \notin done
      <4>1. blocks'[q] = blocks[q] /\ seq_len'[q] = seq_len[q] /\ stage2[q] = "layer0"
        BY <1>5, <1>15, <2>3, <3>7, ZenonT(30)
      <4>2. MaxOutputLen(q) \in Nat /\ output_len[q] \in Nat
        BY <1>6, <1>10, <3>1, RequestTypes, ZenonT(30)
      <4>3. forced[q] = 0 => output_len[q] + 1 < MaxOutputLen(q)
        BY <1>9, <2>3, <3>7, <4>2, SMTT(30)
      <4>4. QED  BY <3>5, <4>1, <4>3, Zenon
    <3>8. QED  BY <3>6, <3>7, Zenon

  <2>4. CASE q \notin batch
    <3>1. /\ output_len'[q] = output_len[q] + 0 /\ forced'[q] = forced[q] - 0
          /\ blocks'[q] = blocks[q] /\ seq_len'[q] = seq_len[q] /\ stage2[q] = stage[q]
          /\ q \in stash_slots' <=> q \in stash_slots
          /\ token_streams'[q] = token_streams[q] /\ sampler' = sampler
      BY <1>5, <1>9, <1>15, <2>4, ZenonT(30)
    <3>2. /\ output_len'[q] = output_len[q] /\ forced'[q] = forced[q]
          /\ output_len[q] \in Nat /\ forced[q] \in Nat
      BY <1>10, <3>1
    <3>3. HeldBy(q, stage2[q])'
      BY <2>1, <3>1, <3>2, SameHeld, ZenonT(30)
    <3>4. CASE seq_ranks[q] \notin Rank
      <4>1. seq_ranks[q] = -1
        BY <1>6, <3>4, Zenon DEF SchedTypes
      <4>2. stage[q] \in {"none", "done"}
        BY <1>1, <4>1, Zenon DEF Whole, Queued
      <4>3. CountedFor(q, stage2[q])'
        BY <2>1, <3>1, <3>2, <4>2, ZenonT(30) DEF CountedFor, Total, ForcedLen
      <4>4. QED  BY <3>2, <3>3, <4>3, Zenon
    <3>5. CASE seq_ranks[q] \in Rank /\ seq_ranks[q] # r
      <4>1. results'[seq_ranks'[q]] = results[seq_ranks[q]]
        BY <1>7, <1>11, <3>5, ZenonT(30)
      <4>2. QED  BY <2>1, <3>1, <3>2, <3>3, <4>1, SameCounted, ZenonT(30)
    <3>6. CASE seq_ranks[q] = r
      <4>1. Told(q)' = Told(q)
        BY <2>2, <2>4, <3>6
      <4>2. Total(q)' = Total(q) /\ TokensDone(q)' = TokensDone(q)
        <5>1. ForcedLen(q)' = ForcedLen(q)
          BY <3>1, Zenon DEF ForcedLen
        <5>2. QED  BY <3>2, <5>1, Zenon DEF Total, TokensDone
      <4>3. QED  BY <2>1, <3>1, <3>2, <3>3, <4>1, <4>2, ZenonT(30) DEF CountedFor
    <3>7. QED  BY <3>4, <3>5, <3>6, Zenon
  <2>5. QED  BY <2>3, <2>4, Zenon
<1>19. Whole(stage2)'
  <2>1. Moves(batch, stage, stage2, seq_ranks, r)
    BY <1>9, <1>15, Zenon DEF Moves
  <2>2. OthersKept(r)
    BY <1>5, <1>7, <1>11, Zenon DEF OthersKept
  <2>3. Accounted(stage2)'
    BY <1>18, Zenon DEF Accounted
  <2>4. QED  BY <1>1, <1>6, <1>16, <1>17, <2>1, <2>2, <2>3, EngineFrame, ZenonT(30)
<1>20. PICK S : S = On(Req, seq_ranks, r)
  BY Zenon
<1>21. /\ IsFiniteSet(S) /\ S \in SUBSET Req /\ Capacity[r] \in Nat /\ done \in SUBSET S
       /\ num_free[r] + lost[r] + SumFunctionOnSet(blocks, S) = Capacity[r]
  <2>1. done \in SUBSET S
    BY <1>9, <1>20, Zenon DEF On
  <2>2. QED  BY <1>5, <1>6, <1>20, <2>1, OnRank, ZenonT(30) DEF Pool, InUse
<1>22. /\ SumFunctionOnSet(blocks, S) = SumFunctionOnSet(blocks', S) + SumFunctionOnSet(blocks, done)
       /\ SumFunctionOnSet(blocks', S) \in Nat /\ SumFunctionOnSet(blocks, done) \in Nat
  <2>1. PICK use, use2 : use = blocks /\ use2 = [q \in Req |-> IF q \in done THEN 0 ELSE blocks[q]]
    BY Zenon
  <2>2. ReleaseOf(S, done, use, use2)
    BY <1>10, <1>21, <2>1, ZenonT(30) DEF ReleaseOf
  <2>3. /\ SumFunctionOnSet(use, S) = SumFunctionOnSet(use2, S) + SumFunctionOnSet(use, done)
        /\ SumFunctionOnSet(use2, S) \in Nat /\ SumFunctionOnSet(use, done) \in Nat
    BY <1>21, <2>2, ReleasedBlocks, SMTT(30)
  <2>4. use2 = blocks'
    BY <1>5, <2>1, Zenon
  <2>5. QED  BY <2>1, <2>3, <2>4, Zenon
<1>23. Pool'
  <2>1. SUFFICES ASSUME NEW k \in Rank, status[k] = "up"
                 PROVE  num_free'[k] + lost[k] + InUse(blocks', seq_ranks, k) = Capacity[k]
    BY <1>5, <1>6, <1>7, Zenon DEF Pool
  <2>2. CASE k = r
    <3>1. num_free[r] \in Nat /\ lost[r] \in Nat
      BY <1>10, ZenonT(30)
    <3>2. num_free'[r] + lost[r] + SumFunctionOnSet(blocks', S) = Capacity[r]
      <4>1. PICK n, l, a, b, d, c :
               /\ n = num_free[r] /\ l = lost[r] /\ c = Capacity[r] /\ a = SumFunctionOnSet(blocks, S)
               /\ b = SumFunctionOnSet(blocks', S) /\ d = SumFunctionOnSet(blocks, done)
        BY Zenon
      <4>2. num_free'[r] = n + d
        BY <1>11, <4>1, ZenonT(30)
      <4>3. n \in Nat /\ l \in Nat /\ b \in Nat /\ d \in Nat /\ a = b + d /\ n + l + a = c
        BY <1>21, <1>22, <3>1, <4>1, Zenon
      <4>4. (n + d) + l + b = c
        BY <4>3
      <4>5. QED  BY <4>1, <4>2, <4>4, Zenon
    <3>3. QED  BY <1>20, <2>2, <3>2, Zenon DEF InUse
  <2>3. CASE k # r
    <3>1. PICK K : K = On(Req, seq_ranks, k)
      BY Zenon
    <3>2. /\ IsFiniteSet(K) /\ K \in SUBSET Req
          /\ num_free[k] + lost[k] + SumFunctionOnSet(blocks, K) = Capacity[k]
      BY <1>6, <2>1, <3>1, OnRank, Zenon DEF Pool, InUse
    <3>3. \A x \in K : x \notin done /\ x \in Req
      BY <1>9, <2>3, <3>1, <3>2, Zenon DEF On
    <3>4. \A x \in K : blocks[x] \in Nat /\ blocks'[x] = blocks[x]
      BY <1>5, <1>10, <3>3, Zenon
    <3>5. SumFunctionOnSet(blocks', K) = SumFunctionOnSet(blocks, K)
      BY <3>2, <3>4, SumSame, Zenon
    <3>6. QED  BY <1>11, <2>3, <3>1, <3>2, <3>5, ZenonT(30) DEF InUse
  <2>4. QED  BY <2>2, <2>3, Zenon
<1>24. ServTypes'
  <2>1. output_len' \in [Req -> Nat] /\ forced' \in [Req -> Nat]
    BY <1>5, <1>18, Zenon
  <2>2. num_free' \in [Rank -> Nat]
    <3>1. num_free[r] + SumFunctionOnSet(blocks, done) \in Nat
      BY <1>10, <1>22
    <3>2. QED  BY <1>5, <1>10, <3>1, Zenon
  <2>3. blocks' \in [Req -> Nat] /\ seq_len' \in [Req -> Nat] /\ stash_slots' \in SUBSET Req
    BY <1>5, <1>10, Zenon
  <2>4. results' \in [Rank -> Seq(Result)]
    <3>1. Append(results[r], e) \in Seq(Result)
      BY <1>8, <1>13
    <3>2. QED  BY <1>5, <1>10, <3>1, ZenonT(30)
  <2>5. transit' \in [Rank -> SUBSET Req]
    <3>1. transit[r] \ batch \in SUBSET Req
      BY <1>8, Zenon
    <3>2. QED  BY <1>5, <1>10, <3>1, Zenon
  <2>6. layer0' \in [Rank -> Seq(Req)]
    <3>1. layer0[r] \o more \in Seq(Req)
      BY <1>8, <1>12
    <3>2. QED  BY <1>5, <1>10, <3>1, ZenonT(30)
  <2>7. QED  BY <1>5, <1>6, <2>1, <2>2, <2>3, <2>4, <2>5, <2>6, ZenonT(30) DEF ServTypes
<1>25. AllocSafe'
  BY <1>5, <1>6, <1>7, Zenon DEF AllocSafe
<1>26. QED  BY <1>6, <1>19, <1>23, <1>24, <1>25, ZenonT(30) DEF ServingIInv


-----------------------------------------------------------------------------
(* The invariant holds when the controller and the workers are built.        *)
LEMMA ServingInitially == ServingInit => ServingIInv
<1> SUFFICES ASSUME ServingInit
             PROVE  ServingIInv
  BY Zenon
<1>1. SchedIInv /\ SchedTypes
  BY SchedInitially, Zenon DEF ServingInit, SchedIInv
<1>2. /\ fresh = Req /\ waiting_queue = <<>> /\ got = NoReq /\ seq_ranks = [q \in Req |-> -1]
      /\ sent = [r \in Rank |-> <<>>]
  BY Zenon DEF ServingInit, SchedInit
<1>3. /\ loading = [r \in Rank |-> {}] /\ forced = [q \in Req |-> 0] /\ status = [r \in Rank |-> "up"]
      /\ layer0 = [r \in Rank |-> <<>>] /\ transit = [r \in Rank |-> {}] /\ num_free = Capacity
      /\ blocks = [q \in Req |-> 0] /\ seq_len = [q \in Req |-> 0] /\ stash_slots = {}
      /\ output_len = [q \in Req |-> 0] /\ results = [r \in Rank |-> <<>>]
      /\ token_streams = [q \in Req |-> 0] /\ finished_seqs = {} /\ fetched = <<>> /\ resolved = {}
      /\ sampler \in Samplers /\ lost = [r \in Rank |-> 0]
  BY Zenon DEF ServingInit
<1>4. Capacity \in [Rank -> Nat]
  BY SchedAssumption
<1>5. ServTypes
  BY <1>3, <1>4 DEF ServTypes
<1>6. Pool
  <2>1. SUFFICES ASSUME NEW r \in Rank
                 PROVE  /\ num_free[r] + lost[r] + InUse(blocks, seq_ranks, r) = Capacity[r]
                        /\ ~ (lost[r] > 0)
    BY Zenon DEF Pool
  <2>2. IsFiniteSet(On(Req, seq_ranks, r)) /\ \A q \in On(Req, seq_ranks, r) : blocks[q] = 0
    BY <1>1, <1>3, OnRank, Zenon DEF On
  <2>3. InUse(blocks, seq_ranks, r) = 0
    BY <2>2, SumZero, Zenon DEF InUse
  <2>4. QED  BY <1>3, <1>4, <2>3
<1>7. AllocSafe
  BY <1>3, Zenon DEF AllocSafe
<1>8. PICK stage : stage = [q \in Req |-> "none"]
  BY Zenon
<1>9. Whole(stage)
  <2>1. stage \in [Req -> Stages] /\ \A q \in Req : stage[q] = "none"
    BY <1>8, Zenon DEF Stages
  <2>2. Queued(stage)
    BY <1>2, <2>1 DEF Queued
  <2>3. Located(stage)
    BY <1>2, <1>3, <2>1 DEF Located, LocatedAt, HeldIn
  <2>4. Reported(stage)
    BY <1>3 DEF Reported, ToldBy
  <2>5. \A q \in Req : HeldBy(q, stage[q]) /\ CountedFor(q, stage[q])
    BY <1>3, <2>1, Zenon DEF HeldBy, CountedFor
  <2>6. QED  BY <2>1, <2>2, <2>3, <2>4, <2>5, Zenon DEF Whole
<1>10. QED  BY <1>1, <1>5, <1>6, <1>7, <1>9, Zenon DEF ServingIInv

(* Nothing of the system changes in a stuttering step.                       *)
LEMMA ServingStutters ==
    ASSUME ServingIInv, UNCHANGED servingVars
    PROVE  ServingIInv'
<1>1. PICK stage : Whole(stage)
  BY Zenon DEF ServingIInv
<1>2. UNCHANGED schedVars /\ UNCHANGED engineVars /\ UNCHANGED resultVars
  BY Zenon DEF servingVars
<1>3. /\ UNCHANGED <<policy, fresh, waiting_queue, got, seq_ranks, sent>>
      /\ UNCHANGED <<sampler, loading, forced, status, layer0, transit, num_free, blocks, lost,
                     seq_len, stash_slots, output_len>>
      /\ UNCHANGED <<results, token_streams, finished_seqs, fetched, resolved>>
  BY <1>2, Zenon DEF schedVars, engineVars, resultVars
<1>4. SchedIInv' /\ ServTypes /\ Pool /\ AllocSafe
  BY <1>2, SchedStutters, Zenon DEF ServingIInv
<1>5. ServTypes' /\ Pool' /\ AllocSafe'
  BY <1>3, <1>4, Zenon DEF ServTypes, Pool, AllocSafe
<1>6. Queued(stage)' /\ Located(stage)' /\ Reported(stage)'
  <2>1. Queued(stage) /\ Located(stage) /\ Reported(stage)
    BY <1>1, Zenon DEF Whole
  <2>2. Queued(stage)'
    BY <1>3, <2>1, Zenon DEF Queued
  <2>3. Located(stage)'
    BY <1>3, <2>1, ZenonT(30) DEF Located, LocatedAt
  <2>4. Reported(stage)'
    BY <1>3, <2>1 DEF Reported
  <2>5. QED  BY <2>2, <2>3, <2>4, Zenon
<1>7. ASSUME NEW q \in Req
      PROVE  HeldBy(q, stage[q])' /\ CountedFor(q, stage[q])'
  BY <1>1, <1>3, SameHeld, SameCounted, Zenon DEF Whole
<1>8. Whole(stage)'
  BY <1>1, <1>6, <1>7, Zenon DEF Whole
<1>9. QED  BY <1>4, <1>5, <1>8, Zenon DEF ServingIInv

(* Every step of the composition keeps the invariant.                        *)
LEMMA ServingStep == ServingIInv /\ [ServingNext]_servingVars => ServingIInv'
<1> SUFFICES ASSUME ServingIInv, [ServingNext]_servingVars
             PROVE  ServingIInv'
  BY Zenon
<1>1. ASSUME (Submit \/ Scheduler) /\ UNCHANGED <<engineVars, resultVars>>
      PROVE  ServingIInv'
  BY <1>1, SubmitServes, GetTaskServes, LoopServes, Zenon DEF Submit, Scheduler
<1>2. ASSUME NEW r \in Rank, Engine(r)
      PROVE  ServingIInv'
  <2>1. CASE RecvNewRequest(r)
    BY <2>1, RecvServes, Zenon
  <2>2. CASE \E q \in loading[r], ok, copied \in BOOLEAN : DrainKVLoad(r, q, ok, copied)
    BY <2>2, DrainServes, Zenon
  <2>3. CASE \E n \in 1 .. Len(layer0[r]) : AttnFirstLayer(r, n)
    BY <2>3, AttnServes, Zenon
  <2>4. CASE \E batch, early \in SUBSET transit[r] : SampleResults(r, batch, early)
    BY <2>4, SampleServes, Zenon
  <2>5. QED  BY <1>2, <2>1, <2>2, <2>3, <2>4, Zenon DEF Engine
<1>3. ASSUME NEW r \in Rank, DetokProcessBatch(r)
      PROVE  ServingIInv'
  BY <1>3, DetokServes, Zenon
<1>4. CASE PollFinishedResults
  BY <1>4, PollServes, Zenon
<1>5. CASE ProcessFinishedResults
  BY <1>5, ProcessServes, Zenon
<1>6. CASE UNCHANGED servingVars
  BY <1>6, ServingStutters, ZenonT(30)
<1>7. QED  BY <1>1, <1>2, <1>3, <1>4, <1>5, <1>6, ZenonT(30) DEF ServingNext


(* The pages of a request being loaded are free on its rank, or lost, when   *)
(* they are what was reserved for it.                                        *)
LEMMA LoadFits ==
    ASSUME ServingIInv, policy # "RR", NEW r \in Rank, status[r] = "up", NEW q \in loading[r],
           Aligned(q)
    PROVE  Pages(q) <= num_free[r] + lost[r]
<1>1. PICK stage : Whole(stage)
  BY Zenon DEF ServingIInv
<1>2. SchedIInv /\ SchedTypes /\ NoOverCommit /\ ServTypes /\ Pool
  BY Zenon DEF ServingIInv, SchedIInv
<1>3. q \in Req /\ stage[q] = "loading" /\ seq_ranks[q] = r /\ sampler = "mooncake"
  BY <1>1, <1>2, ZenonT(30) DEF Whole, Located, LocatedAt, ServTypes
<1>4. /\ Loaded(q) /\ blocks[q] = 0 /\ Pages(q) = BlocksFor(Prefill[q])
      /\ \A x \in Req : Declared(x)
  <2>1. HeldBy(q, "loading")
    BY <1>1, <1>3, Zenon DEF Whole
  <2>2. QED  BY <1>3, <2>1, AlignedPages, Zenon DEF HeldBy, Loaded, Declared
<1>5. /\ PrefillLen(q) = Prefill[q] /\ Prefill[q] \in Nat
      /\ ForcedLen(q) \in Nat /\ MaxOutputLen(q) \in Nat
  BY <1>2, <1>3, <1>4, RequestTypes, Zenon
<1>6. Prefill[q] <= PrefillLen(q) + ForcedLen(q) + MaxOutputLen(q)
  BY <1>5
<1>7. BlocksFor(Prefill[q]) <= Required[q] /\ BlocksFor(Prefill[q]) \in Nat
  BY <1>2, <1>3, <1>4, <1>5, <1>6, UseBound, BlocksForSuccessor, ZenonT(30)
<1>8. PICK S, need : S = On(Req, seq_ranks, r) /\ need = BlocksFor(Prefill[q])
  BY Zenon
<1>9. PICK extra : extra = [x \in Req |-> IF x = q THEN need ELSE 0]
  BY Zenon
<1>10. extra \in [Req -> Nat] /\ extra[q] = need /\ \A x \in Req : x # q => extra[x] = 0
  BY <1>3, <1>7, <1>8, <1>9, Zenon
<1>11. /\ IsFiniteSet(S) /\ S \in SUBSET Req /\ kv_cache_stats[r] \in Int /\ q \in S
       /\ \A x \in S : x \in Req /\ seq_ranks[x] = r
  BY <1>2, <1>3, <1>8, OnRank, Zenon DEF On
<1>12. \A x \in S : blocks[x] + extra[x] <= Required[x]
  <2>1. SUFFICES ASSUME NEW x \in S
                 PROVE  blocks[x] + extra[x] <= Required[x]
    BY Zenon
  <2>2. CASE x = q
    BY <1>4, <1>7, <1>8, <1>10, <2>2
  <2>3. CASE x # q
    <3>1. blocks[x] <= Required[x] /\ extra[x] = 0 /\ blocks[x] \in Nat
      BY <1>1, <1>2, <1>4, <1>10, <1>11, <2>3, HoldsReserved, ZenonT(30) DEF ServTypes
    <3>2. QED  BY <3>1
  <2>4. QED  BY <2>2, <2>3, Zenon
<1>13. SumFunctionOnSet(extra, S) <= num_free[r] + lost[r] - kv_cache_stats[r]
  BY <1>2, <1>8, <1>10, <1>12, RoomFor, ZenonT(30)
<1>14. SumFunctionOnSet(extra, S) = need
  <2>1. \A x \in S : extra[x] \in Nat
    BY <1>10, <1>11, Zenon
  <2>2. SumFunctionOnSet(extra, S) = extra[q] + SumFunctionOnSet(extra, S \ {q})
    BY <1>11, <2>1, SumRest, Zenon
  <2>3. IsFiniteSet(S \ {q}) /\ \A x \in S \ {q} : extra[x] = 0
    BY <1>10, <1>11, FS_RemoveElement, Zenon
  <2>4. SumFunctionOnSet(extra, S \ {q}) = 0
    BY <2>3, SumZero, Zenon
  <2>5. QED  BY <1>7, <1>8, <1>10, <2>2, <2>4
<1>15. kv_cache_stats[r] >= 0 /\ num_free[r] \in Nat /\ lost[r] \in Nat
  BY <1>2, Zenon DEF NoOverCommit, ServTypes
<1>16. QED  BY <1>4, <1>7, <1>8, <1>11, <1>13, <1>14, <1>15, SMTT(30)

(* The stock of the scheduler never exceeds the free blocks of the worker    *)
(* and those it lost to rejected requests, under every policy and for every  *)
(* sampler, as long as callers declare the prompt they send: blocks are      *)
(* reserved before waiting_loop sends a request, a request never holds more  *)
(* than its reservation, and del_seq returns it only after release_seqs.     *)
THEOREM ReservationsCoverUseAlways == ServingSpec => []ReservationsCoverUse
<1>1. ServingIInv => ReservationsCoverUse
  <2>1. SUFFICES ASSUME ServingIInv, NEW r \in Rank, status[r] = "up",
                        \A q \in Req : seq_ranks[q] = r => Declared(q)
                 PROVE  kv_cache_stats[r] <= num_free[r] + lost[r]
    BY Zenon DEF ReservationsCoverUse
  <2>2. PICK stage : Whole(stage)
    BY <2>1, Zenon DEF ServingIInv
  <2>3. SchedIInv /\ SchedTypes /\ ServTypes /\ Pool
    BY <2>1, Zenon DEF ServingIInv, SchedIInv
  <2>4. PICK S, extra : S = On(Req, seq_ranks, r) /\ extra = [q \in Req |-> 0]
    BY Zenon
  <2>5. /\ IsFiniteSet(S) /\ kv_cache_stats[r] \in Int /\ num_free[r] \in Nat /\ lost[r] \in Nat
        /\ \A x \in S : x \in Req /\ seq_ranks[x] = r
        /\ extra \in [Req -> Nat] /\ \A x \in S : extra[x] = 0
    BY <2>3, <2>4, OnRank, Zenon DEF On, ServTypes
  <2>6. \A x \in S : blocks[x] <= Required[x] /\ blocks[x] \in Nat
    BY <2>1, <2>2, <2>3, <2>5, HoldsReserved, ZenonT(30) DEF ServTypes
  <2>7. \A x \in S : blocks[x] + extra[x] <= Required[x]
    BY <2>5, <2>6
  <2>8. SumFunctionOnSet(extra, S) <= num_free[r] + lost[r] - kv_cache_stats[r]
    BY <2>1, <2>3, <2>4, <2>5, <2>7, RoomFor, ZenonT(30)
  <2>9. SumFunctionOnSet(extra, S) = 0
    BY <2>5, SumZero, ZenonT(30)
  <2>10. QED  BY <2>5, <2>8, <2>9
<1>2. QED  BY <1>1, ServingInitially, ServingStep, PTL DEF ServingSpec

(* A capacity-aware policy (max, cap_rr, weighted) protects the assertion of *)
(* BlockManager::allocate: no engine loop ever dies in it, and the pages of  *)
(* a request being loaded find room, but for blocks that rejected requests   *)
(* of the rank keep.                                                         *)
THEOREM AdmittedPromptFitsAlways == ServingSpec => []AdmittedPromptFits
<1>1. ServingIInv => AdmittedPromptFits
  BY LoadFits, Zenon DEF ServingIInv, AllocSafe, AdmittedPromptFits
<1>2. QED  BY <1>1, ServingInitially, ServingStep, PTL DEF ServingSpec

(* When process_finished_results resolves a request, the detokenizer has     *)
(* counted each of its tokens once, no result names it any more, and no      *)
(* queue, length or stash row of the worker is left of it.  Every block of a *)
(* running worker is free, held by a request whose reservation stands, or    *)
(* was kept by a request rejected after its install.                         *)
THEOREM ResolvedIsCleanAlways == ServingSpec => []ResolvedIsClean
<1>1. ServingIInv => ResolvedIsClean
  <2>1. SUFFICES ASSUME ServingIInv, NEW q \in resolved
                 PROVE  /\ token_streams[q] = IF output_len[q] = 0 THEN 1
                                              ELSE output_len[q] + ForcedLen(q)
                        /\ blocks[q] = 0 /\ seq_len[q] = 0 /\ q \notin stash_slots
                        /\ \A r \in Rank :
                              /\ q \notin transit[r]
                              /\ q \notin loading[r]
                              /\ q \notin Range(layer0[r])
                              /\ \A i \in DOMAIN results[r] : q \notin results[r][i].req_ids
    BY Zenon DEF ResolvedIsClean, ServingIInv, Pool, InUse, On
  <2>2. PICK stage : Whole(stage)
    BY <2>1, Zenon DEF ServingIInv
  <2>3. q \in Req /\ stage[q] = "done"
    BY <2>1, <2>2, Zenon DEF ServingIInv, ServTypes, Whole, Reported
  <2>4. HeldBy(q, "done") /\ CountedFor(q, "done")
    BY <2>2, <2>3, Zenon DEF Whole
  <2>5. token_streams[q] = Total(q)
    BY <2>4, Zenon DEF CountedFor
  <2>6. blocks[q] = 0 /\ seq_len[q] = 0 /\ q \notin stash_slots
    BY <2>4, Zenon DEF HeldBy
  <2>7. ASSUME NEW r \in Rank
        PROVE  /\ q \notin transit[r] /\ q \notin loading[r] /\ q \notin Range(layer0[r])
               /\ \A i \in DOMAIN results[r] : q \notin results[r][i].req_ids
    <3>1. LocatedAt(stage, r) /\ ToldBy(results[r], stage, seq_ranks, r)
      BY <2>2, Zenon DEF Whole, Located, Reported
    <3>2. q \notin transit[r] /\ q \notin loading[r]
      BY <2>3, <3>1, Zenon DEF LocatedAt
    <3>3. q \notin Range(layer0[r])
      BY <2>3, <3>1, Zenon DEF LocatedAt, HeldIn, Range
    <3>4. \A i \in DOMAIN results[r] : q \notin results[r][i].req_ids
      BY <2>3, <3>1, Zenon DEF ToldBy
    <3>5. QED  BY <3>2, <3>3, <3>4, Zenon
  <2>8. QED  BY <2>5, <2>6, <2>7, Zenon DEF Total
<1>2. QED  BY <1>1, ServingInitially, ServingStep, PTL DEF ServingSpec

=============================================================================
