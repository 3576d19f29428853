--------------------------- MODULE ServingProofs ----------------------------
(***************************************************************************)
(* Proofs about the global scheduler, and about the life of a request       *)
(* across scheduler, engine loops, detokenizer and controller, for any      *)
(* number of ranks and requests, any stock and any request sizes.           *)
(*                                                                          *)
(* First the scheduler alone; then the invariant of the composition, the    *)
(* lemmas about its queues, counts and blocks, and the steps of scheduler,  *)
(* detokenizer and controller.  ServingEngineProofs has the steps of the    *)
(* engine loops and the theorems.                                           *)
(***************************************************************************)
EXTENDS Serving, KVBlocksProofs


-----------------------------------------------------------------------------
\* The state functions the invariants are about, with their arguments.
On(D, ranks, r) == {q \in D : ranks[q] = r}
Reserved(D, ranks, r) == SumFunctionOnSet(Required, On(D, ranks, r))
Balanced(stats, ranks) == \A r \in Rank : stats[r] + Reserved(Req, ranks, r) = Capacity[r]

SchedTypes ==
    /\ policy \in Policies
    /\ fresh \in SUBSET Req
    /\ waiting_queue \in Seq(Req)
    /\ got \in Req \cup {NoReq}
    /\ loop \in {"get", "blocked", "stopped"}
    /\ kv_cache_stats \in [Rank -> Int]
    /\ seq_ranks \in [Req -> Rank \cup {-1}]
    /\ cur_rank \in Rank
    /\ sch_event \in BOOLEAN /\ end_flag \in BOOLEAN
    /\ sent \in [Rank -> Seq(Req)]

\* A request waits in one place and holds no reservation while it does: the
\* loop never reserves twice for one request.
Unplaced ==
    /\ \A i \in DOMAIN waiting_queue : /\ waiting_queue[i] \notin fresh
                                       /\ waiting_queue[i] # got
                                       /\ seq_ranks[waiting_queue[i]] = -1
    /\ \A i, j \in DOMAIN waiting_queue : waiting_queue[i] = waiting_queue[j] => i = j
    /\ got # NoReq => got \notin fresh /\ seq_ranks[got] = -1
    /\ \A q \in fresh : seq_ranks[q] = -1
    /\ loop = "blocked" => got # NoReq

SchedIInv ==
    /\ SchedTypes
    /\ Unplaced
    /\ ReservationsBalance
    /\ NoOverCommit
    /\ NoLostWakeup

-----------------------------------------------------------------------------
(* required_blocks is a natural for every request.                           *)
LEMMA RequiredType == Required \in [Req -> Nat]
<1>1. SUFFICES ASSUME NEW q \in Req
               PROVE  RequiredBlocks(Prefill[q], Output[q]) \in Nat
  BY Zenon DEF Required
<1>2. /\ Prefill[q] + BlockSize - 1 \in Nat
      /\ Output[q] + BlockSize - 1 \in Nat
  BY SchedAssumption, BlockSizeAssumption
<1>3. /\ (Prefill[q] + BlockSize - 1) \div BlockSize \in Nat
      /\ (Output[q] + BlockSize - 1) \div BlockSize \in Nat
  BY <1>2, DivMod, Zenon
<1>4. QED  BY <1>3 DEF RequiredBlocks

(* What a set of requests has reserved on a rank is a natural.               *)
LEMMA ReservedType ==
    ASSUME NEW D \in SUBSET Req, NEW ranks, NEW r
    PROVE  /\ IsFiniteSet(On(D, ranks, r))
           /\ Reserved(D, ranks, r) \in Nat
<1>1. IsFiniteSet(On(D, ranks, r))
  <2>1. On(D, ranks, r) \in SUBSET Req
    BY Zenon DEF On
  <2>2. QED  BY <2>1, SchedAssumption, FS_Subset, Zenon
<1>2. \A q \in On(D, ranks, r) : Required[q] \in Nat
  BY RequiredType, Zenon DEF On
<1>3. QED  BY <1>1, <1>2, SumType, Zenon DEF Reserved

\* (rank + k) % dp_size is a rank.
LEMMA RankMod ==
    ASSUME NEW n \in Nat
    PROVE  n % DpSize \in Rank
  BY SchedAssumption DEF Rank

\* Min picks an element.
LEMMA MinIn ==
    ASSUME NEW S \in SUBSET Nat, S # {}
    PROVE  Min(S) \in S /\ \A n \in S : Min(S) <= n
  BY NatMin, Zenon DEF Min

\* A policy returns a rank or -1, and all but plain round robin return a rank
\* that has the blocks.
LEMMA PickProperties ==
    ASSUME SchedTypes, NEW need \in Nat
    PROVE  /\ Pick(need) \in Rank \cup {-1}
           /\ policy # "RR" /\ Pick(need) >= 0 => kv_cache_stats[Pick(need)] >= need
<1> USE SchedAssumption DEF SchedTypes, Rank
<1>1. CASE policy = "RR"
  BY <1>1, Zenon DEF Pick
<1>2. CASE policy = "max"
  <2> DEFINE best == {r \in Rank : /\ kv_cache_stats[r] > 0
                                   /\ \A s \in Rank : kv_cache_stats[s] <= kv_cache_stats[r]}
  <2>1. CASE best = {}
    BY <1>2, <2>1 DEF Pick, MaxPick, First
  <2>2. CASE best # {}
    <3>1. First(best) \in best
      <4>1. best \in SUBSET Nat
        OBVIOUS
      <4> HIDE DEF best
      <4>2. QED  BY <2>2, <4>1, MinIn, Zenon DEF First
    <3>2. Pick(need) = IF kv_cache_stats[First(best)] < need THEN -1 ELSE First(best)
      BY <1>2, <2>2, Zenon DEF Pick, MaxPick
    <3>3. QED  BY <3>1, <3>2, SMTT(30)
  <2>3. QED  BY <2>1, <2>2, Zenon
<1>3. CASE policy = "cap_rr"
  <2> DEFINE fits == {k \in 0 .. DpSize - 1 :
                         kv_cache_stats[(cur_rank + k) % DpSize] >= need}
  <2>1. CASE fits = {}
    <3>1. Pick(need) = CapRRPick(need)
      BY <1>3, Zenon DEF Pick
    <3>2. CapRRPick(need) = -1
      BY <2>1, ZenonT(30) DEF CapRRPick
    <3>3. QED  BY <3>1, <3>2
  <2>2. CASE fits # {}
    <3>1. Min(fits) \in fits
      <4>1. fits \in SUBSET Nat
        OBVIOUS
      <4> HIDE DEF fits
      <4>2. QED  BY <2>2, <4>1, MinIn, Zenon
    <3>2. Pick(need) = (cur_rank + Min(fits)) % DpSize
      BY <1>3, <2>2, Zenon DEF Pick, CapRRPick
    <3>3. (cur_rank + Min(fits)) % DpSize \in Rank
      <4>1. Min(fits) \in Nat /\ cur_rank \in Nat
        BY <3>1
      <4> HIDE DEF fits
      <4>2. cur_rank + Min(fits) \in Nat
        BY <4>1, SMTT(30)
      <4>3. QED  BY <4>2, RankMod, Zenon
    <3>4. QED  BY <3>1, <3>2, <3>3, Zenon
  <2>3. QED  BY <2>1, <2>2, Zenon
<1>4. CASE policy = "weighted"
  <2> DEFINE fits == {r \in Rank : kv_cache_stats[r] >= need}
             best == {r \in fits : \A s \in fits :
                         kv_cache_stats[s] * Weight[s] <= kv_cache_stats[r] * Weight[r]}
  <2>1. Pick(need) = First(best)
    BY <1>4, Zenon DEF Pick, WeightedPick
  <2>2. CASE best = {}
    BY <2>1, <2>2, SMTT(30) DEF First
  <2>3. CASE best # {}
    <3>1. best \in SUBSET Nat
      OBVIOUS
    <3>2. First(best) \in best
      <4> HIDE DEF best
      <4>1. QED  BY <2>3, <3>1, MinIn, Zenon DEF First
    <3>3. QED  BY <2>1, <3>2, Zenon
  <2>4. QED  BY <2>2, <2>3, Zenon
<1>5. QED  BY <1>1, <1>2, <1>3, <1>4, Zenon

\* add_seq moves blocks from the stock to the request.
LEMMA AddBalances ==
    ASSUME NEW stats \in [Rank -> Int], NEW ranks \in [Req -> Rank \cup {-1}],
           Balanced(stats, ranks), NEW q \in Req, ranks[q] = -1, NEW k \in Rank
    PROVE  Balanced([stats EXCEPT ![k] = @ - Required[q]], [ranks EXCEPT ![q] = k])
<1> DEFINE ranks2 == [ranks EXCEPT ![q] = k]
           stats2 == [stats EXCEPT ![k] = @ - Required[q]]
<1>1. SUFFICES ASSUME NEW r \in Rank
               PROVE  stats2[r] + Reserved(Req, ranks2, r) = Capacity[r]
  BY Zenon DEF Balanced
<1>2. stats[r] + Reserved(Req, ranks, r) = Capacity[r]
  BY Zenon DEF Balanced
<1>3. k # -1 /\ Required[q] \in Nat /\ Reserved(Req, ranks, r) \in Nat /\ stats[r] \in Int
  <2>1. k # -1 /\ Required[q] \in Nat /\ stats[r] \in Int
    BY SchedAssumption, RequiredType DEF Rank
  <2>2. Req \in SUBSET Req
    BY Zenon
  <2>3. QED  BY <2>1, <2>2, ReservedType, Zenon
<1>4. CASE r # k
  <2>1. On(Req, ranks2, r) = On(Req, ranks, r)
    <3>1. r # -1
      BY SchedAssumption DEF Rank
    <3>2. QED  BY <1>4, <3>1, Zenon DEF On
  <2>2. stats2[r] = stats[r]
    BY <1>4, Zenon
  <2>3. QED  BY <1>2, <2>1, <2>2, Zenon DEF Reserved
<1>5. CASE r = k
  <2> DEFINE S == On(Req, ranks, r)
  <2>1. On(Req, ranks2, r) = S \cup {q}
    BY <1>5, Zenon DEF On
  <2>2. q \notin S /\ (S \cup {q}) \ {q} = S
    BY <1>3, <1>5, Zenon DEF On
  <2>3. IsFiniteSet(S \cup {q})
    <3>1. Req \in SUBSET Req
      BY Zenon
    <3>2. IsFiniteSet(S)
      BY <3>1, ReservedType, Zenon
    <3> HIDE DEF S
    <3>3. QED  BY <3>2, FS_AddElement, Zenon
  <2>4. SumFunctionOnSet(Required, S \cup {q}) = Required[q] + SumFunctionOnSet(Required, S)
    <3>1. \A x \in S \cup {q} : Required[x] \in Nat
      BY RequiredType, Zenon DEF On
    <3> HIDE DEF S
    <3>2. SumFunctionOnSet(Required, S \cup {q})
            = Required[q] + SumFunctionOnSet(Required, (S \cup {q}) \ {q})
      BY <2>3, <3>1, SumRest, Zenon
    <3>3. QED  BY <2>2, <3>2, Zenon
  <2>5. Reserved(Req, ranks2, r) = Required[q] + Reserved(Req, ranks, r)
    BY <2>1, <2>4, Zenon DEF Reserved
  <2>6. stats2[r] = stats[r] - Required[q]
    BY <1>5, Zenon
  <2>7. QED  BY <1>2, <1>3, <2>5, <2>6
<1>6. QED  BY <1>4, <1>5, Zenon

\* del_seq, for each request of D, gives exactly its blocks back.
LEMMA DelBalances ==
    ASSUME NEW stats \in [Rank -> Int], NEW ranks \in [Req -> Rank \cup {-1}],
           Balanced(stats, ranks), NEW D \in SUBSET Req
    PROVE  Balanced([r \in Rank |-> stats[r] + Reserved(D, ranks, r)],
                    [q \in Req |-> IF q \in D THEN -1 ELSE ranks[q]])
<1> DEFINE ranks2 == [q \in Req |-> IF q \in D THEN -1 ELSE ranks[q]]
<1>1. SUFFICES ASSUME NEW r \in Rank
               PROVE  stats[r] + Reserved(D, ranks, r) + Reserved(Req, ranks2, r) = Capacity[r]
  BY Zenon DEF Balanced
<1> DEFINE gone == On(D, ranks, r)
           left == On(Req \ D, ranks, r)
<1>2. On(Req, ranks2, r) = left
  <2>1. r # -1
    BY SchedAssumption DEF Rank
  <2>2. QED  BY <2>1, Zenon DEF On
<1>3. On(Req, ranks, r) = gone \cup left /\ gone \cap left = {}
  BY Zenon DEF On
<1>4. IsFiniteSet(gone) /\ IsFiniteSet(left)
  <2>1. Req \ D \in SUBSET Req
    BY Zenon
  <2>2. QED  BY <2>1, ReservedType, Zenon
<1>5. SumFunctionOnSet(Required, gone \cup left)
        = SumFunctionOnSet(Required, gone) + SumFunctionOnSet(Required, left)
  <2>1. \A x \in gone \cup left : Required[x] \in Nat
    BY RequiredType, Zenon DEF On
  <2>2. gone \cap left = {}
    BY Zenon DEF On
  <2> HIDE DEF gone, left
  <2>3. QED  BY <1>4, <2>1, <2>2, SumBoth, Zenon
<1>6. Reserved(Req, ranks, r) = Reserved(D, ranks, r) + Reserved(Req, ranks2, r)
  BY <1>2, <1>3, <1>5, Zenon DEF Reserved
<1>7. /\ Reserved(D, ranks, r) \in Nat
      /\ Reserved(Req, ranks2, r) \in Nat
      /\ stats[r] \in Int
      /\ stats[r] + Reserved(Req, ranks, r) = Capacity[r]
  <2>1. Reserved(D, ranks, r) \in Nat /\ Reserved(Req, ranks2, r) \in Nat
    <3> HIDE DEF ranks2
    <3>1. QED  BY ReservedType, Zenon
  <2>2. QED  BY <2>1, Zenon DEF Balanced
<1>8. QED  BY <1>6, <1>7

-----------------------------------------------------------------------------
\* What the policies look at.
PickOf(pol, stats, cur, need) ==
    LET best == {r \in Rank : /\ stats[r] > 0
                              /\ \A s \in Rank : stats[s] <= stats[r]}
        stat == IF best = {} THEN 0 ELSE stats[First(best)]
        next == {k \in 0 .. DpSize - 1 : stats[(cur + k) % DpSize] >= need}
        fits == {r \in Rank : stats[r] >= need}
        score(r) == stats[r] * Weight[r]
    IN  CASE pol = "RR"       -> cur
          [] pol = "max"      -> IF stat < need THEN -1 ELSE First(best)
          [] pol = "cap_rr"   -> IF next = {} THEN -1 ELSE (cur + Min(next)) % DpSize
          [] pol = "weighted" -> First({r \in fits : \A s \in fits : score(s) <= score(r)})

\* No sleep that a policy would end.
Awake(lp, pol, stats, cur, g, event) ==
    lp = "blocked" /\ PickOf(pol, stats, cur, Required[g]) >= 0 => event

(* NoLostWakeup as a predicate of the values it depends on.                  *)
LEMMA NoLostWakeupIsAwake ==
    /\ NoLostWakeup <=> Awake(loop, policy, kv_cache_stats, cur_rank, got, sch_event)
    /\ NoLostWakeup' <=> Awake(loop', policy', kv_cache_stats', cur_rank', got', sch_event')
  BY Zenon DEF NoLostWakeup, Awake, Pick, PickOf, MaxPick, CapRRPick, WeightedPick

(* ReservationsBalance as a predicate of the values it depends on.           *)
LEMMA BalanceIsBalanced ==
    /\ ReservationsBalance <=> Balanced(kv_cache_stats, seq_ranks)
    /\ ReservationsBalance' <=> Balanced(kv_cache_stats', seq_ranks')
  BY Zenon DEF ReservationsBalance, Balanced, Reserved, ReservedBy, On

\* A step that leaves the stock, the reservations and the policy's state
\* alone, and neither puts the loop to sleep nor clears its event.
LEMMA StockKept ==
    ASSUME SchedIInv, UNCHANGED <<policy, kv_cache_stats, seq_ranks, cur_rank>>,
           loop' = "blocked" => loop = "blocked" /\ got' = got /\ sch_event' = sch_event
    PROVE  ReservationsBalance' /\ NoOverCommit' /\ NoLostWakeup'
<1>1. ReservationsBalance'
  BY BalanceIsBalanced, Zenon DEF SchedIInv
<1>2. NoOverCommit'
  BY Zenon DEF SchedIInv, NoOverCommit
<1>3. NoLostWakeup'
  <2>1. CASE loop' = "blocked"
    BY <2>1, NoLostWakeupIsAwake, Zenon DEF SchedIInv
  <2>2. CASE loop' # "blocked"
    BY <2>2, Zenon DEF NoLostWakeup
  <2>3. QED  BY <2>1, <2>2, Zenon
<1>4. QED  BY <1>1, <1>2, <1>3, Zenon

(* The scheduler starts with its whole stock and nothing placed.             *)
LEMMA SchedInitially == SchedInit => SchedIInv
<1> SUFFICES ASSUME SchedInit
             PROVE  SchedIInv
  BY Zenon
<1> USE SchedAssumption DEF SchedInit
<1>2. SchedTypes
  <2>1. 0 \in Rank
    BY DEF Rank
  <2>2. kv_cache_stats \in [Rank -> Int]
    OBVIOUS
  <2>3. seq_ranks \in [Req -> Rank \cup {-1}] /\ sent \in [Rank -> Seq(Req)]
    OBVIOUS
  <2>4. waiting_queue \in Seq(Req) /\ got \in Req \cup {NoReq}
    OBVIOUS
  <2>5. QED  BY <2>1, <2>2, <2>3, <2>4, Zenon DEF SchedTypes
<1>3. Unplaced
  BY DEF Unplaced
<1>4. ReservationsBalance
  <2>1. ASSUME NEW r \in Rank
        PROVE  ReservedBy(Req, r) = 0
    <3>1. {q \in Req : seq_ranks[q] = r} = {}
      BY DEF Rank
    <3>2. QED  BY <3>1, SumEmpty, Zenon DEF ReservedBy
  <2>2. QED  BY <2>1 DEF ReservationsBalance
<1>5. NoOverCommit
  BY DEF NoOverCommit
<1>6. NoLostWakeup
  BY Zenon DEF NoLostWakeup
<1>7. QED  BY <1>2, <1>3, <1>4, <1>5, <1>6, Zenon DEF SchedIInv

(* put_request keeps the invariant of the scheduler.                         *)
LEMMA PutKeeps ==
    ASSUME SchedIInv, NEW q \in Req, PutRequest(q)
    PROVE  SchedIInv'
<1> USE DEF PutRequest
<1>1. SchedTypes'
  BY DEF SchedIInv, SchedTypes
<1>2. Unplaced'
  <2> USE DEF SchedIInv, SchedTypes
  <2>1. seq_ranks[q] = -1 /\ q # got /\ q # NoReq
    BY SchedAssumption, Zenon DEF Unplaced
  <2>2. \A i \in DOMAIN waiting_queue : waiting_queue[i] # q
    BY Zenon DEF Unplaced
  <2>3. /\ DOMAIN waiting_queue' = 1 .. Len(waiting_queue) + 1
        /\ waiting_queue'[Len(waiting_queue) + 1] = q
        /\ \A i \in 1 .. Len(waiting_queue) : waiting_queue'[i] = waiting_queue[i]
    OBVIOUS
  <2>4. QED  BY <2>1, <2>2, <2>3 DEF Unplaced
<1>3. ReservationsBalance' /\ NoOverCommit' /\ NoLostWakeup'
  BY StockKept, Zenon
<1>4. QED  BY <1>1, <1>2, <1>3, Zenon DEF SchedIInv

(* So does taking a request from waiting_queue,                              *)
LEMMA GetTaskKeeps ==
    ASSUME SchedIInv, GetTask
    PROVE  SchedIInv'
<1> USE DEF GetTask
<1>1. SchedTypes'
  BY DEF SchedIInv, SchedTypes
<1>2. Unplaced'
  <2> USE DEF SchedIInv, SchedTypes
  <2>1. /\ DOMAIN waiting_queue' = 1 .. Len(waiting_queue) - 1
        /\ \A i \in 1 .. Len(waiting_queue) - 1 : waiting_queue'[i] = waiting_queue[i + 1]
        /\ got' = waiting_queue[1] /\ 1 \in DOMAIN waiting_queue
        /\ DOMAIN waiting_queue = 1 .. Len(waiting_queue)
    OBVIOUS
  <2>2. QED  BY <2>1 DEF Unplaced
<1>3. ReservationsBalance' /\ NoOverCommit' /\ NoLostWakeup'
  BY StockKept, Zenon
<1>4. QED  BY <1>1, <1>2, <1>3, Zenon DEF SchedIInv

\* An attempt to place the request in the loop's hands.
LEMMA AttemptKeeps ==
    ASSUME SchedIInv, got # NoReq, Attempt(got), sch_event' \in BOOLEAN,
           UNCHANGED <<policy, fresh, waiting_queue, end_flag>>
    PROVE  SchedIInv'
<1> DEFINE need == Required[got]
           rank == Pick(Required[got])
<1>1. /\ got \in Req /\ seq_ranks[got] = -1 /\ got \notin fresh
      /\ SchedTypes /\ Unplaced
  BY Zenon DEF SchedIInv, SchedTypes, Unplaced
<1>2. need \in Nat
  BY <1>1, RequiredType, Zenon
<1>3. /\ rank \in Rank \cup {-1}
      /\ policy # "RR" /\ rank >= 0 => kv_cache_stats[rank] >= need
  BY <1>1, <1>2, PickProperties, Zenon
<1>4. cur_rank' \in Rank
  <2>1. rank \in Rank => rank + 1 \in Nat
    BY SchedAssumption DEF Rank
  <2>2. cur_rank' = IF policy \in {"RR", "cap_rr"} /\ rank >= 0
                    THEN (rank + 1) % DpSize ELSE cur_rank
    BY Zenon DEF Attempt, Advance
  <2>3. rank >= 0 => rank \in Rank
    BY <1>3
  <2>4. CASE policy \in {"RR", "cap_rr"} /\ rank >= 0
    BY <2>1, <2>2, <2>3, <2>4, RankMod, Zenon
  <2>5. CASE ~ (policy \in {"RR", "cap_rr"} /\ rank >= 0)
    BY <1>1, <2>2, <2>5, Zenon DEF SchedTypes
  <2>6. QED  BY <2>4, <2>5, Zenon
<1>5. CASE rank >= 0
  <2>1. /\ kv_cache_stats' = [kv_cache_stats EXCEPT ![rank] = @ - need]
        /\ seq_ranks' = [seq_ranks EXCEPT ![got] = rank]
        /\ sent' = [sent EXCEPT ![rank] = Append(@, got)]
        /\ got' = NoReq
        /\ loop' \in {"get", "stopped"}
    <3>1. ~ (rank < 0)
      BY <1>3, <1>5 DEF Rank
    <3>2. QED  BY <3>1, Zenon DEF Attempt, AddSeq
  <2>2. rank \in Rank
    BY <1>3, <1>5
  <2>3. SchedTypes'
    <3> HIDE DEF rank, need
    <3>1. kv_cache_stats' \in [Rank -> Int] /\ seq_ranks' \in [Req -> Rank \cup {-1}]
      BY <1>1, <1>2, <2>1, <2>2 DEF SchedTypes
    <3>2. sent' \in [Rank -> Seq(Req)]
      BY <1>1, <2>1, <2>2 DEF SchedTypes
    <3>3. QED  BY <1>1, <1>4, <2>1, <3>1, <3>2, Zenon DEF SchedTypes
  <2>4. Unplaced'
    <3> HIDE DEF rank, need
    <3>1. \A i \in DOMAIN waiting_queue : waiting_queue[i] \in Req /\ waiting_queue[i] # got
      BY <1>1 DEF SchedTypes, Unplaced
    <3>2. \A q \in Req : q # got => seq_ranks'[q] = seq_ranks[q]
      BY <1>1, <2>1, Zenon DEF SchedTypes
    <3>3. \A i \in DOMAIN waiting_queue : waiting_queue[i] # NoReq
      BY <3>1, SchedAssumption, Zenon
    <3>4. fresh \in SUBSET Req
      BY <1>1, Zenon DEF SchedTypes
    <3>5. QED  BY <1>1, <2>1, <3>1, <3>2, <3>3, <3>4, Zenon DEF Unplaced
  <2>5. ReservationsBalance'
    <3>1. Balanced(kv_cache_stats, seq_ranks)
      BY BalanceIsBalanced, Zenon DEF SchedIInv
    <3>2. kv_cache_stats \in [Rank -> Int] /\ seq_ranks \in [Req -> Rank \cup {-1}]
      BY <1>1, Zenon DEF SchedTypes
    <3> HIDE DEF rank
    <3>3. Balanced(kv_cache_stats', seq_ranks')
      BY <1>1, <2>1, <2>2, <3>1, <3>2, AddBalances, Zenon
    <3>4. QED  BY <3>3, BalanceIsBalanced, Zenon
  <2>6. NoOverCommit'
    <3>1. SUFFICES ASSUME policy # "RR", NEW r \in Rank
                   PROVE  kv_cache_stats'[r] >= 0
      BY Zenon DEF NoOverCommit
    <3>2. kv_cache_stats[r] >= 0
      BY <3>1, Zenon DEF SchedIInv, NoOverCommit
    <3>3. kv_cache_stats[rank] >= need
      BY <1>3, <1>5, <3>1, Zenon
    <3> HIDE DEF rank, need
    <3>4. QED  BY <1>1, <1>2, <2>1, <2>2, <3>2, <3>3 DEF SchedTypes
  <2>7. NoLostWakeup'
    BY <2>1, Zenon DEF NoLostWakeup
  <2>8. QED  BY <2>3, <2>4, <2>5, <2>6, <2>7, Zenon DEF SchedIInv
<1>6. CASE ~ (rank >= 0)
  <2>1. /\ UNCHANGED <<kv_cache_stats, seq_ranks, sent, cur_rank>>
        /\ got' = got /\ loop' = "blocked"
    <3>1. rank < 0
      BY <1>3, <1>6 DEF Rank
    <3>2. QED  BY <1>6, <3>1, Zenon DEF Attempt, Advance
  <2>2. SchedTypes'
    BY <1>1, <2>1, Zenon DEF SchedTypes
  <2>3. Unplaced'
    BY <1>1, <2>1, Zenon DEF Unplaced
  <2>4. ReservationsBalance'
    BY <2>1, BalanceIsBalanced, Zenon DEF SchedIInv
  <2>5. NoOverCommit'
    BY <2>1, Zenon DEF SchedIInv, NoOverCommit
  <2>6. NoLostWakeup'
    <3>1. PickOf(policy, kv_cache_stats, cur_rank, Required[got]) = rank
      BY Zenon DEF Pick, PickOf, MaxPick, CapRRPick, WeightedPick
    <3> HIDE DEF rank
    <3>2. Awake(loop', policy', kv_cache_stats', cur_rank', got', sch_event')
      BY <1>6, <2>1, <3>1, Zenon DEF Awake
    <3>3. QED  BY <3>2, NoLostWakeupIsAwake, Zenon
  <2>7. QED  BY <2>2, <2>3, <2>4, <2>5, <2>6, Zenon DEF SchedIInv
<1>7. QED  BY <1>5, <1>6, Zenon

(* a wake-up of the blocked loop,                                            *)
LEMMA LoopWakeKeeps ==
    ASSUME SchedIInv, LoopWake
    PROVE  SchedIInv'
<1>1. CASE end_flag
  <2>1. loop' = "stopped" /\ UNCHANGED <<got, kv_cache_stats, seq_ranks, cur_rank, sent>>
    BY <1>1, Zenon DEF LoopWake
  <2>2. UNCHANGED <<policy, fresh, waiting_queue, sch_event, end_flag>>
    BY Zenon DEF LoopWake
  <2>3. SchedTypes' /\ Unplaced'
    BY <2>1, <2>2, Zenon DEF SchedIInv, SchedTypes, Unplaced
  <2>4. QED  BY <2>1, <2>2, <2>3, StockKept, Zenon DEF SchedIInv
<1>2. CASE ~end_flag
  <2>1. got # NoReq /\ Attempt(got)
    BY <1>2, Zenon DEF LoopWake
  <2>2. UNCHANGED <<policy, fresh, waiting_queue, sch_event, end_flag>>
    BY Zenon DEF LoopWake
  <2>3. sch_event' \in BOOLEAN
    BY <2>2, Zenon DEF SchedIInv, SchedTypes
  <2>4. QED  BY <2>1, <2>2, <2>3, AttemptKeeps, Zenon
<1>3. QED  BY <1>1, <1>2, Zenon

(* its retry after the timeout,                                              *)
LEMMA LoopRetryKeeps ==
    ASSUME SchedIInv, LoopRetry
    PROVE  SchedIInv'
<1>1. got # NoReq
  BY Zenon DEF SchedIInv, Unplaced, LoopRetry
<1>2. QED  BY <1>1, AttemptKeeps, Zenon DEF LoopRetry

(* del_seqs from another thread,                                             *)
LEMMA DelSeqsKeeps ==
    ASSUME SchedIInv, NEW D \in SUBSET Req, DelSeqs(D)
    PROVE  SchedIInv'
<1>1. /\ SchedTypes /\ Unplaced
      /\ \A q \in D : seq_ranks[q] >= 0
      /\ seq_ranks' = [q \in Req |-> IF q \in D THEN -1 ELSE seq_ranks[q]]
      /\ sch_event' = TRUE
      /\ UNCHANGED <<policy, fresh, waiting_queue, got, loop, cur_rank, end_flag, sent>>
  BY Zenon DEF SchedIInv, DelSeqs
<1>2. kv_cache_stats' = [r \in Rank |-> kv_cache_stats[r] + Reserved(D, seq_ranks, r)]
  BY Zenon DEF DelSeqs, ReservedBy, Reserved, On
<1>3. \A r \in Rank : Reserved(D, seq_ranks, r) \in Nat
  BY ReservedType, Zenon
<1>4. SchedTypes'
  BY <1>1, <1>2, <1>3 DEF SchedTypes
<1>5. Unplaced'
  BY <1>1 DEF Unplaced, SchedTypes
<1>6. ReservationsBalance'
  <2>1. kv_cache_stats \in [Rank -> Int] /\ seq_ranks \in [Req -> Rank \cup {-1}]
    BY <1>1, Zenon DEF SchedTypes
  <2>2. Balanced(kv_cache_stats', seq_ranks')
    BY <1>1, <1>2, <2>1, DelBalances, BalanceIsBalanced, Zenon DEF SchedIInv
  <2>3. QED  BY <2>2, BalanceIsBalanced, Zenon
<1>7. NoOverCommit'
  BY <1>1, <1>2, <1>3 DEF SchedIInv, SchedTypes, NoOverCommit
<1>8. NoLostWakeup'
  BY <1>1, Zenon DEF NoLostWakeup
<1>9. QED  BY <1>4, <1>5, <1>6, <1>7, <1>8, Zenon DEF SchedIInv

(* terminate,                                                                *)
LEMMA TerminateKeeps ==
    ASSUME SchedIInv, Terminate
    PROVE  SchedIInv'
<1>1. SchedTypes' /\ Unplaced'
  BY Zenon DEF SchedIInv, SchedTypes, Unplaced, Terminate
<1>2. QED  BY <1>1, StockKept, Zenon DEF SchedIInv, Terminate

(* start,                                                                    *)
LEMMA StartKeeps ==
    ASSUME SchedIInv, Start
    PROVE  SchedIInv'
<1> USE SchedAssumption DEF Start
<1>1. SchedTypes'
  <2>1. kv_cache_stats' \in [Rank -> Int]
    OBVIOUS
  <2>2. waiting_queue' \in Seq(Req) /\ got' \in Req \cup {NoReq}
    OBVIOUS
  <2>3. QED  BY <2>1, <2>2, Zenon DEF SchedIInv, SchedTypes
<1>2. Unplaced'
  BY DEF SchedIInv, SchedTypes, Unplaced
<1>3. ReservationsBalance'
  <2>1. ASSUME NEW r \in Rank
        PROVE  kv_cache_stats'[r] + Reserved(Req, seq_ranks', r) = Capacity[r]
    <3>1. On(Req, seq_ranks', r) = {}
      BY DEF On, Rank
    <3>2. Reserved(Req, seq_ranks', r) = 0
      BY <3>1, SumEmpty, Zenon DEF Reserved
    <3>3. QED  BY <3>2
  <2>2. QED  BY <2>1, BalanceIsBalanced, Zenon DEF Balanced
<1>4. NoOverCommit'
  BY DEF NoOverCommit
<1>5. NoLostWakeup'
  BY Zenon DEF NoLostWakeup
<1>6. QED  BY <1>1, <1>2, <1>3, <1>4, <1>5, Zenon DEF SchedIInv

(* and a step of anyone else.                                                *)
LEMMA SchedStutters ==
    ASSUME SchedIInv, UNCHANGED schedVars
    PROVE  SchedIInv'
<1> USE DEF schedVars
<1>1. SchedTypes' /\ Unplaced'
  BY Zenon DEF SchedIInv, SchedTypes, Unplaced
<1>2. QED  BY <1>1, StockKept, Zenon DEF SchedIInv

(* Every step of the scheduler and its callers.                              *)
LEMMA SchedNext == SchedIInv /\ [Next]_schedVars => SchedIInv'
<1> SUFFICES ASSUME SchedIInv, [Next]_schedVars
             PROVE  SchedIInv'
  BY Zenon
<1>1. ASSUME NEW q \in Req, PutRequest(q)  PROVE SchedIInv'
  BY <1>1, PutKeeps, Zenon
<1>2. CASE GetTask
  BY <1>2, GetTaskKeeps, Zenon
<1>3. CASE LoopWake
  BY <1>3, LoopWakeKeeps, Zenon
<1>4. CASE LoopRetry
  BY <1>4, LoopRetryKeeps, Zenon
<1>5. ASSUME NEW D \in SUBSET Req \ {{}}, DelSeqs(D)  PROVE SchedIInv'
  BY <1>5, DelSeqsKeeps, Zenon
<1>6. CASE Terminate
  BY <1>6, TerminateKeeps, Zenon
<1>7. CASE Start
  BY <1>7, StartKeeps, Zenon
<1>8. CASE UNCHANGED schedVars
  BY <1>8, SchedStutters, Zenon
<1>9. QED  BY <1>1, <1>2, <1>3, <1>4, <1>5, <1>6, <1>7, <1>8, Zenon DEF Next

(* Whatever is submitted, placed and finished, across termination and       *)
(* restart: the stock of every rank and the reservations on it add up to    *)
(* its capacity (add_seq, del_seq, start).                                  *)
THEOREM ReservationsBalanceAlways == Spec => []ReservationsBalance
<1>1. SchedIInv => ReservationsBalance
  BY Zenon DEF SchedIInv
<1>2. QED  BY <1>1, SchedInitially, SchedNext, PTL DEF Spec

(* Under every policy but plain round robin no rank is given more than its   *)
(* stock holds: kv_cache_stats is never negative (max, cap_rr, weighted).    *)
THEOREM NoOverCommitAlways == Spec => []NoOverCommit
<1>1. SchedIInv => NoOverCommit
  BY Zenon DEF SchedIInv
<1>2. QED  BY <1>1, SchedInitially, SchedNext, PTL DEF Spec

(* waiting_loop never sleeps on a request its policy would place now unless *)
(* sch_event is already set, under all four policies: only del_seq makes    *)
(* room, and the loop clears the event before it looks, not after.          *)
THEOREM NoLostWakeupAlways == Spec => []NoLostWakeup
<1>1. SchedIInv => NoLostWakeup
  BY Zenon DEF SchedIInv
<1>2. QED  BY <1>1, SchedInitially, SchedNext, PTL DEF Spec



-----------------------------------------------------------------------------
Result == [req_ids : SUBSET Req, eos : SUBSET Req]

ServTypes ==
    /\ sampler \in Samplers
    /\ loading \in [Rank -> SUBSET Req]
    /\ forced \in [Req -> Nat]
    /\ status \in [Rank -> {"up", "allocate", "append_tokens", "stash"}]
    /\ layer0 \in [Rank -> Seq(Req)]
    /\ transit \in [Rank -> SUBSET Req]
    /\ num_free \in [Rank -> Nat]
    /\ blocks \in [Req -> Nat]
    /\ lost \in [Rank -> Nat]
    /\ seq_len \in [Req -> Nat]
    /\ stash_slots \in SUBSET Req
    /\ output_len \in [Req -> Nat]
    /\ results \in [Rank -> Seq(Result)]
    /\ token_streams \in [Req -> Nat]
    /\ finished_seqs \in SUBSET Req
    /\ fetched \in Seq(SUBSET Req)
    /\ resolved \in SUBSET Req

\* Where a request is on its way.  A request is "lost" when the batch that
\* ended the engine loop of its rank held it.
Stages == {"none", "sent", "loading", "layer0", "transit", "lost", "reported",
           "finished", "fetched", "done"}

Queued(stage) ==
    /\ \A q \in fresh : stage[q] = "none"
    /\ \A i \in DOMAIN waiting_queue : stage[waiting_queue[i]] = "none"
    /\ got # NoReq => stage[got] = "none"
    /\ \A q \in Req : seq_ranks[q] = -1 <=> stage[q] \in {"none", "done"}

\* The queue s of rank r holds requests at stage st, each of them once.
HeldIn(s, stage, st, ranks, r) ==
    /\ \A i \in DOMAIN s : stage[s[i]] = st /\ ranks[s[i]] = r
    /\ \A i, j \in DOMAIN s : s[i] = s[j] => i = j

LocatedAt(stage, r) ==
    /\ HeldIn(sent[r], stage, "sent", seq_ranks, r)
    /\ HeldIn(layer0[r], stage, "layer0", seq_ranks, r)
    /\ \A q \in loading[r] : stage[q] = "loading" /\ seq_ranks[q] = r /\ sampler = "mooncake"
    /\ \A q \in transit[r] : stage[q] = "transit" /\ seq_ranks[q] = r
    /\ \A q \in Req : stage[q] = "lost" /\ seq_ranks[q] = r => status[r] # "up"

Located(stage) == \A r \in Rank : LocatedAt(stage, r)

\* The results s of rank r are about requests it has run; an end of sequence
\* is the last thing it says about a request.
ToldBy(s, stage, ranks, r) ==
    \A i \in DOMAIN s :
        /\ \A q \in s[i].req_ids :
              ranks[q] = r /\ stage[q] \in {"layer0", "transit", "lost", "reported"}
        /\ \A q \in s[i].eos :
              /\ q \in s[i].req_ids /\ stage[q] = "reported"
              /\ \A j \in DOMAIN s : j > i => q \notin s[j].req_ids

Reported(stage) ==
    /\ \A r \in Rank : ToldBy(results[r], stage, seq_ranks, r)
    /\ \A q \in finished_seqs : stage[q] = "finished"
    /\ \A i \in DOMAIN fetched : \A q \in fetched[i] :
        /\ stage[q] = "fetched"
        /\ \A j \in DOMAIN fetched : q \in fetched[j] => i = j
    /\ \A q \in resolved : stage[q] = "done"

TokensDone(q) == ForcedLen(q) - forced[q] + output_len[q]

\* With a KV store only requests whose pages are what was declared run.
Loaded(q) == sampler = "mooncake" => Aligned(q)

\* What the worker keeps of request q.
HeldBy(q, st) ==
    /\ st \in {"none", "sent", "loading"} =>
          /\ blocks[q] = 0 /\ seq_len[q] = 0 /\ q \notin stash_slots
          /\ output_len[q] = 0 /\ forced[q] = 0
    /\ st \in {"layer0", "transit"} =>
          /\ Loaded(q)
          /\ output_len[q] < MaxOutputLen(q)
          /\ forced[q] <= ForcedLen(q)
          /\ forced[q] > 0 => output_len[q] = 0
    /\ st = "layer0" /\ seq_len[q] = 0 =>
          /\ blocks[q] = IF sampler = "mooncake" THEN BlocksFor(PrefillLen(q)) ELSE 0
          /\ output_len[q] = 0 /\ forced[q] = ForcedLen(q)
    /\ st = "layer0" /\ seq_len[q] > 0 =>
          /\ blocks[q] = BlocksFor(seq_len[q])
          /\ seq_len[q] = PrefillLen(q) + TokensDone(q)
    /\ st = "transit" =>
          /\ blocks[q] = BlocksFor(seq_len[q])
          /\ seq_len[q] = PrefillLen(q) + TokensDone(q) + 1
    /\ st \in {"reported", "finished", "fetched", "done"} =>
          blocks[q] = 0 /\ seq_len[q] = 0 /\ q \notin stash_slots

Total(q) == IF output_len[q] = 0 THEN 1 ELSE output_len[q] + ForcedLen(q)
Mentions(s, q) == {i \in DOMAIN s : q \in s[i].req_ids}
Told(q) == Cardinality(Mentions(results[seq_ranks[q]], q))

\* The tokens of request q: seen by the detokenizer, or in a result.
CountedFor(q, st) ==
    /\ st \in {"none", "sent", "loading"} => token_streams[q] = 0
    /\ st \in {"layer0", "transit"} => token_streams[q] + Told(q) = TokensDone(q)
    /\ st = "reported" => token_streams[q] + Told(q) = Total(q)
    /\ st \in {"finished", "fetched", "done"} => token_streams[q] = Total(q)

\* Blocks in use on r, and the pool of its worker.
InUse(use, ranks, r) == SumFunctionOnSet(use, On(Req, ranks, r))

Pool == \A r \in Rank :
    /\ status[r] = "up" => num_free[r] + lost[r] + InUse(blocks, seq_ranks, r) = Capacity[r]
    /\ lost[r] > 0 => sampler = "mooncake"

AllocSafe == policy # "RR" => \A r \in Rank : status[r] # "allocate"

Whole(stage) ==
    /\ stage \in [Req -> Stages]
    /\ Queued(stage)
    /\ Located(stage)
    /\ Reported(stage)
    /\ \A q \in Req : HeldBy(q, stage[q]) /\ CountedFor(q, stage[q])

ServingIInv ==
    /\ SchedIInv
    /\ ServTypes
    /\ Pool
    /\ AllocSafe
    /\ \E stage : Whole(stage)

-----------------------------------------------------------------------------
\* Queues.

Pushed(s, q, t) == t = Append(s, q)
Cut(s, n, t) == t = SubSeq(s, n + 1, Len(s))
Joined(s, t, u) == u = s \o t
Enters(q, stage, stage2, st, ranks, ranks2, r) ==
    /\ \A p \in Req : stage[p] = st => p # q /\ stage2[p] = st /\ ranks2[p] = ranks[p]
    /\ stage2[q] = st /\ ranks2[q] = r
AllEnter(t, stage, stage2, st, ranks, r) ==
    /\ \A p \in Req : stage[p] = st => stage2[p] = st
    /\ \A i \in DOMAIN t : stage[t[i]] # st /\ stage2[t[i]] = st /\ ranks[t[i]] = r
    /\ \A i, j \in DOMAIN t : t[i] = t[j] => i = j

(* A queue that holds the requests of a stage still does when one enters.    *)
LEMMA HeldInAppend ==
    ASSUME NEW s \in Seq(Req), NEW q \in Req, NEW stage, NEW stage2, NEW st, NEW ranks, NEW ranks2,
           NEW r, NEW t, HeldIn(s, stage, st, ranks, r),
           Enters(q, stage, stage2, st, ranks, ranks2, r), Pushed(s, q, t)
    PROVE  HeldIn(t, stage2, st, ranks2, r)
<1>1. /\ DOMAIN t = 1 .. Len(s) + 1 /\ DOMAIN s = 1 .. Len(s)
      /\ t[Len(s) + 1] = q /\ \A i \in 1 .. Len(s) : t[i] = s[i]
  BY DEF Pushed
<1>2. \A i \in 1 .. Len(s) : s[i] \in Req /\ s[i] # q
  BY <1>1 DEF HeldIn, Enters
<1>3. QED  BY <1>1, <1>2 DEF HeldIn, Enters

\* A stretch of a queue, for requests that stay where they are.
LEMMA HeldInSubSeq ==
    ASSUME NEW s \in Seq(Req), NEW n \in 0 .. Len(s), NEW stage, NEW stage2, NEW st, NEW ranks,
           NEW r, NEW t, HeldIn(s, stage, st, ranks, r),
           \A i \in n + 1 .. Len(s) : stage2[s[i]] = st,
           Cut(s, n, t)
    PROVE  HeldIn(t, stage2, st, ranks, r)
<1>1. /\ DOMAIN t = 1 .. Len(s) - n /\ DOMAIN s = 1 .. Len(s)
      /\ \A i \in 1 .. Len(s) - n : t[i] = s[i + n]
  BY DEF Cut
<1>2. /\ Len(s) \in Nat /\ n \in Nat
      /\ \A i \in 1 .. Len(s) - n : i + n \in n + 1 .. Len(s) /\ i + n \in 1 .. Len(s)
  OBVIOUS
<1>3. \A i \in DOMAIN t : stage2[t[i]] = st /\ ranks[t[i]] = r
  BY <1>1, <1>2 DEF HeldIn
<1>4. ASSUME NEW i \in DOMAIN t, NEW j \in DOMAIN t, t[i] = t[j]
      PROVE  i = j
  <2>1. s[i + n] = s[j + n] /\ i + n \in DOMAIN s /\ j + n \in DOMAIN s
    BY <1>1, <1>2, <1>4, Zenon
  <2>2. i + n = j + n
    BY <2>1, Zenon DEF HeldIn
  <2>3. QED  BY <1>1, <1>2, <2>2
<1>5. QED  BY <1>3, <1>4, Zenon DEF HeldIn

(* and when nobody enters or leaves.                                         *)
LEMMA HeldInSame ==
    ASSUME NEW s \in Seq(Req), NEW stage, NEW stage2, NEW st, NEW ranks, NEW ranks2,
           NEW r, HeldIn(s, stage, st, ranks, r),
           \A p \in Req : stage[p] = st => stage2[p] = st /\ ranks2[p] = ranks[p]
    PROVE  HeldIn(s, stage2, st, ranks2, r)
  BY DEF HeldIn

(* InSomeOrder lists each member once.                                       *)
LEMMA InSomeOrderIs ==
    ASSUME NEW S, IsFiniteSet(S)
    PROVE  /\ InSomeOrder(S) \in Seq(S)
           /\ \A i, j \in DOMAIN InSomeOrder(S) : InSomeOrder(S)[i] = InSomeOrder(S)[j] => i = j
<1> DEFINE n == Cardinality(S)
<1>1. n \in Nat /\ ExistsBijection(1 .. n, S)
  BY FS_CardinalityType, Zenon
<1>2. Injection(1 .. n, S) # {}
  BY <1>1, Zenon DEF ExistsBijection, Bijection
<1>3. InSomeOrder(S) \in Injection(1 .. n, S)
  BY <1>2, Zenon DEF InSomeOrder
<1>4. QED  BY <1>1, <1>3 DEF Injection, IsInjective

(* A queue takes a whole batch of entering requests.                         *)
LEMMA HeldInConcat ==
    ASSUME NEW s \in Seq(Req), NEW t \in Seq(Req), NEW stage, NEW stage2, NEW st, NEW ranks, NEW r,
           NEW u, HeldIn(s, stage, st, ranks, r),
           AllEnter(t, stage, stage2, st, ranks, r), Joined(s, t, u)
    PROVE  HeldIn(u, stage2, st, ranks, r)
<1>1. /\ DOMAIN u = 1 .. Len(s) + Len(t) /\ DOMAIN s = 1 .. Len(s) /\ DOMAIN t = 1 .. Len(t)
      /\ \A i \in 1 .. Len(s) : u[i] = s[i]
      /\ \A i \in 1 .. Len(t) : u[Len(s) + i] = t[i]
      /\ Len(s) \in Nat /\ Len(t) \in Nat
  BY DEF Joined
<1>2. \A i \in DOMAIN u : \/ i \in 1 .. Len(s) /\ u[i] = s[i]
                          \/ i - Len(s) \in 1 .. Len(t) /\ u[i] = t[i - Len(s)]
  <2>1. SUFFICES ASSUME NEW i \in DOMAIN u, i \notin 1 .. Len(s)
                 PROVE  i - Len(s) \in 1 .. Len(t) /\ u[i] = t[i - Len(s)]
    BY <1>1, Zenon
  <2>2. i - Len(s) \in 1 .. Len(t) /\ i = Len(s) + (i - Len(s))
    BY <1>1, <2>1
  <2>3. QED  BY <1>1, <2>2, Zenon
<1>3. \A i \in 1 .. Len(s) : s[i] \in Req /\ stage[s[i]] = st /\ stage2[s[i]] = st /\ ranks[s[i]] = r
  BY <1>1 DEF HeldIn, AllEnter
<1>4. \A i \in DOMAIN u : stage2[u[i]] = st /\ ranks[u[i]] = r
  BY <1>1, <1>2, <1>3 DEF AllEnter
<1>5. ASSUME NEW i \in DOMAIN u, NEW j \in DOMAIN u, u[i] = u[j]
      PROVE  i = j
  <2>1. CASE i \in 1 .. Len(s) /\ j \in 1 .. Len(s)
    BY <1>1, <1>5, <2>1, ZenonT(30) DEF HeldIn
  <2>2. CASE i \notin 1 .. Len(s) /\ j \notin 1 .. Len(s)
    <3>1. i - Len(s) = j - Len(s)
      BY <1>1, <1>2, <1>5, <2>2, SMTT(30) DEF AllEnter
    <3>2. QED  BY <1>1, <3>1
  <2>3. CASE i \in 1 .. Len(s) /\ j \notin 1 .. Len(s)
    BY <1>1, <1>2, <1>3, <1>5, <2>3, SMTT(30) DEF AllEnter
  <2>4. CASE i \notin 1 .. Len(s) /\ j \in 1 .. Len(s)
    BY <1>1, <1>2, <1>3, <1>5, <2>4 DEF AllEnter
  <2>5. QED  BY <2>1, <2>2, <2>3, <2>4, Zenon
<1>6. QED  BY <1>4, <1>5, Zenon DEF HeldIn

-----------------------------------------------------------------------------
\* Counting the results that mention a request.

(* The results that mention a request are finitely many.                     *)
LEMMA MentionsType ==
    ASSUME NEW s \in Seq(Result), NEW q
    PROVE  IsFiniteSet(Mentions(s, q)) /\ Cardinality(Mentions(s, q)) \in Nat
<1>1. IsFiniteSet(1 .. Len(s)) /\ Mentions(s, q) \in SUBSET (1 .. Len(s))
  BY FS_Interval DEF Mentions
<1>2. QED  BY <1>1, FS_Subset, FS_CardinalityType, Zenon

(* A new result adds one mention of each of its requests.                    *)
LEMMA MentionsAppend ==
    ASSUME NEW s \in Seq(Result), NEW e \in Result, NEW q
    PROVE  Cardinality(Mentions(Append(s, e), q))
             = Cardinality(Mentions(s, q)) + (IF q \in e.req_ids THEN 1 ELSE 0)
<1> DEFINE t == Append(s, e)
<1>1. /\ DOMAIN t = 1 .. Len(s) + 1 /\ DOMAIN s = 1 .. Len(s) /\ Len(s) \in Nat
      /\ t[Len(s) + 1] = e /\ \A i \in 1 .. Len(s) : t[i] = s[i]
  OBVIOUS
<1>2. IsFiniteSet(Mentions(s, q)) /\ Cardinality(Mentions(s, q)) \in Nat
  BY MentionsType, Zenon
<1> HIDE DEF t
<1>3. CASE q \in e.req_ids
  <2>1. Mentions(t, q) = Mentions(s, q) \cup {Len(s) + 1}
    BY <1>1, <1>3 DEF Mentions
  <2>2. Len(s) + 1 \notin Mentions(s, q)
    BY <1>1 DEF Mentions
  <2>3. QED  BY <1>2, <1>3, <2>1, <2>2, FS_AddElement, ZenonT(30) DEF t
<1>4. CASE q \notin e.req_ids
  <2>1. Mentions(t, q) = Mentions(s, q)
    BY <1>1, <1>4 DEF Mentions
  <2>2. QED  BY <1>2, <1>4, <2>1, SMTT(30) DEF t
<1>5. QED  BY <1>3, <1>4, Zenon

(* A result taken away removes one.                                          *)
LEMMA MentionsTail ==
    ASSUME NEW s \in Seq(Result), s # <<>>, NEW q
    PROVE  Cardinality(Mentions(s, q))
             = Cardinality(Mentions(Tail(s), q)) + (IF q \in Head(s).req_ids THEN 1 ELSE 0)
<1> DEFINE t == Tail(s)
           M == Mentions(s, q) \ {1}
           b == [i \in Mentions(t, q) |-> i + 1]
<1>1. /\ t \in Seq(Result) /\ DOMAIN t = 1 .. Len(s) - 1 /\ DOMAIN s = 1 .. Len(s)
      /\ Len(s) \in Nat \ {0}
      /\ Head(s) = s[1] /\ \A i \in 1 .. Len(s) - 1 : t[i] = s[i + 1]
  OBVIOUS
<1> HIDE DEF t
<1>2. /\ IsFiniteSet(Mentions(s, q)) /\ IsFiniteSet(Mentions(t, q))
      /\ Cardinality(Mentions(s, q)) \in Nat /\ Cardinality(Mentions(t, q)) \in Nat
  BY <1>1, MentionsType, Zenon
<1>3. b \in Bijection(Mentions(t, q), M)
  <2>1. b \in [Mentions(t, q) -> M]
    BY <1>1 DEF Mentions
  <2>2. \A i, j \in Mentions(t, q) : b[i] = b[j] => i = j
    BY <1>1 DEF Mentions
  <2>3. ASSUME NEW k \in M
        PROVE  \E i \in Mentions(t, q) : b[i] = k
    <3>1. k \in 1 .. Len(s) /\ k # 1 /\ q \in s[k].req_ids
      BY <1>1, Zenon DEF Mentions
    <3>2. k - 1 \in 1 .. Len(s) - 1 /\ (k - 1) + 1 = k
      BY <1>1, <3>1
    <3>3. t[k - 1] = s[k]
      BY <1>1, <3>2, Zenon
    <3>4. k - 1 \in Mentions(t, q)
      BY <1>1, <3>1, <3>2, <3>3, Zenon DEF Mentions
    <3>5. QED  BY <3>2, <3>4, Zenon
  <2>4. QED  BY <2>1, <2>2, <2>3, Zenon DEF Bijection, Injection, Surjection, IsInjective
<1>4. Cardinality(M) = Cardinality(Mentions(t, q))
  <2>1. ExistsBijection(Mentions(t, q), M)
    BY <1>3, Zenon DEF ExistsBijection
  <2>2. QED  BY <1>2, <2>1, FS_Bijection, Zenon
<1>5. CASE q \in Head(s).req_ids
  <2>1. 1 \in Mentions(s, q)
    BY <1>1, <1>5 DEF Mentions
  <2>2. Cardinality(M) = Cardinality(Mentions(s, q)) - 1
    BY <1>2, <2>1, FS_RemoveElement, Zenon
  <2>3. QED  BY <1>2, <1>4, <1>5, <2>2 DEF t
<1>6. CASE q \notin Head(s).req_ids
  <2>1. M = Mentions(s, q)
    BY <1>1, <1>6, Zenon DEF Mentions
  <2> HIDE DEF M
  <2>2. Cardinality(Mentions(s, q)) = Cardinality(Mentions(t, q))
    BY <1>4, <2>1, Zenon
  <2>3. QED  BY <1>2, <1>6, <2>2 DEF t
<1>7. QED  BY <1>5, <1>6, Zenon

-----------------------------------------------------------------------------
\* What a request may come to hold, against what was reserved for it.

(* A request admitted with its pages has less than a page left to replay,    *)
(* and as many blocks as its declared prompt needs.                          *)
LEMMA AlignedPages ==
    ASSUME NEW q \in Req
    PROVE  /\ Pages(q) \in Nat
           /\ Aligned(q) => /\ Pages(q) = BlocksFor(Prefill[q])
                            /\ Tokens[q] - 1 - Prefill[q] \in 0 .. BlockSize - 1
<1>1. PICK t \in Nat, p \in Nat, m \in 0 .. BlockSize - 1 :
         t = Tokens[q] - 1 /\ p = Pages(q) /\ t = BlockSize * p + m
  <2>1. PICK t \in Nat : t = Tokens[q] - 1
    BY ServingAssumption
  <2>2. QED  BY <2>1, DivMod, Zenon DEF Pages
<1>2. SUFFICES ASSUME Aligned(q)
               PROVE  p = BlocksFor(Prefill[q]) /\ t - Prefill[q] \in 0 .. BlockSize - 1
  BY <1>1, Zenon
<1>3. BlockSize \in Nat \ {0} /\ Prefill[q] \in Nat /\ p * BlockSize = Prefill[q]
  BY <1>1, <1>2, SchedAssumption, BlockSizeAssumption, Zenon DEF Aligned
<1>4. BlockSize * p = Prefill[q]
  BY <1>3
<1>5. p = BlocksFor(Prefill[q])
  BY <1>4, BlocksForMultiple, Zenon
<1>6. t - Prefill[q] = m
  BY <1>1, <1>3, <1>4
<1>7. QED  BY <1>1, <1>5, <1>6, Zenon

(* Lengths of a request: what the sampler forces and generates stays within  *)
(* what the scheduler was told.                                              *)
LEMMA RequestTypes ==
    ASSUME SchedTypes, ServTypes, NEW q \in Req, Loaded(q)
    PROVE  /\ PrefillLen(q) \in Nat /\ ForcedLen(q) \in Nat
           /\ MaxOutputLen(q) \in Nat \ {0}
           /\ sampler # "mooncake" /\ Declared(q) =>
                 PrefillLen(q) + ForcedLen(q) + MaxOutputLen(q) <= Prefill[q] + Output[q]
           /\ sampler = "mooncake" => /\ PrefillLen(q) = Prefill[q]
                                      /\ ForcedLen(q) < BlockSize
                                      /\ \/ ForcedLen(q) + MaxOutputLen(q) = Output[q]
                                         \/ ForcedLen(q) + MaxOutputLen(q) = ForcedLen(q) + 1
<1>1. /\ Prefill[q] \in Nat /\ Output[q] \in Nat \ {0} /\ Tokens[q] \in Nat \ {0}
      /\ BlockSize \in Nat \ {0}
  BY SchedAssumption, ServingAssumption, BlockSizeAssumption
<1>2. CASE sampler = "dummy"
  BY <1>1, <1>2 DEF PrefillLen, ForcedLen, MaxOutputLen
<1>3. CASE sampler = "none"
  BY <1>1, <1>3 DEF PrefillLen, ForcedLen, MaxOutputLen, Declared
<1>4. CASE sampler = "mooncake"
  <2>1. PICK f \in Nat : f = ForcedLen(q) /\ f < BlockSize
    <3>1. ForcedLen(q) = Tokens[q] - 1 - Prefill[q]
      BY <1>4, Zenon DEF ForcedLen
    <3>2. Tokens[q] - 1 - Prefill[q] \in 0 .. BlockSize - 1
      BY <1>4, AlignedPages, Zenon DEF Loaded
    <3>3. QED  BY <1>1, <3>1, <3>2
  <2>2. PrefillLen(q) = Prefill[q] /\ MaxOutputLen(q) = Max({1, Output[q] - f})
    BY <1>4, <2>1, Zenon DEF PrefillLen, MaxOutputLen
  <2>3. PICK d \in Int : d = Output[q] - f
    BY <1>1
  <2>4. Max({1, d}) = IF d > 1 THEN d ELSE 1
    BY DEF Max
  <2>5. QED  BY <1>1, <1>4, <2>1, <2>2, <2>3, <2>4, SMTT(30)
<1>5. QED  BY <1>2, <1>3, <1>4, ServingAssumption, ZenonT(30) DEF ServTypes

(* The tokens a request ever has need no more blocks than were reserved.     *)
LEMMA UseBound ==
    ASSUME SchedTypes, ServTypes, NEW q \in Req, Loaded(q), Declared(q),
           NEW n \in Nat, n <= PrefillLen(q) + ForcedLen(q) + MaxOutputLen(q)
    PROVE  BlocksFor(n) \in Nat /\ BlocksFor(n) <= Required[q]
<1> DEFINE a == (Prefill[q] + BlockSize - 1) \div BlockSize
           b == (Output[q] + BlockSize - 1) \div BlockSize
<1>1. /\ Prefill[q] \in Nat /\ Output[q] \in Nat \ {0}
      /\ BlockSize \in Nat \ {0}
  BY SchedAssumption, ServingAssumption, BlockSizeAssumption
<1>2. /\ a \in Nat /\ Prefill[q] <= BlockSize * a
      /\ b \in Nat /\ Output[q] <= BlockSize * b
  BY <1>1, RoundedUp, Zenon
<1>3. Required[q] = a + b
  BY Zenon DEF Required, RequiredBlocks
<1> HIDE DEF a, b
<1>4. PICK x \in Nat, y \in Nat : x = BlockSize * a /\ y = BlockSize * b
  BY <1>1, <1>2
<1>5. BlockSize * (a + b) = x + y
  BY <1>1, <1>2, <1>4
<1>6. b > 0
  BY <1>1, <1>2
<1>7. y >= BlockSize
  BY <1>1, <1>2, <1>4, <1>6, SMTT(30)
<1>8. n <= x + y
  BY <1>1, <1>2, <1>4, <1>7, RequestTypes
<1>9. QED  BY <1>2, <1>3, <1>5, <1>8, BlocksForBound, SMTT(30)

\* A request of a running rank holds no more than was reserved for it.
LEMMA HoldsReserved ==
    ASSUME SchedTypes, ServTypes, NEW stage, Whole(stage), NEW q \in Req, NEW r \in Rank,
           seq_ranks[q] = r, status[r] = "up", Declared(q)
    PROVE  blocks[q] <= Required[q] /\ q \notin fresh
<1>1. r # -1
  BY SchedAssumption DEF Rank
<1>2. /\ stage[q] \in Stages /\ stage[q] # "none" /\ stage[q] # "done" /\ stage[q] # "lost"
      /\ q \notin fresh
  BY <1>1, ZenonT(30) DEF Whole, Queued, Located, LocatedAt
<1> SUFFICES blocks[q] <= Required[q]
  BY <1>2, Zenon
<1>3. /\ blocks[q] \in Nat /\ seq_len[q] \in Nat /\ forced[q] \in Nat /\ output_len[q] \in Nat
      /\ Required[q] \in Nat
  BY RequiredType, Zenon DEF ServTypes
<1>4. HeldBy(q, stage[q])
  BY Zenon DEF Whole
<1>5. CASE ~ (stage[q] = "layer0" \/ stage[q] = "transit")
  BY <1>2, <1>3, <1>4, <1>5, SMTT(30) DEF HeldBy, Stages
<1>6. CASE stage[q] = "layer0" \/ stage[q] = "transit"
  <2>1. Loaded(q)
    BY <1>4, <1>6, Zenon DEF HeldBy
  <2>2. /\ PrefillLen(q) \in Nat /\ ForcedLen(q) \in Nat /\ MaxOutputLen(q) \in Nat \ {0}
    BY <2>1, RequestTypes, Zenon
  <2>3. CASE stage[q] = "layer0" /\ seq_len[q] = 0
    <3>1. BlocksFor(PrefillLen(q)) <= Required[q]
      BY <2>1, <2>2, UseBound
    <3>2. blocks[q] = IF sampler = "mooncake" THEN BlocksFor(PrefillLen(q)) ELSE 0
      BY <1>4, <2>3, Zenon DEF HeldBy
    <3>3. QED  BY <1>3, <3>1, <3>2, SMTT(30)
  <2>4. CASE stage[q] = "transit" \/ (stage[q] = "layer0" /\ seq_len[q] > 0)
    <3>1. /\ blocks[q] = BlocksFor(seq_len[q])
          /\ \/ seq_len[q] = PrefillLen(q) + TokensDone(q)
             \/ seq_len[q] = PrefillLen(q) + TokensDone(q) + 1
          /\ output_len[q] < MaxOutputLen(q)
      BY <1>4, <2>4, Zenon DEF HeldBy
    <3>2. seq_len[q] <= PrefillLen(q) + ForcedLen(q) + MaxOutputLen(q)
      BY <1>3, <2>2, <3>1 DEF TokensDone
    <3>3. QED  BY <1>3, <2>1, <3>1, <3>2, UseBound, ZenonT(30)
  <2>5. seq_len[q] = 0 \/ seq_len[q] > 0
    BY <1>3
  <2>6. QED  BY <1>6, <2>3, <2>4, <2>5, ZenonT(30)
<1>7. QED  BY <1>5, <1>6, Zenon

(* The requests of a rank.                                                   *)
LEMMA OnRank ==
    ASSUME SchedTypes, NEW r \in Rank
    PROVE  /\ On(Req, seq_ranks, r) \in SUBSET Req
           /\ IsFiniteSet(On(Req, seq_ranks, r))
           /\ kv_cache_stats[r] \in Int /\ Capacity[r] \in Nat
<1>1. Req \in SUBSET Req
  BY Zenon
<1>2. IsFiniteSet(On(Req, seq_ranks, r))
  BY <1>1, ReservedType, Zenon
<1>3. QED  BY <1>2, SchedAssumption, Zenon DEF SchedTypes, On

\* Blocks that stay within the reservations, on top of those in use, are free.
LEMMA RoomFor ==
    ASSUME SchedIInv, ServTypes, Pool, NEW r \in Rank, status[r] = "up",
           NEW extra \in [Req -> Nat],
           \A q \in On(Req, seq_ranks, r) : blocks[q] + extra[q] <= Required[q]
    PROVE  SumFunctionOnSet(extra, On(Req, seq_ranks, r)) <= num_free[r] + lost[r] - kv_cache_stats[r]
<1> DEFINE S == On(Req, seq_ranks, r)
           both == [q \in Req |-> blocks[q] + extra[q]]
<1>1. SchedTypes
  BY Zenon DEF SchedIInv
<1>2. IsFiniteSet(S) /\ S \in SUBSET Req /\ kv_cache_stats[r] \in Int /\ Capacity[r] \in Nat
  BY <1>1, OnRank, ZenonT(30)
<1>3. \A q \in S : /\ blocks[q] \in Nat /\ extra[q] \in Nat /\ both[q] \in Nat
                   /\ both[q] = blocks[q] + extra[q]
                   /\ Required[q] \in Nat /\ both[q] <= Required[q]
  BY <1>2, RequiredType, SMTT(30) DEF ServTypes
<1>4. num_free[r] + lost[r] + SumFunctionOnSet(blocks, S) = Capacity[r]
  BY Zenon DEF Pool, InUse
<1>5. kv_cache_stats[r] + SumFunctionOnSet(Required, S) = Capacity[r]
  BY BalanceIsBalanced, Zenon DEF SchedIInv, Balanced, Reserved
<1>6. num_free[r] \in Nat /\ lost[r] \in Nat
  BY Zenon DEF ServTypes
<1> HIDE DEF S, both
<1>7. SumFunctionOnSet(both, S) = SumFunctionOnSet(blocks, S) + SumFunctionOnSet(extra, S)
  BY <1>2, <1>3, SumPlus, Zenon
<1>8. SumFunctionOnSet(both, S) <= SumFunctionOnSet(Required, S)
  <2>1. S \in SUBSET S
    BY Zenon
  <2>2. QED  BY <1>2, <1>3, <2>1, SumBelow, ZenonT(30)
<1>9. /\ SumFunctionOnSet(blocks, S) \in Nat /\ SumFunctionOnSet(extra, S) \in Nat
      /\ SumFunctionOnSet(Required, S) \in Nat
  BY <1>2, <1>3, SumType, ZenonT(30)
<1>10. SumFunctionOnSet(extra, S) <= num_free[r] + lost[r] - kv_cache_stats[r]
  BY <1>2, <1>4, <1>5, <1>6, <1>7, <1>8, <1>9, SMTT(30)
<1>11. QED  BY <1>10, Zenon DEF S

-----------------------------------------------------------------------------
\* What a step leaves alone.

(* What a request holds does not change with the state of others.            *)
LEMMA SameHeld ==
    ASSUME NEW q \in Req, NEW st, HeldBy(q, st), sampler' = sampler,
           blocks'[q] = blocks[q], seq_len'[q] = seq_len[q], output_len'[q] = output_len[q],
           forced'[q] = forced[q], q \in stash_slots' <=> q \in stash_slots
    PROVE  HeldBy(q, st)'
  BY Zenon DEF HeldBy, Loaded, TokensDone, PrefillLen, ForcedLen, MaxOutputLen

(* Nor does the count of its tokens.                                         *)
LEMMA SameCounted ==
    ASSUME NEW q \in Req, NEW st, CountedFor(q, st), sampler' = sampler,
           token_streams'[q] = token_streams[q], output_len'[q] = output_len[q],
           forced'[q] = forced[q], results'[seq_ranks'[q]] = results[seq_ranks[q]]
    PROVE  CountedFor(q, st)'
  BY Zenon DEF CountedFor, TokensDone, ForcedLen, Total, Told

(* The results of a rank still speak of requests of that rank.               *)
LEMMA ToldBySame ==
    ASSUME NEW s \in Seq(Result), NEW stage, NEW stage2, NEW ranks, NEW ranks2, NEW r,
           ToldBy(s, stage, ranks, r),
           \A p \in Req : ranks[p] = r /\ stage[p] \in {"layer0", "transit", "lost", "reported"} =>
              /\ stage2[p] \in {"layer0", "transit", "lost", "reported"}
              /\ stage[p] = "reported" => stage2[p] = "reported"
              /\ ranks2[p] = ranks[p]
    PROVE  ToldBy(s, stage2, ranks2, r)
<1>1. \A i \in DOMAIN s : s[i].req_ids \in SUBSET Req /\ s[i].eos \in SUBSET Req
  <2>1. \A i \in DOMAIN s : s[i] \in Result
    OBVIOUS
  <2>2. QED  BY <2>1, Zenon DEF Result
<1>2. QED  BY <1>1, Zenon DEF ToldBy

(* Steps of the scheduler leave engines, results and controller alone.       *)
LEMMA SchedulerFrame ==
    ASSUME ServTypes, Pool, AllocSafe, NEW stage, Whole(stage),
           UNCHANGED <<engineVars, resultVars, policy, seq_ranks, sent>>, Queued(stage)'
    PROVE  ServTypes' /\ Pool' /\ AllocSafe' /\ Whole(stage)'
<1> USE DEF engineVars, resultVars
<1>1. ServTypes' /\ Pool' /\ AllocSafe'
  BY ZenonT(30) DEF ServTypes, Pool, AllocSafe
<1>2. Located(stage)' /\ Reported(stage)'
  BY DEF Whole, Located, LocatedAt, Reported
<1>3. ASSUME NEW q \in Req
      PROVE  HeldBy(q, stage[q])' /\ CountedFor(q, stage[q])'
  BY SameHeld, SameCounted, Zenon DEF Whole
<1>4. QED  BY <1>1, <1>2, <1>3, Zenon DEF Whole

(* put_request keeps the invariant of the composition.                       *)
LEMMA SubmitServes ==
    ASSUME ServingIInv, NEW q \in Req, PutRequest(q),
           UNCHANGED <<engineVars, resultVars>>
    PROVE  ServingIInv'
<1>1. PICK stage : Whole(stage)
  BY Zenon DEF ServingIInv
<1>2. SchedIInv'
  BY PutKeeps, Zenon DEF ServingIInv
<1>3. /\ waiting_queue \in Seq(Req) /\ fresh \in SUBSET Req
      /\ sampler' = sampler
  BY Zenon DEF ServingIInv, SchedIInv, SchedTypes, engineVars
<1>4. Queued(stage)'
  <2>1. /\ DOMAIN waiting_queue' = 1 .. Len(waiting_queue) + 1
        /\ waiting_queue'[Len(waiting_queue) + 1] = q
        /\ \A i \in 1 .. Len(waiting_queue) : waiting_queue'[i] = waiting_queue[i]
        /\ DOMAIN waiting_queue = 1 .. Len(waiting_queue)
    BY <1>3 DEF PutRequest
  <2>2. /\ fresh' = fresh \ {q} /\ q \in fresh /\ UNCHANGED <<got, seq_ranks>>
    BY Zenon DEF PutRequest
  <2>3. Queued(stage)
    BY <1>1, Zenon DEF Whole
  <2>4. QED  BY <2>1, <2>2, <2>3, SMTT(30) DEF Queued
<1>5. UNCHANGED <<policy, seq_ranks, sent>>
  BY Zenon DEF PutRequest
<1>6. ServTypes' /\ Pool' /\ AllocSafe' /\ Whole(stage)'
  BY <1>1, <1>4, <1>5, SchedulerFrame, ZenonT(30) DEF ServingIInv
<1>7. QED  BY <1>2, <1>6, Zenon DEF ServingIInv

(* So does taking a request from waiting_queue,                              *)
LEMMA GetTaskServes ==
    ASSUME ServingIInv, GetTask, UNCHANGED <<engineVars, resultVars>>
    PROVE  ServingIInv'
<1>1. PICK stage : Whole(stage)
  BY Zenon DEF ServingIInv
<1>2. SchedIInv'
  BY GetTaskKeeps, ZenonT(30) DEF ServingIInv
<1>3. Queued(stage)'
  <2>1. waiting_queue \in Seq(Req) /\ waiting_queue # <<>> /\ sampler' = sampler
    BY Zenon DEF ServingIInv, SchedIInv, SchedTypes, engineVars, GetTask
  <2>2. /\ DOMAIN waiting_queue' = 1 .. Len(waiting_queue) - 1
        /\ DOMAIN waiting_queue = 1 .. Len(waiting_queue)
        /\ \A i \in 1 .. Len(waiting_queue) - 1 : waiting_queue'[i] = waiting_queue[i + 1]
        /\ got' = waiting_queue[1] /\ Len(waiting_queue) \in Nat \ {0}
    BY <2>1 DEF GetTask
  <2>3. UNCHANGED <<fresh, seq_ranks>> /\ Queued(stage)
    BY <1>1, Zenon DEF GetTask, Whole
  <2>4. QED  BY <2>2, <2>3, SMTT(30) DEF Queued
<1>4. UNCHANGED <<policy, seq_ranks, sent>>
  BY Zenon DEF GetTask
<1>5. ServTypes' /\ Pool' /\ AllocSafe' /\ Whole(stage)'
  BY <1>1, <1>3, <1>4, SchedulerFrame, ZenonT(30) DEF ServingIInv
<1>6. QED  BY <1>2, <1>5, Zenon DEF ServingIInv

\* waiting_loop places the request it holds, or goes to sleep on it.
LEMMA AttemptServes ==
    ASSUME ServingIInv, SchedIInv', got # NoReq, Attempt(got),
           UNCHANGED <<policy, fresh, waiting_queue, end_flag>>,
           UNCHANGED <<engineVars, resultVars>>
    PROVE  ServingIInv'
<1> DEFINE rank == Pick(Required[got])
<1>1. PICK stage : Whole(stage)
  BY Zenon DEF ServingIInv
<1>2. /\ SchedTypes /\ Unplaced /\ ServTypes /\ Pool /\ AllocSafe
      /\ got \in Req /\ seq_ranks[got] = -1 /\ got \notin fresh
      /\ UNCHANGED <<sampler, status, loading, layer0, transit, forced, blocks, seq_len, stash_slots,
                     output_len, num_free, lost, results, token_streams, finished_seqs, fetched, resolved>>
  BY Zenon DEF ServingIInv, SchedIInv, SchedTypes, Unplaced, engineVars, resultVars
<1>3. rank \in Rank \cup {-1}
  BY <1>2, RequiredType, PickProperties, ZenonT(30)
<1>5. Queued(stage) /\ Located(stage) /\ Reported(stage) /\ stage \in [Req -> Stages]
  BY <1>1, Zenon DEF Whole
<1>6. CASE ~ (rank >= 0)
  <2>1. UNCHANGED <<seq_ranks, sent, got>>
    <3>1. rank < 0
      BY <1>3, <1>6 DEF Rank
    <3>2. QED  BY <1>6, <3>1, ZenonT(30) DEF Attempt
  <2>2. Queued(stage)'
    BY <1>5, <2>1, ZenonT(30) DEF Queued
  <2>3. ServTypes' /\ Pool' /\ AllocSafe' /\ Whole(stage)'
    BY <1>1, <1>2, <2>1, <2>2, SchedulerFrame, ZenonT(30)
  <2>4. QED  BY <2>3, Zenon DEF ServingIInv
<1>7. CASE rank >= 0
  <2>1. PICK k \in Rank, q \in Req : k = rank /\ q = got
    BY <1>2, <1>3, <1>7
  <2>2. /\ seq_ranks' = [seq_ranks EXCEPT ![q] = k]
        /\ sent' = [sent EXCEPT ![k] = Append(@, q)]
        /\ got' = NoReq
    <3>1. ~ (rank < 0)
      BY <1>3, <1>7 DEF Rank
    <3>2. QED  BY <2>1, <3>1, ZenonT(30) DEF Attempt, AddSeq
  <2> HIDE DEF rank
  <2>3. PICK stage2 : stage2 = [stage EXCEPT ![q] = "sent"]
    BY Zenon
  <2>4. /\ stage2 \in [Req -> Stages] /\ stage[q] = "none" /\ stage2[q] = "sent"
        /\ \A p \in Req : p # q => stage2[p] = stage[p]
    BY <1>2, <1>5, <2>1, <2>3, ZenonT(30) DEF Queued, Stages
  <2>5. /\ seq_ranks'[q] = k /\ seq_ranks[q] = -1 /\ k # -1
        /\ \A p \in Req : p # q => seq_ranks'[p] = seq_ranks[p]
        /\ sent'[k] = Append(sent[k], q) /\ \A r \in Rank : r # k => sent'[r] = sent[r]
    <3>1. k # -1
      BY <2>1, SchedAssumption DEF Rank
    <3>2. seq_ranks'[q] = k /\ \A p \in Req : p # q => seq_ranks'[p] = seq_ranks[p]
      BY <1>2, <2>1, <2>2, Zenon DEF SchedTypes
    <3>3. sent'[k] = Append(sent[k], q) /\ \A r \in Rank : r # k => sent'[r] = sent[r]
      BY <1>2, <2>1, <2>2, Zenon DEF SchedTypes
    <3>4. QED  BY <1>2, <2>1, <3>1, <3>2, <3>3, SMTT(30)
  <2>6. Queued(stage2)'
    <3>1. \A p \in fresh : p \in Req /\ p # q
      BY <1>2, <2>1, Zenon DEF SchedTypes
    <3>2. \A i \in DOMAIN waiting_queue : waiting_queue[i] \in Req /\ waiting_queue[i] # q
      BY <1>2, <2>1 DEF SchedTypes, Unplaced
    <3>3. UNCHANGED <<fresh, waiting_queue>>
      BY Zenon
    <3>4. /\ \A p \in fresh' : stage2[p] = "none"
          /\ \A i \in DOMAIN waiting_queue' : stage2[waiting_queue'[i]] = "none"
          /\ got' # NoReq => stage2[got'] = "none"
      BY <1>5, <2>2, <2>4, <3>1, <3>2, <3>3, SMTT(30) DEF Queued
    <3>5. \A p \in Req : seq_ranks'[p] = -1 <=> stage2[p] \in {"none", "done"}
      BY <1>5, <2>4, <2>5, ZenonT(30) DEF Queued
    <3>6. QED  BY <3>4, <3>5, Zenon DEF Queued
  <2>7. Located(stage2)'
    <3>1. SUFFICES ASSUME NEW r \in Rank
                   PROVE  /\ HeldIn(sent'[r], stage2, "sent", seq_ranks', r)
                          /\ HeldIn(layer0[r], stage2, "layer0", seq_ranks', r)
                          /\ \A p \in loading[r] : /\ stage2[p] = "loading" /\ seq_ranks'[p] = r
                                                   /\ sampler = "mooncake"
                          /\ \A p \in transit[r] : stage2[p] = "transit" /\ seq_ranks'[p] = r
                          /\ \A p \in Req : stage2[p] = "lost" /\ seq_ranks'[p] = r => status[r] # "up"
      BY <1>2, ZenonT(30) DEF Located, LocatedAt
    <3>2. /\ HeldIn(sent[r], stage, "sent", seq_ranks, r)
          /\ HeldIn(layer0[r], stage, "layer0", seq_ranks, r)
          /\ sent[r] \in Seq(Req) /\ layer0[r] \in Seq(Req)
          /\ loading[r] \in SUBSET Req /\ transit[r] \in SUBSET Req
      BY <1>2, <1>5, ZenonT(30) DEF Located, LocatedAt, SchedTypes, ServTypes
    <3>3. \A st : \A p \in Req : stage[p] = st /\ st # "none" =>
             p # q /\ stage2[p] = st /\ seq_ranks'[p] = seq_ranks[p]
      BY <2>4, <2>5, Zenon
    <3>4. HeldIn(sent'[r], stage2, "sent", seq_ranks', r)
      <4>1. CASE r = k
        <5>1. Enters(q, stage, stage2, "sent", seq_ranks, seq_ranks', r)
          BY <2>4, <2>5, <3>3, <4>1, Zenon DEF Enters
        <5>2. Pushed(sent[r], q, sent'[r])
          BY <2>5, <4>1, ZenonT(30) DEF Pushed
        <5>3. QED  BY <3>2, <5>1, <5>2, HeldInAppend, Zenon
      <4>2. CASE r # k
        BY <2>5, <3>2, <3>3, <4>2, HeldInSame, SMTT(30)
      <4>3. QED  BY <4>1, <4>2, Zenon
    <3>5. HeldIn(layer0[r], stage2, "layer0", seq_ranks', r)
      BY <3>2, <3>3, HeldInSame, SMTT(30)
    <3>6. QED  BY <1>5, <2>4, <2>5, <3>2, <3>4, <3>5, SMTT(30) DEF Located, LocatedAt
  <2>8. Reported(stage2)'
    <3>1. ASSUME NEW r \in Rank
          PROVE  ToldBy(results[r], stage2, seq_ranks', r)
      <4>1. results[r] \in Seq(Result) /\ ToldBy(results[r], stage, seq_ranks, r)
        BY <1>2, <1>5, Zenon DEF ServTypes, Reported
      <4>2. \A p \in Req : stage[p] # "none" => stage2[p] = stage[p] /\ seq_ranks'[p] = seq_ranks[p]
        BY <2>4, <2>5, ZenonT(30)
      <4>3. \A p \in Req :
              seq_ranks[p] = r /\ stage[p] \in {"layer0", "transit", "lost", "reported"} =>
                /\ stage2[p] \in {"layer0", "transit", "lost", "reported"}
                /\ stage[p] = "reported" => stage2[p] = "reported"
                /\ seq_ranks'[p] = seq_ranks[p]
        BY <4>2, SMTT(30)
      <4>4. QED  BY <4>1, <4>3, ToldBySame, SMTT(30)
    <3>2. /\ finished_seqs \in SUBSET Req /\ resolved \in SUBSET Req
          /\ \A i \in DOMAIN fetched : fetched[i] \in SUBSET Req
      BY <1>2, SMTT(30) DEF ServTypes
    <3>3. QED  BY <1>2, <1>5, <2>4, <3>1, <3>2, ZenonT(30) DEF Reported
  <2>9. ASSUME NEW p \in Req
        PROVE  HeldBy(p, stage2[p])' /\ CountedFor(p, stage2[p])'
    <3>1. HeldBy(p, stage[p]) /\ CountedFor(p, stage[p])
      BY <1>1, Zenon DEF Whole
    <3>2. CASE p # q
      <4>1. stage2[p] = stage[p] /\ seq_ranks'[p] = seq_ranks[p]
        BY <2>4, <2>5, <3>2, Zenon
      <4>2. QED  BY <1>2, <3>1, <4>1, SameHeld, SameCounted, ZenonT(30)
    <3>3. CASE p = q
      <4>1. HeldBy(q, "sent")
        BY <2>4, <3>1, <3>3, ZenonT(30) DEF HeldBy
      <4>2. HeldBy(q, "sent")'
        BY <1>2, <4>1, SameHeld, ZenonT(30)
      <4>3. CountedFor(q, "sent")'
        BY <1>2, <2>4, <3>1, <3>3, ZenonT(30) DEF CountedFor
      <4>4. QED  BY <2>4, <3>3, <4>2, <4>3, ZenonT(30)
    <3>4. QED  BY <3>2, <3>3, Zenon
  <2>10. Pool'
    <3>1. SUFFICES ASSUME NEW r \in Rank
                   PROVE  InUse(blocks, seq_ranks', r) = InUse(blocks, seq_ranks, r)
      BY <1>2, Zenon DEF Pool
    <3>2. CASE r # k
      <4>1. On(Req, seq_ranks', r) = On(Req, seq_ranks, r)
        <5>1. r # -1
          BY SchedAssumption DEF Rank
        <5>2. QED  BY <2>5, <3>2, <5>1, ZenonT(30) DEF On
      <4>2. QED  BY <4>1, Zenon DEF InUse
    <3>3. CASE r = k
      <4> DEFINE S == On(Req, seq_ranks', r)
                 T == On(Req, seq_ranks, r)
      <4>1. /\ T \in SUBSET S /\ S \in SUBSET Req /\ \A x \in S \ T : blocks[x] = 0
            /\ \A x \in S : blocks[x] \in Nat
        <5>1. \A x \in S \ T : x = q
          BY <2>5, Zenon DEF On
        <5>2. blocks[q] = 0
          BY <1>1, <2>4, Zenon DEF Whole, HeldBy
        <5>3. T \in SUBSET S /\ S \in SUBSET Req
          BY <2>5, <3>3, Zenon DEF On
        <5>4. QED  BY <1>2, <5>1, <5>2, <5>3, ZenonT(30) DEF ServTypes
      <4>2. IsFiniteSet(S)
        BY <4>1, FS_Subset, SchedAssumption, ZenonT(30)
      <4> HIDE DEF S, T
      <4>3. SumFunctionOnSet(blocks, S) = SumFunctionOnSet(blocks, T)
        BY <4>1, <4>2, SumSupport, Zenon
      <4>4. QED  BY <4>3, Zenon DEF InUse, S, T
    <3>4. QED  BY <3>2, <3>3, Zenon
  <2>11. ServTypes' /\ AllocSafe'
    BY <1>2, Zenon DEF ServTypes, AllocSafe
  <2>12. Whole(stage2)'
    BY <2>4, <2>6, <2>7, <2>8, <2>9, ZenonT(30) DEF Whole
  <2>13. QED  BY <2>10, <2>11, <2>12, ZenonT(30) DEF ServingIInv
<1>8. QED  BY <1>6, <1>7, Zenon

(* and a wake-up or retry of the scheduler loop.                             *)
LEMMA LoopServes ==
    ASSUME ServingIInv, LoopWake \/ LoopRetry, UNCHANGED <<engineVars, resultVars>>
    PROVE  ServingIInv'
<1>1. SchedIInv'
  BY LoopWakeKeeps, LoopRetryKeeps, Zenon DEF ServingIInv
<1>2. UNCHANGED <<policy, fresh, waiting_queue, end_flag>>
  BY Zenon DEF LoopWake, LoopRetry
<1>3. CASE got # NoReq /\ Attempt(got)
  BY <1>1, <1>2, <1>3, AttemptServes, ZenonT(30)
<1>4. CASE UNCHANGED <<got, seq_ranks, sent>>
  <2>1. PICK stage : Whole(stage)
    BY Zenon DEF ServingIInv
  <2>3. Queued(stage)'
    BY <1>2, <1>4, <2>1, ZenonT(30) DEF Whole, Queued
  <2>4. ServTypes' /\ Pool' /\ AllocSafe' /\ Whole(stage)'
    BY <1>2, <1>4, <2>1, <2>3, SchedulerFrame, ZenonT(30) DEF ServingIInv
  <2>5. QED  BY <1>1, <2>4, Zenon DEF ServingIInv
<1>5. QED
  <2>1. CASE LoopWake
    BY <1>3, <1>4, <2>1, Zenon DEF LoopWake
  <2>2. CASE LoopRetry
    <3>1. got # NoReq
      BY <2>2, Zenon DEF ServingIInv, SchedIInv, Unplaced, LoopRetry
    <3>2. QED  BY <1>3, <2>2, <3>1, Zenon DEF LoopRetry
  <2>3. QED  BY <2>1, <2>2, Zenon

-----------------------------------------------------------------------------
\* The detokenizer and the controller.

(* A result that was detokenized is the last word on the requests it ends.   *)
LEMMA ToldByTail ==
    ASSUME NEW s \in Seq(Result), s # <<>>, NEW stage, NEW stage2, NEW ranks, NEW r,
           ToldBy(s, stage, ranks, r),
           \A p \in Req : p \notin Head(s).eos => stage2[p] = stage[p]
    PROVE  /\ ToldBy(Tail(s), stage2, ranks, r)
           /\ \A q \in Head(s).eos : Mentions(Tail(s), q) = {}
<1> DEFINE t == Tail(s)
<1>1. /\ DOMAIN t = 1 .. Len(s) - 1 /\ DOMAIN s = 1 .. Len(s) /\ Len(s) \in Nat \ {0}
      /\ Head(s) = s[1] /\ \A i \in 1 .. Len(s) - 1 : t[i] = s[i + 1]
  OBVIOUS
<1>2. \A i \in 1 .. Len(s) : s[i].req_ids \in SUBSET Req /\ s[i].eos \in SUBSET Req
  <2>1. \A i \in DOMAIN s : s[i] \in Result
    OBVIOUS
  <2>2. QED  BY <1>1, <2>1, ZenonT(30) DEF Result
<1> HIDE DEF t
<1>3. /\ \A i \in 1 .. Len(s) - 1 : i + 1 \in DOMAIN s /\ i + 1 > 1
      /\ 1 \in DOMAIN s
  BY <1>1
<1>4. \A i \in 1 .. Len(s) - 1 : \A q \in s[1].eos : q \notin s[i + 1].req_ids
  BY <1>3, Zenon DEF ToldBy
<1>5. ASSUME NEW i \in DOMAIN t
      PROVE  /\ \A q \in t[i].req_ids :
                   ranks[q] = r /\ stage2[q] \in {"layer0", "transit", "lost", "reported"}
             /\ \A q \in t[i].eos : q \in t[i].req_ids /\ stage2[q] = "reported"
  <2>1. t[i] = s[i + 1] /\ i + 1 \in DOMAIN s
    BY <1>1, <1>3, Zenon
  <2>2. \A q \in t[i].req_ids : q \in Req /\ q \notin s[1].eos
    BY <1>1, <1>2, <1>4, <2>1, Zenon
  <2>3. \A q \in t[i].req_ids : stage2[q] = stage[q]
    BY <1>1, <2>2, Zenon
  <2>4. QED  BY <2>1, <2>3, ZenonT(30) DEF ToldBy
<1>6. ASSUME NEW i \in DOMAIN t, NEW j \in DOMAIN t, j > i, NEW q \in t[i].eos
      PROVE  q \notin t[j].req_ids
  <2>1. /\ t[i] = s[i + 1] /\ i + 1 \in DOMAIN s
        /\ t[j] = s[j + 1] /\ j + 1 \in DOMAIN s /\ j + 1 > i + 1
    BY <1>1, <1>3, <1>6
  <2>2. QED  BY <2>1, ZenonT(30) DEF ToldBy
<1>7. ToldBy(t, stage2, ranks, r)
  BY <1>5, <1>6, ZenonT(30) DEF ToldBy
<1>8. \A q \in s[1].eos : Mentions(t, q) = {}
  BY <1>1, <1>4 DEF Mentions
<1>9. QED  BY <1>1, <1>7, <1>8, ZenonT(30) DEF t

(* The detokenizer handles one result of a rank.                             *)
LEMMA DetokServes ==
    ASSUME ServingIInv, NEW r \in Rank, DetokProcessBatch(r)
    PROVE  ServingIInv'
<1>1. PICK stage : Whole(stage)
  BY Zenon DEF ServingIInv
<1>2. PICK b : b = Head(results[r])
  BY Zenon
<1>3. /\ results[r] # <<>>
      /\ results' = [results EXCEPT ![r] = Tail(@)]
      /\ token_streams' = [q \in Req |-> token_streams[q] + (IF q \in b.req_ids THEN 1 ELSE 0)]
      /\ finished_seqs' = finished_seqs \cup b.eos
      /\ UNCHANGED <<schedVars, fetched, resolved, sampler, loading, forced, status, layer0, transit,
                     num_free, blocks, lost, seq_len, stash_slots, output_len>>
  BY <1>2, Zenon DEF DetokProcessBatch, engineVars
<1>4. SchedIInv' /\ SchedTypes /\ ServTypes /\ Pool /\ AllocSafe
  BY <1>3, SchedStutters, Zenon DEF ServingIInv, SchedIInv
<1>5. UNCHANGED <<policy, fresh, waiting_queue, got, seq_ranks, sent>>
  BY <1>3, Zenon DEF schedVars
<1>6. /\ results[r] \in Seq(Result) /\ Tail(results[r]) \in Seq(Result)
      /\ results'[r] = Tail(results[r])
      /\ \A k \in Rank : k # r => results'[k] = results[k]
      /\ b.req_ids \in SUBSET Req /\ b.eos \in SUBSET Req
      /\ b = results[r][1] /\ 1 \in DOMAIN results[r]
  <2>1. results[r] \in Seq(Result) /\ Tail(results[r]) \in Seq(Result)
    BY <1>3, <1>4, SMTT(30) DEF ServTypes
  <2>2. b \in Result /\ b = results[r][1] /\ 1 \in DOMAIN results[r]
    BY <1>2, <1>3, <2>1
  <2>3. b.req_ids \in SUBSET Req /\ b.eos \in SUBSET Req
    BY <2>2, Zenon DEF Result
  <2>4. QED  BY <1>3, <1>4, <2>1, <2>2, <2>3, ZenonT(30) DEF ServTypes
<1>7. PICK stage2 : stage2 = [q \in Req |-> IF q \in b.eos THEN "finished" ELSE stage[q]]
  BY Zenon
<1>8. Queued(stage) /\ Located(stage) /\ Reported(stage) /\ stage \in [Req -> Stages]
  BY <1>1, Zenon DEF Whole
<1>9. /\ stage2 \in [Req -> Stages]
      /\ \A q \in b.eos : q \in b.req_ids /\ stage[q] = "reported" /\ stage2[q] = "finished"
      /\ \A q \in Req : q \notin b.eos => stage2[q] = stage[q]
      /\ \A q \in b.req_ids : /\ seq_ranks[q] = r
                              /\ stage[q] \in {"layer0", "transit", "lost", "reported"}
  <2>1. ToldBy(results[r], stage, seq_ranks, r)
    BY <1>8, Zenon DEF Reported
  <2>2. QED  BY <1>6, <1>7, <1>8, <2>1, ZenonT(30) DEF ToldBy, Stages
<1>10. \A q \in Req : stage[q] # "reported" => stage2[q] = stage[q]
  BY <1>9, Zenon
<1>11. Queued(stage2)'
  <2>2. /\ fresh \in SUBSET Req /\ \A i \in DOMAIN waiting_queue : waiting_queue[i] \in Req
        /\ got # NoReq => got \in Req
    BY <1>4 DEF SchedTypes
  <2>3. \A q \in Req : stage2[q] \in {"none", "done"} <=> stage[q] \in {"none", "done"}
    BY <1>9, ZenonT(30)
  <2>4. QED  BY <1>5, <1>8, <1>10, <2>2, <2>3, ZenonT(30) DEF Queued
<1>12. Located(stage2)'
  <2>1. ASSUME NEW k \in Rank
        PROVE  /\ HeldIn(sent[k], stage2, "sent", seq_ranks, k)
               /\ HeldIn(layer0[k], stage2, "layer0", seq_ranks, k)
    <3>1. /\ sent[k] \in Seq(Req) /\ layer0[k] \in Seq(Req)
          /\ HeldIn(sent[k], stage, "sent", seq_ranks, k)
          /\ HeldIn(layer0[k], stage, "layer0", seq_ranks, k)
      BY <1>4, <1>8, Zenon DEF SchedTypes, ServTypes, Located, LocatedAt
    <3>2. QED  BY <1>10, <3>1, HeldInSame
  <2>2. \A k \in Rank : loading[k] \in SUBSET Req /\ transit[k] \in SUBSET Req
    BY <1>4, Zenon DEF ServTypes
  <2>3. \A q \in Req : stage2[q] = "lost" => stage[q] = "lost"
    BY <1>9, Zenon
  <2>4. ASSUME NEW k \in Rank
        PROVE  LocatedAt(stage2, k)'
    <3>1. LocatedAt(stage, k)
      BY <1>8, ZenonT(30) DEF Located
    <3>2. /\ \A q \in loading[k] : stage2[q] = "loading" /\ seq_ranks[q] = k /\ sampler = "mooncake"
          /\ \A q \in transit[k] : stage2[q] = "transit" /\ seq_ranks[q] = k
          /\ \A q \in Req : stage2[q] = "lost" /\ seq_ranks[q] = k => status[k] # "up"
      BY <1>10, <2>2, <2>3, <3>1, SMTT(30) DEF LocatedAt
    <3>3. QED  BY <1>3, <1>5, <2>1, <3>2, Zenon DEF LocatedAt
  <2>5. QED  BY <2>4, ZenonT(30) DEF Located
<1>13. ToldBy(results'[r], stage2, seq_ranks, r) /\ \A q \in b.eos : Mentions(results'[r], q) = {}
  <2>1. ToldBy(results[r], stage, seq_ranks, r)
    BY <1>8, Zenon DEF Reported
  <2>2. \A p \in Req : p \notin Head(results[r]).eos => stage2[p] = stage[p]
    BY <1>2, <1>9, Zenon
  <2>3. /\ ToldBy(Tail(results[r]), stage2, seq_ranks, r)
        /\ \A q \in Head(results[r]).eos : Mentions(Tail(results[r]), q) = {}
    BY <1>3, <1>6, <2>1, <2>2, ToldByTail, ZenonT(30)
  <2>4. QED  BY <1>2, <1>6, <2>3, ZenonT(30)
<1>14. Reported(stage2)'
  <2>1. ASSUME NEW k \in Rank
        PROVE  ToldBy(results'[k], stage2, seq_ranks, k)
    <3>1. CASE k = r
      BY <1>13, <3>1, Zenon
    <3>2. CASE k # r
      <4>1. results[k] \in Seq(Result) /\ ToldBy(results[k], stage, seq_ranks, k)
        BY <1>4, <1>8, Zenon DEF ServTypes, Reported
      <4>2. \A p \in Req : seq_ranks[p] = k => stage2[p] = stage[p]
        BY <1>9, <3>2, ZenonT(30)
      <4>3. ToldBy(results[k], stage2, seq_ranks, k)
        BY <4>1, <4>2, ToldBySame, SMTT(30)
      <4>4. QED  BY <1>6, <3>2, <4>3, ZenonT(30)
    <3>3. QED  BY <3>1, <3>2, Zenon
  <2>2. /\ finished_seqs \in SUBSET Req /\ resolved \in SUBSET Req
        /\ \A i \in DOMAIN fetched : fetched[i] \in SUBSET Req
    BY <1>4, SMTT(30) DEF ServTypes
  <2>3. /\ \A q \in finished_seqs' : stage2[q] = "finished"
        /\ \A q \in resolved : stage2[q] = "done"
        /\ \A i \in DOMAIN fetched : \A q \in fetched[i] :
              /\ stage2[q] = "fetched"
              /\ \A j \in DOMAIN fetched : q \in fetched[j] => i = j
    BY <1>3, <1>8, <1>9, <1>10, <2>2, ZenonT(30) DEF Reported
  <2>4. QED  BY <1>3, <1>5, <2>1, <2>3, SMTT(30) DEF Reported
<1>15. ASSUME NEW q \in Req
       PROVE  HeldBy(q, stage2[q])' /\ CountedFor(q, stage2[q])'
  <2>1. HeldBy(q, stage[q]) /\ CountedFor(q, stage[q])
    BY <1>1, Zenon DEF Whole
  <2>2. HeldBy(q, stage2[q])
    BY <1>9, <2>1, Zenon DEF HeldBy
  <2>3. HeldBy(q, stage2[q])'
    BY <1>3, <2>2, SameHeld, Zenon
  <2>4. CountedFor(q, stage2[q])'
    <3>1. CASE q \notin b.req_ids /\ seq_ranks[q] # r
      <4>1. stage2[q] = stage[q] /\ token_streams'[q] = token_streams[q]
        <5>1. q \notin b.eos
          BY <1>9, <3>1, Zenon
        <5>2. token_streams[q] \in Nat /\ token_streams'[q] = token_streams[q] + 0
          BY <1>3, <1>4, <3>1, ZenonT(30) DEF ServTypes
        <5>3. QED  BY <1>9, <5>1, <5>2
      <4>2. CASE seq_ranks[q] \in Rank
        <5>1. results'[seq_ranks'[q]] = results[seq_ranks[q]]
          BY <1>5, <1>6, <3>1, <4>2, ZenonT(30)
        <5>2. QED  BY <1>3, <2>1, <4>1, <5>1, SameCounted, ZenonT(30)
      <4>3. CASE seq_ranks[q] \notin Rank
        <5>1. seq_ranks[q] = -1
          BY <1>4, <4>3, Zenon DEF SchedTypes
        <5>2. stage[q] \in {"none", "done"}
          BY <1>8, <5>1, Zenon DEF Queued
        <5>3. QED  BY <1>3, <2>1, <4>1, <5>2, ZenonT(30) DEF CountedFor, Total, ForcedLen
      <4>4. QED  BY <4>2, <4>3, ZenonT(30)
    <3>2. CASE seq_ranks[q] = r
      <4> DEFINE t == IF q \in b.req_ids THEN 1 ELSE 0
      <4>1. /\ Told(q) = Cardinality(Mentions(results[r], q))
            /\ Told(q)' = Cardinality(Mentions(Tail(results[r]), q))
        BY <1>5, <1>6, <3>2, ZenonT(30) DEF Told
      <4>2. Told(q) = Told(q)' + t
        BY <1>2, <1>3, <1>6, <4>1, MentionsTail, ZenonT(30)
      <4>3. Told(q)' \in Nat /\ token_streams[q] \in Nat /\ token_streams'[q] = token_streams[q] + t
        <5>1. Told(q)' \in Nat
          BY <1>6, <4>1, MentionsType, ZenonT(30)
        <5>2. QED  BY <1>3, <1>4, <5>1, ZenonT(30) DEF ServTypes
      <4>4. t \in {0, 1} /\ token_streams'[q] + Told(q)' = token_streams[q] + Told(q)
        BY <4>2, <4>3
      <4>5. TokensDone(q)' = TokensDone(q) /\ Total(q)' = Total(q)
        BY <1>3 DEF TokensDone, Total, ForcedLen
      <4>6. CASE q \in b.eos
        <5>1. Told(q)' = 0
          BY <1>6, <1>13, <4>1, <4>6, FS_EmptySet, ZenonT(30)
        <5>2. stage[q] = "reported" /\ stage2[q] = "finished"
          BY <1>9, <4>6, ZenonT(30)
        <5>3. token_streams'[q] = Total(q)
          <6>1. token_streams[q] + Told(q) = Total(q)
            BY <2>1, <5>2, ZenonT(30) DEF CountedFor
          <6> HIDE DEF t
          <6>2. QED  BY <4>3, <4>4, <5>1, <6>1, SMTT(30)
        <5>4. QED  BY <4>5, <5>2, <5>3, ZenonT(30) DEF CountedFor
      <4>7. CASE q \notin b.eos
        <5>1. stage2[q] = stage[q] /\ stage[q] \notin {"none", "done"}
          BY <1>8, <1>9, <3>2, <4>7, SchedAssumption, SMTT(30) DEF Queued, Rank
        <5>2. CASE stage[q] \in {"layer0", "transit", "reported", "lost"}
          BY <2>1, <4>4, <4>5, <5>1, <5>2, ZenonT(30) DEF CountedFor
        <5>3. CASE stage[q] \in {"sent", "loading", "finished", "fetched"}
          <6>1. q \notin b.req_ids
            BY <1>9, <5>3, ZenonT(30)
          <6>2. token_streams'[q] = token_streams[q]
            BY <4>3, <6>1
          <6>3. QED  BY <2>1, <4>5, <5>1, <5>3, <6>2, ZenonT(30) DEF CountedFor
        <5>4. QED  BY <1>8, <5>1, <5>2, <5>3, ZenonT(30) DEF Stages
      <4>8. QED  BY <4>6, <4>7, Zenon
    <3>3. QED  BY <1>9, <3>1, <3>2, Zenon
  <2>5. QED  BY <2>3, <2>4, Zenon
<1>16. ServTypes'
  <2>1. results' \in [Rank -> Seq(Result)] /\ finished_seqs' \in SUBSET Req
    BY <1>3, <1>4, <1>6, ZenonT(30) DEF ServTypes
  <2>2. token_streams' \in [Req -> Nat]
    BY <1>3, <1>4 DEF ServTypes
  <2>3. QED  BY <1>3, <1>4, <2>1, <2>2, ZenonT(30) DEF ServTypes
<1>17. Pool' /\ AllocSafe'
  BY <1>3, <1>4, <1>5, ZenonT(30) DEF Pool, AllocSafe
<1>18. Whole(stage2)'
  BY <1>9, <1>11, <1>12, <1>14, <1>15, ZenonT(30) DEF Whole
<1>19. QED  BY <1>4, <1>16, <1>17, <1>18, ZenonT(30) DEF ServingIInv

\* A step of the controller moves finished requests on and nothing else.
LEMMA ControllerFrame ==
    ASSUME SchedTypes, ServTypes, NEW stage, Whole(stage), NEW stage2 \in [Req -> Stages],
           UNCHANGED <<fresh, waiting_queue, got, sent, engineVars, results, token_streams>>,
           \A q \in Req : stage[q] \notin {"finished", "fetched"} =>
              stage2[q] = stage[q] /\ seq_ranks'[q] = seq_ranks[q],
           \A q \in Req : stage[q] \in {"finished", "fetched"} =>
              /\ stage2[q] \in {"finished", "fetched", "done"}
              /\ seq_ranks'[q] = -1 <=> stage2[q] = "done"
    PROVE  /\ Queued(stage2)' /\ Located(stage2)'
           /\ \A r \in Rank : ToldBy(results'[r], stage2, seq_ranks', r)
           /\ \A q \in Req : HeldBy(q, stage2[q])' /\ CountedFor(q, stage2[q])'
<1>1. Queued(stage) /\ Located(stage) /\ Reported(stage) /\ stage \in [Req -> Stages]
  BY Zenon DEF Whole
<1>2. UNCHANGED <<sampler, status, loading, layer0, transit, forced, blocks, seq_len, stash_slots,
                  output_len, num_free, lost, results, token_streams>>
  BY Zenon DEF engineVars
<1>3. Queued(stage2)'
  <2>2. /\ fresh \in SUBSET Req /\ \A i \in DOMAIN waiting_queue : waiting_queue[i] \in Req
        /\ got # NoReq => got \in Req
    BY DEF SchedTypes
  <2>3. \A q \in Req : seq_ranks'[q] = -1 <=> stage2[q] \in {"none", "done"}
    BY <1>1, ZenonT(30) DEF Queued
  <2>4. QED  BY <1>1, <2>2, <2>3, ZenonT(30) DEF Queued
<1>4. Located(stage2)'
  <2>1. ASSUME NEW k \in Rank
        PROVE  /\ HeldIn(sent[k], stage2, "sent", seq_ranks', k)
               /\ HeldIn(layer0[k], stage2, "layer0", seq_ranks', k)
    <3>1. /\ sent[k] \in Seq(Req) /\ layer0[k] \in Seq(Req)
          /\ HeldIn(sent[k], stage, "sent", seq_ranks, k)
          /\ HeldIn(layer0[k], stage, "layer0", seq_ranks, k)
      BY <1>1, ZenonT(30) DEF SchedTypes, ServTypes, Located, LocatedAt
    <3>2. QED  BY <3>1, HeldInSame
  <2>2. \A k \in Rank : loading[k] \in SUBSET Req /\ transit[k] \in SUBSET Req
    BY Zenon DEF ServTypes
  <2>3. \A q \in Req : stage2[q] = "lost" => stage[q] = "lost" /\ seq_ranks'[q] = seq_ranks[q]
    BY ZenonT(30)
  <2>4. QED  BY <1>1, <1>2, <2>1, <2>2, <2>3, SMTT(30) DEF Located, LocatedAt
<1>5. ASSUME NEW r \in Rank
      PROVE  ToldBy(results'[r], stage2, seq_ranks', r)
  <2>1. results[r] \in Seq(Result) /\ ToldBy(results[r], stage, seq_ranks, r)
    BY <1>1, Zenon DEF ServTypes, Reported
  <2>2. QED  BY <2>1, ToldBySame
<1>6. ASSUME NEW q \in Req
      PROVE  HeldBy(q, stage2[q])' /\ CountedFor(q, stage2[q])'
  <2>1. HeldBy(q, stage[q]) /\ CountedFor(q, stage[q])
    BY Zenon DEF Whole
  <2>2. HeldBy(q, stage2[q])
    BY <2>1, ZenonT(30) DEF HeldBy
  <2>3. HeldBy(q, stage2[q])'
    BY <1>2, <2>2, SameHeld, ZenonT(30)
  <2>4. CASE stage[q] \notin {"finished", "fetched"}
    BY <1>2, <2>1, <2>3, <2>4, SameCounted, ZenonT(30)
  <2>5. CASE stage[q] \in {"finished", "fetched"}
    <3>1. token_streams[q] = Total(q) /\ stage2[q] \in {"finished", "fetched", "done"}
      BY <2>1, <2>5, ZenonT(30) DEF CountedFor
    <3>2. Total(q)' = Total(q) /\ token_streams' = token_streams
      BY <1>2 DEF Total, ForcedLen
    <3>3. QED  BY <2>3, <3>1, <3>2, ZenonT(30) DEF CountedFor
  <2>6. QED  BY <2>4, <2>5, Zenon
<1>7. QED  BY <1>3, <1>4, <1>5, <1>6, ZenonT(30)

(* The controller fetches what is finished.                                  *)
LEMMA PollServes ==
    ASSUME ServingIInv, PollFinishedResults
    PROVE  ServingIInv'
<1>1. PICK stage : Whole(stage)
  BY Zenon DEF ServingIInv
<1>2. PICK D : D = finished_seqs
  BY Zenon
<1>3. /\ fetched' = Append(fetched, D) /\ finished_seqs' = {}
      /\ UNCHANGED <<schedVars, engineVars, results, token_streams, resolved>>
  BY <1>2, Zenon DEF PollFinishedResults
<1>4. SchedIInv' /\ SchedTypes /\ ServTypes /\ Pool /\ AllocSafe
  BY <1>3, SchedStutters, ZenonT(30) DEF ServingIInv, SchedIInv
<1>5. UNCHANGED <<policy, fresh, waiting_queue, got, seq_ranks, sent>>
  BY <1>3, Zenon DEF schedVars
<1>6. PICK stage2 : stage2 = [q \in Req |-> IF q \in D THEN "fetched" ELSE stage[q]]
  BY Zenon
<1>7. Queued(stage) /\ Reported(stage) /\ stage \in [Req -> Stages] /\ D \in SUBSET Req
  BY <1>1, <1>2, <1>4, ZenonT(30) DEF Whole, ServTypes
<1>8. /\ stage2 \in [Req -> Stages]
      /\ \A q \in D : stage[q] = "finished" /\ stage2[q] = "fetched"
      /\ \A q \in Req : q \notin D => stage2[q] = stage[q]
  BY <1>2, <1>6, <1>7, ZenonT(30) DEF Reported, Stages
<1>9. \A q \in Req : stage[q] \in {"finished", "fetched"} =>
         /\ stage2[q] \in {"finished", "fetched", "done"}
         /\ seq_ranks'[q] = -1 <=> stage2[q] = "done"
  BY <1>5, <1>7, <1>8, ZenonT(30) DEF Queued
<1>10. /\ Queued(stage2)' /\ Located(stage2)'
       /\ \A r \in Rank : ToldBy(results'[r], stage2, seq_ranks', r)
       /\ \A q \in Req : HeldBy(q, stage2[q])' /\ CountedFor(q, stage2[q])'
  BY <1>1, <1>3, <1>4, <1>5, <1>8, <1>9, ControllerFrame, ZenonT(30)
<1>11. fetched \in Seq(SUBSET Req) /\ fetched' \in Seq(SUBSET Req)
  BY <1>3, <1>4, <1>7, SMTT(30) DEF ServTypes
<1>12. Reported(stage2)'
  <2>1. /\ DOMAIN fetched' = 1 .. Len(fetched) + 1 /\ DOMAIN fetched = 1 .. Len(fetched)
        /\ fetched'[Len(fetched) + 1] = D
        /\ \A i \in 1 .. Len(fetched) : fetched'[i] = fetched[i] /\ fetched[i] \in SUBSET Req
    BY <1>3, <1>11, SMTT(30)
  <2>2. \A i \in 1 .. Len(fetched) : \A q \in fetched[i] :
           stage[q] = "fetched" /\ q \notin D /\ stage2[q] = "fetched"
    BY <1>7, <1>8, <2>1, SMTT(30) DEF Reported
  <2>3. ASSUME NEW i \in DOMAIN fetched', NEW q \in fetched'[i]
        PROVE  /\ stage2[q] = "fetched"
               /\ \A j \in DOMAIN fetched' : q \in fetched'[j] => i = j
    <3>1. CASE i = Len(fetched) + 1
      BY <1>8, <2>1, <2>2, <2>3, <3>1, SMTT(30)
    <3>2. CASE i # Len(fetched) + 1
      <4>1. i \in 1 .. Len(fetched) /\ q \in fetched[i]
        BY <1>11, <2>1, <2>3, <3>2, SMTT(30)
      <4>2. \A j \in 1 .. Len(fetched) : q \in fetched[j] => i = j
        BY <1>7, <2>1, <4>1, ZenonT(30) DEF Reported
      <4>3. QED  BY <1>8, <2>1, <2>2, <4>1, <4>2, SMTT(30)
    <3>3. QED  BY <3>1, <3>2, ZenonT(30)
  <2>4. \A q \in resolved : q \in Req /\ stage2[q] = "done"
    BY <1>4, <1>7, <1>8, ZenonT(30) DEF ServTypes, Reported
  <2>5. QED  BY <1>3, <1>10, <2>3, <2>4, ZenonT(30) DEF Reported
<1>13. ServTypes'
  BY <1>3, <1>4, <1>11, ZenonT(30) DEF ServTypes, engineVars
<1>14. Pool' /\ AllocSafe'
  BY <1>3, <1>4, <1>5, ZenonT(30) DEF Pool, AllocSafe, engineVars
<1>15. Whole(stage2)'
  BY <1>8, <1>10, <1>12, ZenonT(30) DEF Whole
<1>16. QED  BY <1>4, <1>13, <1>14, <1>15, ZenonT(30) DEF ServingIInv

(* The controller returns reservations and resolves requests.                *)
LEMMA ProcessServes ==
    ASSUME ServingIInv, ProcessFinishedResults
    PROVE  ServingIInv'
<1>1. PICK stage : Whole(stage)
  BY Zenon DEF ServingIInv
<1>2. PICK D : D = Head(fetched)
  BY Zenon
<1>3. /\ fetched # <<>> /\ fetched' = Tail(fetched) /\ DelSeqs(D)
      /\ resolved' = resolved \cup D
      /\ UNCHANGED <<engineVars, results, token_streams, finished_seqs>>
  BY <1>2, Zenon DEF ProcessFinishedResults
<1>4. SchedIInv /\ SchedTypes /\ ServTypes /\ Pool /\ AllocSafe
  BY Zenon DEF ServingIInv, SchedIInv
<1>5. /\ fetched \in Seq(SUBSET Req) /\ fetched' \in Seq(SUBSET Req)
      /\ D \in SUBSET Req /\ D = fetched[1]
      /\ DOMAIN fetched' = 1 .. Len(fetched) - 1 /\ DOMAIN fetched = 1 .. Len(fetched)
      /\ Len(fetched) \in Nat \ {0}
      /\ \A i \in 1 .. Len(fetched) - 1 : fetched'[i] = fetched[i + 1]
  <2>1. fetched \in Seq(SUBSET Req)
    BY <1>4, Zenon DEF ServTypes
  <2>2. QED  BY <1>2, <1>3, <2>1, SMTT(30)
<1>6. SchedIInv'
  BY <1>3, <1>4, <1>5, DelSeqsKeeps, ZenonT(30)
<1>7. /\ seq_ranks' = [q \in Req |-> IF q \in D THEN -1 ELSE seq_ranks[q]]
      /\ UNCHANGED <<policy, fresh, waiting_queue, got, sent>>
  BY <1>3, Zenon DEF DelSeqs
<1>8. PICK stage2 : stage2 = [q \in Req |-> IF q \in D THEN "done" ELSE stage[q]]
  BY Zenon
<1>9. Queued(stage) /\ Reported(stage) /\ stage \in [Req -> Stages]
  BY <1>1, Zenon DEF Whole
<1>10. /\ stage2 \in [Req -> Stages]
       /\ \A q \in D : stage[q] = "fetched" /\ stage2[q] = "done" /\ seq_ranks'[q] = -1
       /\ \A q \in Req : q \notin D => stage2[q] = stage[q] /\ seq_ranks'[q] = seq_ranks[q]
  <2>1. \A q \in D : stage[q] = "fetched"
    BY <1>5, <1>9 DEF Reported
  <2>2. QED  BY <1>5, <1>7, <1>8, <1>9, <2>1, ZenonT(30) DEF Stages
<1>11. \A q \in Req : stage[q] \in {"finished", "fetched"} =>
          /\ stage2[q] \in {"finished", "fetched", "done"}
          /\ seq_ranks'[q] = -1 <=> stage2[q] = "done"
  BY <1>9, <1>10, ZenonT(30) DEF Queued
<1>12. /\ Queued(stage2)' /\ Located(stage2)'
       /\ \A r \in Rank : ToldBy(results'[r], stage2, seq_ranks', r)
       /\ \A q \in Req : HeldBy(q, stage2[q])' /\ CountedFor(q, stage2[q])'
  <2>1. \A q \in Req : stage[q] \notin {"finished", "fetched"} =>
           stage2[q] = stage[q] /\ seq_ranks'[q] = seq_ranks[q]
    BY <1>10, Zenon
  <2>2. QED  BY <1>1, <1>3, <1>4, <1>7, <1>10, <1>11, <2>1, ControllerFrame, ZenonT(30)
<1>13. Reported(stage2)'
  <2>1. \A i \in 1 .. Len(fetched) - 1 : i + 1 \in 1 .. Len(fetched) /\ 1 \in 1 .. Len(fetched) /\ i + 1 # 1
    BY <1>5
  <2>2. ASSUME NEW i \in DOMAIN fetched', NEW q \in fetched'[i]
        PROVE  /\ stage2[q] = "fetched"
               /\ \A j \in DOMAIN fetched' : q \in fetched'[j] => i = j
    <3>1. i \in 1 .. Len(fetched) - 1 /\ fetched'[i] = fetched[i + 1]
      BY <1>5, <2>2, ZenonT(30)
    <3>2. q \in fetched[i + 1] /\ i + 1 \in DOMAIN fetched /\ 1 \in DOMAIN fetched /\ i + 1 # 1
      BY <1>5, <2>1, <2>2, <3>1, ZenonT(30)
    <3>3. /\ stage[q] = "fetched" /\ q \notin fetched[1]
          /\ \A j \in DOMAIN fetched : q \in fetched[j] => i + 1 = j
      BY <1>9, <3>2, ZenonT(30) DEF Reported
    <3>4. q \in Req
      BY <1>5, <3>2, SMTT(30)
    <3>5. ASSUME NEW j \in DOMAIN fetched', q \in fetched'[j]
          PROVE  i = j
      <4>1. q \in fetched[j + 1] /\ j + 1 \in DOMAIN fetched
        BY <1>5, <2>1, <3>5, ZenonT(30)
      <4>2. i + 1 = j + 1
        BY <3>3, <4>1, ZenonT(30)
      <4>3. QED  BY <1>5, <4>2
    <3>6. QED  BY <1>5, <1>10, <3>3, <3>4, <3>5, ZenonT(30)
  <2>3. \A q \in resolved' : stage2[q] = "done"
    BY <1>3, <1>4, <1>9, <1>10, ZenonT(30) DEF ServTypes, Reported
  <2>4. \A q \in finished_seqs : stage2[q] = "finished"
    BY <1>4, <1>9, <1>10, ZenonT(30) DEF ServTypes, Reported
  <2>5. QED  BY <1>3, <1>12, <2>2, <2>3, <2>4, ZenonT(30) DEF Reported
<1>14. ServTypes'
  BY <1>3, <1>4, <1>5, ZenonT(30) DEF ServTypes, engineVars
<1>15. AllocSafe'
  BY <1>3, <1>4, <1>7, ZenonT(30) DEF AllocSafe, engineVars
<1>16. Pool'
  <2>1. UNCHANGED <<sampler, status, num_free, lost, blocks>>
    BY <1>3, Zenon DEF engineVars
  <2>2. ASSUME NEW r \in Rank
        PROVE  InUse(blocks, seq_ranks', r) = InUse(blocks, seq_ranks, r)
    <3> DEFINE S == On(Req, seq_ranks, r)
               T == On(Req, seq_ranks', r)
    <3>1. r # -1
      BY SchedAssumption, SMTT(30) DEF Rank
    <3>2. T \in SUBSET S /\ S \in SUBSET Req /\ \A x \in S \ T : x \in D
      BY <1>10, <3>1 DEF On
    <3>3. \A x \in D : blocks[x] = 0
      BY <1>1, <1>5, <1>10, ZenonT(30) DEF Whole, HeldBy
    <3>4. \A x \in S : blocks[x] \in Nat
      BY <1>4, <3>2, ZenonT(30) DEF ServTypes
    <3>5. IsFiniteSet(S)
      BY <3>2, FS_Subset, SchedAssumption, ZenonT(30)
    <3> HIDE DEF S, T
    <3>6. SumFunctionOnSet(blocks, S) = SumFunctionOnSet(blocks, T)
      BY <3>2, <3>3, <3>4, <3>5, SumSupport, SMTT(30)
    <3>7. QED  BY <3>6, Zenon DEF InUse, S, T
  <2>3. QED  BY <1>4, <2>1, <2>2, ZenonT(30) DEF Pool
<1>17. Whole(stage2)'
  BY <1>10, <1>12, <1>13, Zenon DEF Whole
<1>18. QED  BY <1>6, <1>14, <1>15, <1>16, <1>17, ZenonT(30) DEF ServingIInv

-----------------------------------------------------------------------------
\* The engine loops.

=============================================================================
