---------------------------- MODULE DPScheduler -----------------------------
(***************************************************************************)
(* The global data-parallel scheduler of the controller                    *)
(* (disagmoe/scheduler/dpscheduler.py): one asyncio task, waiting_loop,     *)
(* takes requests in FIFO order, reserves KV blocks on the rank its policy  *)
(* picks, and hands the request to the tokenizer.  del_seq returns the      *)
(* reservation when the request's result has been polled.                   *)
(*                                                                          *)
(* asyncio switches tasks only at an await, so a step of this module is     *)
(* the code between two awaits.                                             *)
(***************************************************************************)
EXTENDS KVBlocks, Integers, Sequences, FiniteSetsExt, Functions

CONSTANTS
    Req,            \* requests
    NoReq,          \* no request in the hands of the loop
    DpSize,         \* number of attention ranks
    Capacity,       \* rank -> KV blocks the worker reports
    Prefill,        \* request -> prefill_len
    Output,         \* request -> output_len
    Policies,       \* the policies under check: "RR", "max", "cap_rr", "weighted"
    Weight          \* rank -> weight of the weighted policy

Rank == 0 .. DpSize - 1

ASSUME SchedAssumption ==
    /\ IsFiniteSet(Req) /\ NoReq \notin Req
    /\ DpSize \in Nat \ {0}
    /\ Capacity \in [Rank -> Nat] /\ Weight \in [Rank -> Nat]
    /\ Prefill \in [Req -> Nat] /\ Output \in [Req -> Nat]
    /\ Policies \subseteq {"RR", "max", "cap_rr", "weighted"}

VARIABLES
    policy,         \* dp_policy, fixed when the controller is built
    fresh,          \* ids req_id_generator has not handed out
    waiting_queue,  \* asyncio.Queue of submitted requests
    got,            \* result of the pending waiting_queue.get(), or NoReq
    loop,           \* where waiting_loop is suspended
    kv_cache_stats, \* rank -> unreserved blocks
    seq_ranks,      \* request -> rank, -1 when not in the dict
    cur_rank,       \* round-robin position
    sch_event,      \* asyncio.Event set by del_seq
    end_flag,       \* end_flag and end_event, set together by terminate
    sent            \* rank -> requests handed to the tokenizer, in order

schedVars == <<policy, fresh, waiting_queue, got, loop, kv_cache_stats, seq_ranks, cur_rank,
               sch_event, end_flag, sent>>

Required == [q \in Req |-> RequiredBlocks(Prefill[q], Output[q])]

-----------------------------------------------------------------------------
\* The policies: the rank chosen for a request that needs need blocks, or -1.

First(S) == IF S = {} THEN -1 ELSE Min(S)

\* Mutant: a rank whose whole stock is needed is refused.
MaxPickStrict(need) ==
    LET best == {r \in Rank : \A s \in Rank : kv_cache_stats[s] <= kv_cache_stats[r]}
    IN  IF kv_cache_stats[First(best)] <= need THEN -1 ELSE First(best)

\* DPSchedulerMax: the fullest stock, refused when even that is too small.
MaxPick(need) ==
    LET best == {r \in Rank : /\ kv_cache_stats[r] > 0
                              /\ \A s \in Rank : kv_cache_stats[s] <= kv_cache_stats[r]}
        stat == IF best = {} THEN 0 ELSE kv_cache_stats[First(best)]
    IN  IF stat < need THEN -1 ELSE First(best)

\* DPSchedulerCapRR: the first rank from cur_rank on that has enough blocks.
CapRRPick(need) ==
    LET fits == {k \in 0 .. DpSize - 1 :
                    kv_cache_stats[(cur_rank + k) % DpSize] >= need}
    IN  IF fits = {} THEN -1 ELSE (cur_rank + Min(fits)) % DpSize

\* DPSchedulerWeighted: the fitting rank with the highest stock times weight.
WeightedPick(need) ==
    LET fits == {r \in Rank : kv_cache_stats[r] >= need}
        score(r) == kv_cache_stats[r] * Weight[r]
    IN  First({r \in fits : \A s \in fits : score(s) <= score(r)})

\* Mutant: round robin without the capacity test.
PickBlind(need) == cur_rank

Pick(need) ==
    CASE policy = "RR"       -> cur_rank
      [] policy = "max"      -> MaxPick(need)
      [] policy = "cap_rr"   -> CapRRPick(need)
      [] policy = "weighted" -> WeightedPick(need)

\* Both round-robin policies leave cur_rank just behind the rank they return;
\* a full unsuccessful turn brings it back to where it was.
Advance(rank) ==
    cur_rank' = IF policy \in {"RR", "cap_rr"} /\ rank >= 0
                THEN (rank + 1) % DpSize ELSE cur_rank

\* Mutant: the reservation is not recorded against the rank's stock.
AddSeqUncounted(q, rank) ==
    /\ seq_ranks' = [seq_ranks EXCEPT ![q] = rank]
    /\ UNCHANGED kv_cache_stats

\* add_seq
AddSeq(q, rank) ==
    /\ kv_cache_stats' = [kv_cache_stats EXCEPT ![rank] = @ - Required[q]]
    /\ seq_ranks' = [seq_ranks EXCEPT ![q] = rank]

\* One schedule() attempt for q by waiting_loop: on success the request is
\* submitted and the loop goes back for the next one.
Attempt(q) ==
    LET rank == Pick(Required[q])
    IN  /\ Advance(rank)
        /\ \/ /\ rank >= 0
              /\ AddSeq(q, rank)
              /\ sent' = [sent EXCEPT ![rank] = Append(@, q)]
              /\ got' = NoReq
              /\ loop' = IF end_flag THEN "stopped" ELSE "get"
           \/ /\ rank < 0
              /\ got' = q
              /\ loop' = "blocked"
              /\ UNCHANGED <<kv_cache_stats, seq_ranks, sent>>

-----------------------------------------------------------------------------
SchedInit ==
    /\ policy \in Policies
    /\ fresh = Req
    /\ waiting_queue = <<>>
    /\ got = NoReq
    /\ loop = "get"
    /\ kv_cache_stats = Capacity
    /\ seq_ranks = [q \in Req |-> -1]
    /\ cur_rank = 0
    /\ sch_event = FALSE
    /\ end_flag = FALSE
    /\ sent = [r \in Rank |-> <<>>]

\* put_request
PutRequest(q) ==
    /\ q \in fresh
    /\ fresh' = fresh \ {q}
    /\ waiting_queue' = Append(waiting_queue, q)
    /\ UNCHANGED <<policy, got, loop, kv_cache_stats, seq_ranks, cur_rank,
                   sch_event, end_flag, sent>>

\* The task waiting_queue.get() completes; waiting_loop has not run yet.
GetTask ==
    /\ loop = "get"
    /\ got = NoReq
    /\ waiting_queue # <<>>
    /\ got' = Head(waiting_queue)
    /\ waiting_queue' = Tail(waiting_queue)
    /\ UNCHANGED <<policy, fresh, loop, kv_cache_stats, seq_ranks, cur_rank,
                   sch_event, end_flag, sent>>

\* Mutant: the loop waits for an item only, not for end_event.
LoopWakeItemOnly ==
    /\ loop = "get"
    /\ got # NoReq
    /\ \/ /\ end_flag
          /\ loop' = "stopped"
          /\ UNCHANGED <<got, kv_cache_stats, seq_ranks, cur_rank, sent>>
       \/ /\ ~end_flag
          /\ Attempt(got)
    /\ UNCHANGED <<policy, fresh, waiting_queue, sch_event, end_flag>>

\* asyncio.wait returns: stop if end_event is set (an item already taken
\* from the queue is dropped), otherwise schedule the item.
LoopWake ==
    /\ loop = "get"
    /\ \/ /\ end_flag
          /\ loop' = "stopped"
          /\ UNCHANGED <<got, kv_cache_stats, seq_ranks, cur_rank, sent>>
       \/ /\ ~end_flag
          /\ got # NoReq
          /\ Attempt(got)
    /\ UNCHANGED <<policy, fresh, waiting_queue, sch_event, end_flag>>

\* sch_event.wait() returns: clear it and try again.
LoopRetry ==
    /\ loop = "blocked"
    /\ sch_event
    /\ sch_event' = FALSE
    /\ Attempt(got)
    /\ UNCHANGED <<policy, fresh, waiting_queue, end_flag>>

\* The reservations the requests D hold on a rank.
ReservedBy(D, r) == SumFunctionOnSet(Required, {q \in D : seq_ranks[q] = r})

\* Mutant: the blocks go back without waking the loop.
DelSeqsSilent(D) ==
    /\ \A q \in D : seq_ranks[q] >= 0
    /\ kv_cache_stats' = [r \in Rank |-> kv_cache_stats[r] + ReservedBy(D, r)]
    /\ seq_ranks' = [q \in Req |-> IF q \in D THEN -1 ELSE seq_ranks[q]]
    /\ UNCHANGED <<policy, fresh, waiting_queue, got, loop, cur_rank, sch_event,
                   end_flag, sent>>

\* del_seq for each request of a polled batch of results: no await in between.
DelSeqs(D) ==
    /\ \A q \in D : seq_ranks[q] >= 0
    /\ kv_cache_stats' = [r \in Rank |-> kv_cache_stats[r] + ReservedBy(D, r)]
    /\ seq_ranks' = [q \in Req |-> IF q \in D THEN -1 ELSE seq_ranks[q]]
    /\ sch_event' = TRUE
    /\ UNCHANGED <<policy, fresh, waiting_queue, got, loop, cur_rank, end_flag,
                   sent>>

\* terminate: the caller then awaits the end of the loop.
Terminate ==
    /\ ~end_flag
    /\ end_flag' = TRUE
    /\ UNCHANGED <<policy, fresh, waiting_queue, got, loop, kv_cache_stats,
                   seq_ranks, cur_rank, sch_event, sent>>

\* start, once the loop has stopped: fresh queue and events, full stock.  Its
\* callers first await the result of every request they submitted.
Start ==
    /\ loop = "stopped"
    /\ \A q \in Req : seq_ranks[q] = -1
    /\ waiting_queue' = <<>>
    /\ got' = NoReq
    /\ loop' = "get"
    /\ kv_cache_stats' = Capacity
    /\ sch_event' = FALSE
    /\ end_flag' = FALSE
    /\ UNCHANGED <<policy, fresh, seq_ranks, cur_rank, sent>>

-----------------------------------------------------------------------------
\* The scheduler alone: an admitted request finishes at any time.

Next ==
    \/ \E q \in Req : PutRequest(q)
    \/ GetTask
    \/ LoopWake
    \/ LoopRetry
    \/ \E D \in SUBSET Req \ {{}} : DelSeqs(D)
    \/ Terminate
    \/ Start

\* The event loop runs every ready task, and admitted requests finish.
Fairness ==
    /\ WF_schedVars(GetTask)
    /\ WF_schedVars(LoopWake)
    /\ WF_schedVars(LoopRetry)
    /\ \A q \in Req : WF_schedVars(DelSeqs({q}))

Spec == SchedInit /\ [][Next]_schedVars /\ Fairness

-----------------------------------------------------------------------------
(* The stock of a rank and the reservations of the requests placed on it    *)
(* always add up to its capacity (add_seq, del_seq, start).                 *)
ReservationsBalance ==
    \A r \in Rank : kv_cache_stats[r] + ReservedBy(Req, r) = Capacity[r]

(* The capacity-aware policies never reserve more blocks than a rank has;   *)
(* only plain round robin may.                                              *)
NoOverCommit ==
    policy # "RR" => \A r \in Rank : kv_cache_stats[r] >= 0

(* waiting_loop never sleeps on a request that the policy would place now   *)
(* without a wake-up already on its way: no completion is missed between    *)
(* the failed attempt, the wait and the clear of sch_event.                 *)
NoLostWakeup ==
    loop = "blocked" /\ Pick(Required[got]) >= 0 => sch_event

\* schedule() refuses q whatever has been freed: the capacity-aware policies
\* have no rank that is large enough even when empty.
FitsNowhere(q) == policy # "RR" /\ \A r \in Rank : Capacity[r] < Required[q]

\* waiting_loop retries such a request for ever; it has no path that rejects.
Stuck == loop = "blocked" /\ FitsNowhere(got)

(* A submitted request is placed once enough others have finished, unless   *)
(* the scheduler is terminated or the loop has met a request that fits no   *)
(* rank: that one is the only head of the line that blocks for good, and    *)
(* waiting_loop neither rejects it nor serves anything behind it.           *)
EventuallyPlaced ==
    \A q \in Req :
        (q = got \/ \E i \in 1 .. Len(waiting_queue) : waiting_queue[i] = q)
            ~> (seq_ranks[q] >= 0 \/ end_flag \/ Stuck)

(* terminate(), which awaits the loop, returns: a loop blocked on a full    *)
(* pool is released by the results still to come.  Only a loop in the hands *)
(* of a request that fits no rank never sees end_flag.                      *)
TerminateReturns == end_flag ~> (loop = "stopped" \/ Stuck)

=============================================================================
