------------------------------ MODULE KVLoader ------------------------------
(***************************************************************************)
(* Ingestion of prompt KV from the Mooncake store: the engine hands each    *)
(* new request to MooncakeKVLoader, worker threads fetch its pages into     *)
(* their own staging buffer, and the engine loop installs finished fetches  *)
(* and only then admits the request, or rejects it.                         *)
(***************************************************************************)
EXTENDS KVBlocks, Sequences, FiniteSets, Functions

CONSTANTS
    Req, NoReq,     \* requests, and none of them
    Worker,         \* loader threads, each with one staging buffer
    Prompt,         \* request -> len(prompt_token_ids)
    PrefillLen,     \* request -> init_prefill_len
    MaxPages,       \* pages a staging buffer holds (max_prompt_tokens // 16)
    NumBlocks,      \* KV blocks of the worker's pool
    MaxItems,       \* poll's max_items (8)
    MaxAttempts     \* fetch attempts of _worker_loop (3)

ASSUME LoaderAssumption ==
    /\ MaxItems \in Nat \ {0} /\ MaxAttempts \in Nat \ {0}
    /\ IsFiniteSet(Req) /\ Prompt \in [Req -> Nat] /\ NumBlocks \in Nat

VARIABLES
    fresh,          \* requests the engine has not received yet
    jobs,           \* _jobs: requests queued for the workers
    worker,         \* worker -> [pc, req, attempt] of _worker_loop
    staging,        \* worker -> [owner, whole]: whose pages, all of them?
    done,           \* _done: KVLoadDone records
    polled,         \* what poll returned and _drain_kv_loads has yet to handle
    num_free,       \* free KV blocks
    blocks,         \* request -> KV blocks it holds
    kv,             \* request -> staging content copied into its blocks
    admitted, rejected, finished,
    outcome         \* history: the line of install or _drain_kv_loads that
                    \* decided about a request

vars == <<fresh, jobs, worker, staging, done, polled, num_free, blocks, kv,
          admitted, rejected, finished, outcome>>

Nothing == [owner |-> NoReq, whole |-> FALSE]
Idle == [pc |-> "get", req |-> NoReq, attempt |-> 0]

\* n_pages: HiCache persists full pages only.
Pages(q) == Prompt[q] \div BlockSize

\* The length _drain_kv_loads insists on before it admits.
Aligned(q) == Pages(q) * BlockSize = PrefillLen[q]

Init ==
    /\ fresh = Req
    /\ jobs = <<>>
    /\ worker = [w \in Worker |-> Idle]
    /\ staging = [w \in Worker |-> Nothing]
    /\ done = <<>> /\ polled = <<>>
    /\ num_free = NumBlocks
    /\ blocks = [q \in Req |-> 0]
    /\ kv = [q \in Req |-> Nothing]
    /\ admitted = {} /\ rejected = {} /\ finished = {}
    /\ outcome = [q \in Req |-> "none"]

engineVars == <<polled, num_free, blocks, kv, admitted, rejected, finished,
                outcome>>

-----------------------------------------------------------------------------
\* recv_new_request with a loader: submit.
Submit(q) ==
    /\ q \in fresh
    /\ fresh' = fresh \ {q}
    /\ jobs' = Append(jobs, q)
    /\ UNCHANGED <<worker, staging, done, engineVars>>

\* Mutant: the worker does not wait for its buffer to be handed back.
ReportNoWait(w, q, ok) ==
    /\ done' = Append(done, [req |-> q, worker |-> w, ok |-> ok])
    /\ worker' = [worker EXCEPT ![w] = Idle]

\* The end of a turn of _worker_loop: put the record, wait for released.
Report(w, q, ok) ==
    /\ done' = Append(done, [req |-> q, worker |-> w, ok |-> ok])
    /\ worker' = [worker EXCEPT ![w] = [pc |-> "wait", req |-> q, attempt |-> 0]]

\* _worker_loop up to the fetch: no pages, nothing to fetch; more pages than
\* the buffer holds, the assertion ends the thread.
TakeJob(w) ==
    LET q == Head(jobs)
    IN  /\ worker[w].pc = "get"
        /\ jobs # <<>>
        /\ jobs' = Tail(jobs)
        /\ \/ Pages(q) = 0 /\ Report(w, q, TRUE)
           \/ /\ Pages(q) > MaxPages
              /\ worker' = [worker EXCEPT ![w] = [pc |-> "dead", req |-> q, attempt |-> 0]]
              /\ UNCHANGED done
           \/ /\ Pages(q) \in 1 .. MaxPages
              /\ worker' = [worker EXCEPT ![w] = [pc |-> "fetch", req |-> q, attempt |-> 0]]
              /\ UNCHANGED done
        /\ UNCHANGED <<fresh, staging, engineVars>>

\* The end of range(3).
LastAttempt(attempt) == attempt + 1 = MaxAttempts

\* One batch_get_into; a short or raising one may have written part of the
\* buffer and is tried again.
Fetch(w, ok) ==
    LET q == worker[w].req
        last == LastAttempt(worker[w].attempt)
    IN  /\ worker[w].pc = "fetch"
        /\ staging' = [staging EXCEPT ![w] = [owner |-> q, whole |-> ok]]
        /\ \/ (ok \/ last) /\ Report(w, q, ok)
           \/ /\ ~ok /\ ~last
              /\ worker' = [worker EXCEPT ![w].attempt = @ + 1]
              /\ UNCHANGED done
        /\ UNCHANGED <<fresh, jobs, engineVars>>

-----------------------------------------------------------------------------
\* Mutant: the records stay in the queue.
PollPeek ==
    /\ polled = <<>>
    /\ done # <<>>
    /\ polled' = SubSeq(done, 1, IF Len(done) < MaxItems THEN Len(done) ELSE MaxItems)
    /\ UNCHANGED <<fresh, jobs, worker, staging, done, num_free, blocks, kv,
                   admitted, rejected, finished, outcome>>

\* poll, at the head of _drain_kv_loads.
Poll ==
    LET n == IF Len(done) < MaxItems THEN Len(done) ELSE MaxItems
    IN  /\ polled = <<>>
        /\ done # <<>>
        /\ polled' = SubSeq(done, 1, n)
        /\ done' = SubSeq(done, n + 1, Len(done))
        /\ UNCHANGED <<fresh, jobs, worker, staging, num_free, blocks, kv,
                       admitted, rejected, finished, outcome>>

\* Mutant: blocks are allocated before done.ok is looked at.
InstallUnchecked(d, copied) ==
    LET q == d.req
        fits == Pages(q) <= num_free
    IN  /\ num_free' = IF fits THEN num_free - Pages(q) ELSE num_free
        /\ blocks' = IF fits THEN [blocks EXCEPT ![q] = Pages(q)] ELSE blocks
        /\ kv' = IF d.ok /\ fits THEN [kv EXCEPT ![q] = staging[d.worker]] ELSE kv

\* install gets past done.ok and past allocate.
Takes(d) == d.ok /\ Pages(d.req) <= num_free

\* install without its finally: allocate n_pages * 16 tokens (the assertion
\* of BlockManager::allocate is caught here) and copy the staged pages.  A
\* copy that raises is caught as well; what allocate took stays with the
\* request, and part of the pages may have been written.
Install(d, copied) ==
    LET q == d.req
        staged == staging[d.worker]
    IN  /\ num_free' = IF Takes(d) THEN num_free - Pages(q) ELSE num_free
        /\ blocks' = IF Takes(d) THEN [blocks EXCEPT ![q] = Pages(q)] ELSE blocks
        /\ kv' = IF Takes(d) /\ Pages(q) > 0
                 THEN [kv EXCEPT ![q] = IF copied THEN staged ELSE [staged EXCEPT !.whole = FALSE]]
                 ELSE kv

\* Mutant: only a successful install hands the buffer back.
ReleasedOnSuccess(d) ==
    worker' = IF d.ok /\ worker[d.worker].pc = "wait" /\ worker[d.worker].req = d.req
              THEN [worker EXCEPT ![d.worker] = Idle] ELSE worker

\* install's finally, on every path: the event of this record is set, and
\* the worker that waits for it has its buffer back.
Released(d) ==
    worker' = IF worker[d.worker].pc = "wait" /\ worker[d.worker].req = d.req
              THEN [worker EXCEPT ![d.worker] = Idle] ELSE worker

\* One record of the loop of _drain_kv_loads: install, then admit or reject.
\* A rejection is reported as one token, 0, with is_eos.  Without pages there
\* is no copy that could raise.
Drain(copied) ==
    LET d == Head(polled)
        q == d.req
        result == CASE ~d.ok                             -> "not fetched"
                    [] d.ok /\ ~Takes(d)                 -> "no room"
                    [] Takes(d) /\ ~copied               -> "copy raised"
                    [] Takes(d) /\ copied /\ ~Aligned(q) -> "wrong length"
                    [] OTHER                             -> "admitted"
    IN  /\ polled # <<>>
        /\ copied \/ Pages(q) > 0
        /\ polled' = Tail(polled)
        /\ Install(d, copied)
        /\ Released(d)
        /\ outcome' = [outcome EXCEPT ![q] = result]
        /\ admitted' = IF result = "admitted" THEN admitted \cup {q} ELSE admitted
        /\ rejected' = IF result = "admitted" THEN rejected ELSE rejected \cup {q}
        /\ UNCHANGED <<fresh, jobs, staging, done, finished>>

DrainOne == \E copied \in BOOLEAN : Drain(copied)

\* release_seqs once an admitted request has produced its output.  The
\* blocks its decoding adds in between are the subject of BlockManager.
Finish(q) ==
    /\ q \in admitted \ finished
    /\ polled = <<>>
    /\ finished' = finished \cup {q}
    /\ num_free' = num_free + blocks[q]
    /\ blocks' = [blocks EXCEPT ![q] = 0]
    /\ UNCHANGED <<fresh, jobs, worker, staging, done, polled, kv, admitted,
                   rejected, outcome>>

Work(w) == TakeJob(w) \/ \E ok \in BOOLEAN : Fetch(w, ok)

Next ==
    \/ \E q \in Req : Submit(q) \/ Finish(q)
    \/ \E w \in Worker : Work(w)
    \/ Poll
    \/ DrainOne

\* The worker threads and the engine loop are scheduled for ever.
Fairness ==
    /\ \A w \in Worker : WF_vars(Work(w))
    /\ WF_vars(Poll) /\ WF_vars(DrainOne)
    /\ \A q \in Req : WF_vars(Finish(q))

Spec == Init /\ [][Next]_vars /\ Fairness

-----------------------------------------------------------------------------
Staged == [owner : Req \cup {NoReq}, whole : BOOLEAN]
DoneRecord == [req : Req, worker : Worker, ok : BOOLEAN]

(* A request is only ever admitted with its own prompt KV, all of it: no     *)
(* worker writes into a staging buffer between the end of a fetch and the   *)
(* engine's copy of it, however fetches, polls and installs interleave      *)
(* (KVLoadDone.released).                                                   *)
AdmittedWithOwnKV ==
    \A q \in admitted :
        Pages(q) > 0 => kv[q] = [owner |-> q, whole |-> TRUE]

(* A request waits in exactly one place (not received, queued, with a       *)
(* worker, reported, polled) or has exactly one outcome: no fetch is lost,  *)
(* done twice, or both admitted and rejected, across retries and polls.     *)
OnePlace ==
    LET places(q) == {<<"jobs", i>> : i \in {i \in DOMAIN jobs : jobs[i] = q}}
          \cup {<<"worker", w>> : w \in {w \in Worker : worker[w].req = q
                                           /\ worker[w].pc \in {"fetch", "dead"}}}
          \cup {<<"done", i>> : i \in {i \in DOMAIN done : done[i].req = q}}
          \cup {<<"polled", i>> : i \in {i \in DOMAIN polled : polled[i].req = q}}
          \cup {<<s, 0>> : s \in {s \in {"fresh", "admitted", "rejected"} :
                   \/ s = "fresh" /\ q \in fresh
                   \/ s = "admitted" /\ q \in admitted
                   \/ s = "rejected" /\ q \in rejected}}
    IN  \A q \in Req : Cardinality(places(q)) = 1

(* Exactly two kinds of requests hold blocks, each the pages of its own     *)
(* prompt: those admitted and not yet finished, and those rejected after    *)
(* allocate succeeded, because the copy raised or because init_prefill_len  *)
(* is not the page-aligned prompt length.  Neither path of the code gives   *)
(* the blocks back.  A failed fetch or a pool too small takes none, and     *)
(* every block is either free or in one of those hands.                     *)
BlocksHeldByWhom ==
    /\ num_free + SumFunctionOnSet(blocks, Req) = NumBlocks
    /\ \A q \in Req : blocks[q] =
          IF \/ q \in admitted \ finished
             \/ outcome[q] \in {"copy raised", "wrong length"}
          THEN Pages(q) ELSE 0

(* As long as one worker thread lives, every request that fits a staging     *)
(* buffer is admitted or rejected: no fetch waits for a buffer that is      *)
(* never handed back.                                                       *)
SettledWhileAWorkerLives ==
    \A q \in Req : q \notin fresh ~>
        \/ q \in admitted \cup rejected
        \/ Pages(q) > MaxPages
        \/ \A w \in Worker : worker[w].pc = "dead"

=============================================================================
